---------------------------- MODULE XdmaEngineProofs ------------------------
(*****************************************************************************)
(* One SG-DMA engine under its callers, for every number of callers,         *)
(* segments and descriptors, every ring size and every order of interrupts,  *)
(* time-outs, errors and resets: the types of its state, what the list may   *)
(* hold, the completion of iocbs, that an engine taken offline stays         *)
(* stopped, that the hardware runs the head of the list only, that a         *)
(* transfer fails for a cause of its own, and that nobody is told of more    *)
(* than was moved. The operators of the engine come first, each shown to     *)
(* keep the invariant; the actions that call them follow.                    *)
(*****************************************************************************)
EXTENDS XdmaEngineInv, TLAPS, FiniteSetTheorems, SequenceTheorems,
        WellFoundedInduction

-----------------------------------------------------------------------------

(* The remainder of a division by a positive number.                       *)
LEMMA Modulo ==
  ASSUME NEW a \in Int, NEW b \in Nat, b > 0
  PROVE  a % b \in 0 .. b - 1
OBVIOUS

(* A set of naturals that is not empty has a least element: its initial    *)
(* segments are finite, and a set of finite sets has a minimal one.        *)
LEMMA NatLeast ==
  ASSUME NEW A, A \subseteq Nat, A # {}
  PROVE  \E n \in A : \A k \in A : n <= k
<1> DEFINE T == {0 .. k : k \in A}
<1>1. T \subseteq FiniteSubsetsOf(Nat)
  <2> SUFFICES ASSUME NEW k \in A
               PROVE  IsFiniteSet(0 .. k) /\ 0 .. k \subseteq Nat
    BY DEF FiniteSubsetsOf
  <2> QED BY FS_Interval
<1>2. PICK U \in T : \A V \in T : ~(<<V, U>> \in StrictSubsetOrdering(Nat))
  <2>1. T # {}
    OBVIOUS
  <2> HIDE DEF T
  <2> QED BY <2>1, <1>1, FS_StrictSubsetOrderingWellFounded, WFMin
<1>3. PICK n \in A : U = 0 .. n
  OBVIOUS
<1>4. ASSUME NEW k \in A, k < n PROVE FALSE
  <2>1. 0 .. k \subseteq 0 .. n /\ 0 .. k # 0 .. n /\ 0 .. k \in SUBSET Nat
        /\ 0 .. n \in SUBSET Nat
    BY <1>4
  <2>2. <<0 .. k, 0 .. n>> \in StrictSubsetOrdering(Nat)
    BY <2>1 DEF StrictSubsetOrdering
  <2> QED BY <2>2, <1>2, <1>3
<1> QED BY <1>4

(* The fields of an engine.                                                *)
LEMMA Fields ==
  DOMAIN IdleEngine =
    {"list", "running", "dequeued", "request", "busy", "err", "hw", "hx",
     "hcnt", "herr", "irq", "wb", "wberr", "idx", "ring", "at", "dnum",
     "state", "moved", "erred", "freed", "cmpl", "res", "ended"}
BY DEF IdleEngine

(* What a transfer is: its caller, its segment and its chunk.              *)
LEMMA XferType ==
  \A x \in Xfers :
    /\ x[1] \in Tasks /\ x[2] \in 1 .. Segs[x[1]] /\ x[3] \in 1 .. Need[x[1]]
    /\ x = <<x[1], x[2], x[3]>> /\ ReqOf(x) \in Reqs /\ ReqOf(x)[1] = x[1]
    /\ ReqOf(x)[2] = x[2]
BY SizesAssumption DEF Xfers, Reqs, ReqOf

(* What is made of a caller, a segment and a chunk is a transfer.          *)
LEMMA IsXfer ==
  \A t \in Tasks : \A b \in 1 .. Segs[t] : \A i \in 1 .. Need[t] :
    <<t, b, i>> \in Xfers
BY DEF Xfers

(* What a request is.                                                      *)
LEMMA IsReq ==
  \A r \in Reqs : /\ r[1] \in Tasks /\ r[2] \in 1 .. Segs[r[1]] /\ r[2] \in Nat
                 /\ r = <<r[1], r[2]>>
BY SizesAssumption DEF Reqs

(* Induction over the naturals, on the set of those that have a property.  *)
LEMMA SetInduction ==
  ASSUME NEW G, 0 \in G, \A n \in Nat : n \in G => n + 1 \in G
  PROVE  Nat \subseteq G
<1> DEFINE Bad == Nat \ G
<1>1. SUFFICES ASSUME Bad # {} PROVE FALSE
  OBVIOUS
<1>2. PICK n \in Bad : \A k \in Bad : n <= k
  BY <1>1, NatLeast
<1>3. n # 0 /\ n - 1 \in Nat /\ n - 1 \notin Bad
  BY <1>2
<1> QED
  BY <1>2, <1>3

(* The running sums of a finite sequence of naturals exist.                *)
LEMMA SumExists ==
  ASSUME NEW L \in Nat, NEW d \in [1 .. L -> Nat]
  PROVE  \E f \in [0 .. L -> Nat] :
           f[0] = 0 /\ \A j \in 1 .. L : f[j] = f[j - 1] + d[j]
<1> DEFINE Sum(f, n) ==
             f[0] = 0 /\ \A j \in 1 .. n : f[j] = f[j - 1] + d[j]
           G == {n \in Nat : n <= L => \E f \in [0 .. n -> Nat] : Sum(f, n)}
<1>1. 0 \in G
  <2>1. Sum([j \in 0 .. 0 |-> 0], 0)
    OBVIOUS
  <2>2. [j \in 0 .. 0 |-> 0] \in [0 .. 0 -> Nat]
    OBVIOUS
  <2> QED BY <2>1, <2>2
<1>2. ASSUME NEW n \in Nat, n \in G, n + 1 <= L
      PROVE  \E f \in [0 .. n + 1 -> Nat] : Sum(f, n + 1)
  <2>1. PICK f \in [0 .. n -> Nat] : Sum(f, n)
    BY <1>2
  <2> DEFINE g ==
        [j \in 0 .. n + 1 |-> IF j = n + 1 THEN f[n] + d[n + 1] ELSE f[j]]
  <2>2. g \in [0 .. n + 1 -> Nat]
    <3>1. d[n + 1] \in Nat /\ \A j \in 0 .. n : f[j] \in Nat
      BY <1>2
    <3>2. \A j \in 0 .. n + 1 : j # n + 1 => j \in 0 .. n
      OBVIOUS
    <3> QED BY <3>1, <3>2
  <2>3. g[0] = 0
    BY <2>1
  <2>4. ASSUME NEW j \in 1 .. n + 1 PROVE g[j] = g[j - 1] + d[j]
    <3>1. CASE j = n + 1
      BY <3>1
    <3>2. CASE j # n + 1
      <4>1. j \in 1 .. n /\ j - 1 \in 0 .. n
        BY <3>2
      <4> QED BY <4>1, <2>1
    <3> QED BY <3>1, <3>2
  <2> HIDE DEF g
  <2> QED BY <2>2, <2>3, <2>4
<1>3. \A n \in Nat : n \in G => n + 1 \in G
  <2> SUFFICES ASSUME NEW n \in Nat, n \in G PROVE n + 1 \in G
    OBVIOUS
  <2>1. n <= L => \E f \in [0 .. n -> Nat] : Sum(f, n)
    OBVIOUS
  <2>2. n + 1 \in Nat /\ (n + 1 <= L => n <= L)
    OBVIOUS
  <2> HIDE DEF Sum
  <2> QED BY <1>2, <2>2
<1>4. Nat \subseteq G
  <2> HIDE DEF G
  <2> QED BY <1>1, <1>3, SetInduction
<1>5. L \in G
  BY <1>4
<1>6. L <= L => \E f \in [0 .. L -> Nat] : Sum(f, L)
  <2> HIDE DEF Sum
  <2> QED BY <1>5
<1>7. L <= L
  OBVIOUS
<1> QED
  BY <1>6, <1>7, Zenon

(* What the recursive function Sums computes.                              *)
LEMMA SumsFacts ==
  ASSUME NEW s, EngineOK(s)
  PROVE  /\ Sums(s) \in [0 .. Len(s.list) -> Nat]
         /\ Sums(s)[0] = 0
         /\ \A j \in Places(s) :
              Sums(s)[j] = Sums(s)[j - 1] + s.dnum[s.list[j]]
<1> DEFINE L == Len(s.list)
           d == [j \in 1 .. L |-> s.dnum[s.list[j]]]
           body(f) ==
             [j \in 0 .. L |->
                IF j = 0 THEN 0 ELSE f[j - 1] + s.dnum[s.list[j]]]
<1>0. L \in Nat /\ d \in [1 .. L -> Nat]
  <2>1. L \in Nat /\ \A j \in 1 .. L : s.list[j] \in Xfers
    BY DEF EngineOK
  <2>2. \A x \in Xfers : s.dnum[x] \in Nat
    BY SizesAssumption DEF EngineOK
  <2> QED BY <2>1, <2>2
<1>1. PICK f \in [0 .. L -> Nat] :
           f[0] = 0 /\ \A j \in 1 .. L : f[j] = f[j - 1] + d[j]
  <2> HIDE DEF d, L
  <2> QED BY <1>0, SumExists
<1>2. f = body(f)
  <2> SUFFICES ASSUME NEW j \in 0 .. L PROVE f[j] = body(f)[j]
    BY <1>1, Zenon
  <2>1. CASE j = 0
    BY <2>1, <1>1
  <2>2. CASE j # 0
    <3>1. j \in 1 .. L /\ d[j] = s.dnum[s.list[j]]
      BY <2>2, <1>0
    <3>2. body(f)[j] = f[j - 1] + d[j]
      BY <3>1, <2>2
    <3> QED BY <3>1, <3>2, <1>1
  <2> QED BY <2>1, <2>2
<1>3. Sums(s) = CHOOSE h : h = body(h)
  BY DEF Sums
<1>4. Sums(s) = body(Sums(s))
  <2> HIDE DEF body
  <2> QED BY <1>2, <1>3
<1>5. Sums(s)[0] = 0
  BY <1>4, <1>0
<1>6. ASSUME NEW j \in 1 .. L
      PROVE  Sums(s)[j] = Sums(s)[j - 1] + s.dnum[s.list[j]]
  BY <1>4, <1>0
<1>7. ASSUME NEW j \in 0 .. L PROVE Sums(s)[j] \in Nat
  <2> DEFINE G == {n \in Nat : n <= L => Sums(s)[n] \in Nat}
  <2>1. 0 \in G
    BY <1>5
  <2>2. ASSUME NEW n \in Nat, n \in G PROVE n + 1 \in G
    <3>1. CASE n + 1 <= L
      <4>1. n + 1 \in 1 .. L /\ n + 1 - 1 = n /\ Sums(s)[n] \in Nat
        BY <2>2, <3>1, <1>0
      <4>2. Sums(s)[n + 1] = Sums(s)[n + 1 - 1] + s.dnum[s.list[n + 1]]
        BY <4>1, <1>6
      <4>3. d[n + 1] \in Nat /\ d[n + 1] = s.dnum[s.list[n + 1]]
        BY <4>1, <1>0
      <4> HIDE DEF d
      <4>4. Sums(s)[n + 1] \in Nat
        BY <4>1, <4>2, <4>3
      <4> QED BY <4>4
    <3>2. CASE ~(n + 1 <= L)
      BY <3>2
    <3> QED BY <3>1, <3>2
  <2>3. Nat \subseteq G
    <3> HIDE DEF G
    <3> QED BY <2>1, <2>2, SetInduction
  <2> QED BY <2>3, <1>0
<1>8. Sums(s) = [j \in 0 .. L |-> Sums(s)[j]]
  BY <1>4, Zenon
<1> QED
  BY <1>5, <1>6, <1>7, <1>8 DEF Places

(* Each running sum is at least what the head of the list takes.           *)
LEMMA SumsAbove ==
  ASSUME NEW s, EngineOK(s)
  PROVE  \A j \in Places(s) : Sums(s)[j] >= s.dnum[s.list[1]]
<1> DEFINE L == Len(s.list)
           G == {n \in Nat : n + 1 <= L => Sums(s)[n + 1] >= s.dnum[s.list[1]]}
<1>1. /\ L \in Nat /\ \A j \in 1 .. L : s.dnum[s.list[j]] \in Nat
      /\ \A j \in 0 .. L : Sums(s)[j] \in Nat
      /\ Sums(s)[0] = 0
      /\ \A j \in 1 .. L : Sums(s)[j] = Sums(s)[j - 1] + s.dnum[s.list[j]]
  <2>1. L \in Nat /\ \A j \in 1 .. L : s.dnum[s.list[j]] \in Nat
    <3>1. L \in Nat /\ \A j \in 1 .. L : s.list[j] \in Xfers
      BY DEF EngineOK
    <3>2. \A x \in Xfers : s.dnum[x] \in Nat
      BY SizesAssumption DEF EngineOK
    <3> QED BY <3>1, <3>2
  <2>2. \A j \in 0 .. L : Sums(s)[j] \in Nat
    BY SumsFacts
  <2> QED BY <2>1, <2>2, SumsFacts DEF Places
<1>2. 0 \in G
  BY <1>1
<1>3. ASSUME NEW n \in Nat, n \in G PROVE n + 1 \in G
  <2>1. CASE n + 1 + 1 <= L
    <3>1. n + 1 \in 1 .. L /\ n + 1 + 1 \in 1 .. L /\ n + 1 + 1 - 1 = n + 1
      BY <2>1, <1>1
    <3>2. Sums(s)[n + 1] >= s.dnum[s.list[1]]
      BY <3>1, <1>3, <1>1
    <3>3. Sums(s)[n + 1 + 1]
            = Sums(s)[n + 1 + 1 - 1] + s.dnum[s.list[n + 1 + 1]]
      BY <3>1, <1>1
    <3>4. /\ Sums(s)[n + 1] \in Nat /\ s.dnum[s.list[n + 1 + 1]] \in Nat
          /\ s.dnum[s.list[1]] \in Nat
      <4>1. n + 1 \in 0 .. L /\ 1 \in 1 .. L
        BY <3>1, <1>1
      <4> QED BY <4>1, <3>1, <1>1
    <3> QED BY <3>1, <3>2, <3>3, <3>4
  <2>2. CASE ~(n + 1 + 1 <= L)
    BY <2>2
  <2> QED BY <2>1, <2>2
<1>4. Nat \subseteq G
  <2> HIDE DEF G
  <2> QED BY <1>2, <1>3, SetInduction
<1>5. ASSUME NEW j \in 1 .. L PROVE Sums(s)[j] >= s.dnum[s.list[1]]
  <2>1. j - 1 \in G
    BY <1>4
  <2> QED BY <2>1
<1> QED
  BY <1>5 DEF Places

-----------------------------------------------------------------------------
(* Counting descriptors.                                                   *)

(* The transfers of one caller are finitely many.                          *)
LEMMA XfersFinite ==
  ASSUME NEW t \in Tasks PROVE IsFiniteSet(XfersOf(t))
<1> DEFINE T == (1 .. Segs[t]) \X (1 .. Need[t])
           f == [x \in XfersOf(t) |-> <<x[2], x[3]>>]
<1>1. IsFiniteSet(T)
  <2>1. \A n \in Nat : IsFiniteSet(1 .. n)
    BY FS_Interval
  <2>2. Segs[t] \in Nat /\ Need[t] \in Nat
    BY SizesAssumption
  <2>3. IsFiniteSet(1 .. Segs[t]) /\ IsFiniteSet(1 .. Need[t])
    BY <2>1, <2>2, Zenon
  <2> QED BY <2>3, FS_Product
<1>2. \A x \in XfersOf(t) :
        x[2] \in 1 .. Segs[t] /\ x[3] \in 1 .. Need[t] /\ x = <<t, x[2], x[3]>>
  BY XferType DEF XfersOf
<1>3. f \in Injection(XfersOf(t), T)
  <2>1. f \in [XfersOf(t) -> T]
    BY <1>2
  <2>2. ASSUME NEW x \in XfersOf(t), NEW y \in XfersOf(t), f[x] = f[y]
        PROVE  x = y
    <3>1. x[2] = y[2] /\ x[3] = y[3]
      BY <2>2
    <3> QED BY <1>2, <3>1
  <2> HIDE DEF f, T
  <2> QED BY <2>1, <2>2 DEF Injection, IsInjective
<1> HIDE DEF f, T
<1> QED BY <1>1, <1>3, FS_Injection

(* And so are the descriptors of some of them.                             *)
LEMMA DescsFinite ==
  ASSUME NEW t \in Tasks, NEW X \in SUBSET XfersOf(t), NEW d,
         \A x \in X : d[x] \in 0 .. DescMax
  PROVE  IsFiniteSet(Descs(X, d)) /\ Cardinality(Descs(X, d)) \in Nat
<1> DEFINE T == XfersOf(t) \X (1 .. DescMax)
<1>1. IsFiniteSet(T)
  <2>1. IsFiniteSet(1 .. DescMax)
    BY SizesAssumption, FS_Interval
  <2> QED BY <2>1, XfersFinite, FS_Product
<1>2. Descs(X, d) \in SUBSET T
  <2> SUFFICES ASSUME NEW x \in X, NEW i \in 1 .. d[x] PROVE <<x, i>> \in T
    BY DEF Descs
  <2> QED BY SizesAssumption
<1> HIDE DEF T
<1> QED BY <1>1, <1>2, FS_Subset, FS_CardinalityType

(* More transfers have more descriptors.                                   *)
LEMMA DescsMore ==
  ASSUME NEW t \in Tasks, NEW Y \in SUBSET XfersOf(t), NEW X \in SUBSET Y,
         NEW d, NEW e, \A x \in X : d[x] \in Nat /\ d[x] <= e[x],
         \A x \in Y : e[x] \in 0 .. DescMax
  PROVE  Cardinality(Descs(X, d)) <= Cardinality(Descs(Y, e))
<1>1. IsFiniteSet(Descs(Y, e))
  BY DescsFinite
<1>2. Descs(X, d) \in SUBSET Descs(Y, e)
  <2> SUFFICES ASSUME NEW x \in X, NEW i \in 1 .. d[x]
               PROVE  x \in Y /\ i \in 1 .. e[x]
    BY DEF Descs
  <2>1. x \in Y /\ d[x] \in Nat /\ d[x] <= e[x] /\ e[x] \in Nat
    BY SizesAssumption
  <2> QED BY <2>1
<1> QED BY <1>1, <1>2, FS_Subset

(* Those of disjoint sets of transfers add up.                             *)
LEMMA DescsAdd ==
  ASSUME NEW t \in Tasks, NEW X \in SUBSET XfersOf(t),
         NEW Y \in SUBSET XfersOf(t), X \cap Y = {}, NEW d,
         \A x \in X \cup Y : d[x] \in 0 .. DescMax
  PROVE  Cardinality(Descs(X \cup Y, d))
           = Cardinality(Descs(X, d)) + Cardinality(Descs(Y, d))
<1> DEFINE A == Descs(X, d)
           B == Descs(Y, d)
<1>1. IsFiniteSet(A) /\ IsFiniteSet(B)
      /\ Cardinality(A) \in Nat /\ Cardinality(B) \in Nat
  BY DescsFinite
<1>2. Descs(X \cup Y, d) = A \cup B
  BY DEF Descs
<1>3. A \cap B = {}
  <2> SUFFICES ASSUME NEW p \in A, p \in B PROVE FALSE
    OBVIOUS
  <2>1. PICK x \in X : p \in {x} \X (1 .. d[x])
    BY DEF Descs
  <2>2. PICK y \in Y : p \in {y} \X (1 .. d[y])
    BY DEF Descs
  <2>3. p[1] = x /\ p[1] = y
    BY <2>1, <2>2
  <2> QED BY <2>1, <2>2, <2>3
<1> HIDE DEF A, B
<1>4. Cardinality(A \cup B)
        = Cardinality(A) + Cardinality(B) - Cardinality(A \cap B)
  BY <1>1, FS_Union
<1>5. Cardinality(A \cap B) = 0
  BY <1>3, FS_EmptySet
<1>6. Cardinality(A \cup B) = Cardinality(A) + Cardinality(B)
  BY <1>1, <1>4, <1>5
<1> QED BY <1>2, <1>6 DEF A, B

(* One transfer has as many as it was carved.                              *)
LEMMA DescsOne ==
  ASSUME NEW x, NEW d, d[x] \in Nat PROVE Cardinality(Descs({x}, d)) = d[x]
<1> DEFINE n == d[x]
<1>1. Descs({x}, d) = {x} \X (1 .. d[x])
  BY DEF Descs
<1>2. n \in Nat
  OBVIOUS
<1> HIDE DEF n
<1>3. IsFiniteSet(1 .. n) /\ Cardinality(1 .. n) = n
  BY <1>2, FS_Interval
<1>4. IsFiniteSet({x}) /\ Cardinality({x}) = 1
  BY FS_Singleton
<1>5. Cardinality({x} \X (1 .. n)) = Cardinality({x}) * Cardinality(1 .. n)
  BY <1>3, <1>4, FS_Product
<1>6. 1 * n = n
  BY <1>2
<1>7. Cardinality({x} \X (1 .. n)) = n
  BY <1>3, <1>4, <1>5, <1>6
<1>8. Descs({x}, d) = {x} \X (1 .. n)
  BY <1>1 DEF n
<1> QED BY <1>7, <1>8 DEF n

(* No less is known of completed transfers of iocbs when no total has      *)
(* changed, and what was completed still is.                               *)
LEMMA TallyKept ==
  ASSUME NEW s, NEW u, Tallied(s), u.res = s.res, s.freed \subseteq u.freed,
         s.dnum \in [Xfers -> 0 .. DescMax],
         u.dnum \in [Xfers -> 0 .. DescMax],
         \A x \in Xfers : s.state[x] = "completed" =>
           u.state[x] = "completed" /\ u.dnum[x] = s.dnum[x],
         s.res \in [Aio -> Nat]
  PROVE  Tallied(u)
<1> SUFFICES ASSUME NEW t \in Aio
             PROVE  u.res[t] <= Cardinality(Descs(IocbTold(u, t), u.dnum))
  BY DEF Tallied
<1> DEFINE X == IocbTold(s, t)
           Y == IocbTold(u, t)
<1>1. t \in Tasks /\ Y \in SUBSET XfersOf(t) /\ X \in SUBSET Y
      /\ X \in SUBSET XfersOf(t) /\ XfersOf(t) \subseteq Xfers
  BY DEF IocbTold, XfersOf, Tasks
<1>2. \A x \in X : s.dnum[x] \in Nat /\ s.dnum[x] <= u.dnum[x]
  <2> SUFFICES ASSUME NEW x \in X
               PROVE  s.dnum[x] \in Nat /\ s.dnum[x] <= u.dnum[x]
    OBVIOUS
  <2>1. x \in Xfers /\ u.dnum[x] = s.dnum[x]
    BY <1>1 DEF IocbTold
  <2>2. s.dnum[x] \in 0 .. DescMax
    BY <2>1
  <2> QED BY <2>1, <2>2, SizesAssumption
<1>3. \A x \in Y : u.dnum[x] \in 0 .. DescMax
  BY <1>1
<1>4. \A x \in X : s.dnum[x] \in 0 .. DescMax
  BY <1>1
<1>5. s.res[t] <= Cardinality(Descs(X, s.dnum))
  BY DEF Tallied
<1> HIDE DEF X, Y
<1>6. Cardinality(Descs(X, s.dnum)) <= Cardinality(Descs(Y, u.dnum))
  BY <1>1, <1>2, <1>3, DescsMore
<1>7. /\ Cardinality(Descs(X, s.dnum)) \in Nat
      /\ Cardinality(Descs(Y, u.dnum)) \in Nat
  BY <1>1, <1>3, <1>4, DescsFinite
<1> QED BY <1>5, <1>6, <1>7 DEF Y

-----------------------------------------------------------------------------
(* Engines that serve, and the operators on their registers.               *)

(* An engine that serves: its invariant holds and what is listed is live.  *)
Good(s) == EngineInv(s) /\ Live(s)

(* What an operator that serves the list may do to transfers and requests: *)
(* submitted transfers get over, and an iocb's requests are freed with     *)
(* their last chunk, when their slots are cleared.                         *)
Wiped(s, u, p) ==
  /\ u.ring[p] = NoXfer
  /\ \E x \in Xfers : /\ x[1] \in Aio /\ p \in SlotsOf(s, x)
                      /\ ReqOf(x) \in u.freed \ s.freed

Serves(s, u) ==
  /\ u.dnum = s.dnum /\ u.idx = s.idx /\ u.at = s.at
  /\ s.freed \subseteq u.freed
  /\ \A p \in Slots : u.ring[p] = s.ring[p] \/ Wiped(s, u, p)
  /\ \A x \in Xfers : \/ u.state[x] = s.state[x]
                      \/ s.state[x] = "submitted" /\ u.state[x] \in Over
  /\ \A r \in u.freed \ s.freed : \E x \in Xfers :
       /\ r = ReqOf(x) /\ x[1] \in Aio
       /\ LastInRequest(s, x) /\ s.state[x] = "submitted"

(* The two engines differ in their registers and counters only.            *)
Alike(s, u) ==
  /\ u.list = s.list /\ u.dnum = s.dnum /\ u.state = s.state /\ u.idx = s.idx
  /\ u.at = s.at /\ u.ring = s.ring
  /\ u.cmpl = s.cmpl /\ u.ended = s.ended /\ u.freed = s.freed
  /\ u.res = s.res

(* An engine left alone was served.                                        *)
LEMMA ServesRefl == \A s : Serves(s, s)
BY DEF Serves, Wiped

(* Serving goes on.                                                        *)
LEMMA ServesTrans ==
  ASSUME NEW s, NEW u, NEW v, Serves(s, u), Serves(u, v)
  PROVE  Serves(s, v)
<1>1. \A x : LastInRequest(u, x) = LastInRequest(s, x)
  BY DEF Serves, LastInRequest
<1>2. \A x \in Xfers : u.state[x] = "submitted" => s.state[x] = "submitted"
  BY DEF Serves, Over
<1>3. /\ v.dnum = s.dnum /\ v.idx = s.idx /\ v.at = s.at
      /\ s.freed \subseteq u.freed /\ u.freed \subseteq v.freed
  BY DEF Serves
<1>4. ASSUME NEW p \in Slots, v.ring[p] # s.ring[p] PROVE Wiped(s, v, p)
  <2>1. \A x : SlotsOf(u, x) = SlotsOf(s, x)
    BY DEF Serves, SlotsOf
  <2>2. CASE Wiped(u, v, p)
    BY <2>1, <2>2, <1>3 DEF Wiped
  <2>3. CASE v.ring[p] = u.ring[p] /\ Wiped(s, u, p)
    BY <2>3, <1>3 DEF Wiped
  <2> QED BY <1>4, <2>2, <2>3 DEF Serves
<1>5. \A x \in Xfers : \/ v.state[x] = s.state[x]
                       \/ s.state[x] = "submitted" /\ v.state[x] \in Over
  <2> TAKE x \in Xfers
  <2>1. \/ u.state[x] = s.state[x]
        \/ s.state[x] = "submitted" /\ u.state[x] \in Over
    BY DEF Serves
  <2>2. \/ v.state[x] = u.state[x]
        \/ u.state[x] = "submitted" /\ v.state[x] \in Over
    BY DEF Serves
  <2>3. "submitted" \notin Over
    BY DEF Over
  <2> QED BY <2>1, <2>2, <2>3
<1>6. ASSUME NEW r \in v.freed \ s.freed
      PROVE  \E x \in Xfers :
               /\ r = ReqOf(x) /\ x[1] \in Aio
               /\ LastInRequest(s, x) /\ s.state[x] = "submitted"
  <2>1. CASE r \in u.freed
    BY <2>1 DEF Serves
  <2>2. CASE r \notin u.freed
    BY <2>2, <1>1, <1>2 DEF Serves
  <2> QED BY <2>1, <2>2
<1> QED
  BY <1>3, <1>4, <1>5, <1>6 DEF Serves

(* The invariant does not depend on the rest of the engine.                *)
LEMMA UntouchedInv ==
  ASSUME NEW s, NEW u, EngineInv(s), EngineOK(u), Engaged(u), Alike(s, u)
  PROVE  EngineInv(u)
<1>1. \A x : LastInRequest(u, x) = LastInRequest(s, x)
  BY DEF Alike, LastInRequest
<1>2. \A t : Through(u, t) = Through(s, t)
  BY <1>1 DEF Through, Alike
<1>3. Counted(u)
  BY <1>2 DEF EngineInv, Counted, Alike, Places
<1>4. Ordered(u) /\ Carved(u) /\ Ringed(u)
  BY DEF EngineInv, Ordered, Carved, Ringed, SlotsOf, Alike, Places
<1>5. Tallied(u)
  BY DEF EngineInv, Tallied, IocbTold, Alike
<1> QED
  BY <1>3, <1>4, <1>5 DEF EngineInv

(* Nor does being fit to serve.                                            *)
LEMMA Untouched ==
  ASSUME NEW s, NEW u, Good(s), EngineOK(u), Engaged(u), Alike(s, u)
  PROVE  Good(u) /\ Serves(s, u)
BY UntouchedInv DEF Good, Live, Serves, Wiped, Alike, Places

(* xdma_engine_stop.                                                       *)
LEMMA StopKeeps ==
  ASSUME NEW s, Good(s) PROVE Good(Stop(s)) /\ Serves(s, Stop(s))
<1>1. EngineOK(Stop(s))
  BY Fields DEF Good, EngineInv, EngineOK, Stop
<1>2. Engaged(Stop(s)) /\ Alike(s, Stop(s))
  BY Fields DEF Good, EngineInv, EngineOK, Engaged, Reached, Alike, Stop
<1> QED
  BY <1>1, <1>2, Untouched

(* engine_status_read, clearing or not.                                    *)
LEMMA ReadKeeps ==
  ASSUME NEW s, Good(s)
  PROVE  /\ Good(ReadStatus(s)) /\ Serves(s, ReadStatus(s))
         /\ Good(PeekStatus(s)) /\ Serves(s, PeekStatus(s))
<1>1. EngineOK(ReadStatus(s)) /\ EngineOK(PeekStatus(s))
  BY Fields DEF Good, EngineInv, EngineOK, ReadStatus, PeekStatus
<1>2. Engaged(ReadStatus(s)) /\ Alike(s, ReadStatus(s))
  BY Fields
  DEF Good, EngineInv, EngineOK, Engaged, Reached, Alike, ReadStatus
<1>3. Engaged(PeekStatus(s)) /\ Alike(s, PeekStatus(s))
  BY Fields
  DEF Good, EngineInv, EngineOK, Engaged, Reached, Alike, PeekStatus
<1> QED
  BY <1>1, <1>2, <1>3, Untouched

(* A step moves the descriptor that the hardware has reached, of its own   *)
(* transfer or of the one that the ring holds there.                       *)
LEMMA StepsAre ==
  ASSUME NEW s, Good(s), NEW u \in Steps(s)
  PROVE  /\ s.hw # "idle" /\ s.hx \in Xfers /\ Reached(s) \in Slots
         /\ s.hcnt \in Nat /\ s.at[s.hx] \in Nat
         /\ \E y \in {s.hx, s.ring[Reached(s)]} \cap Xfers :
              u = Advance(s, y) /\ Reached(s) \in SlotsOf(s, y)
<1>1. s.hw # "idle"
  BY DEF Steps
<1>2. s.hx \in Xfers /\ Reached(s) < DescMax
  BY <1>1 DEF Good, EngineInv, Engaged
<1>3. s.hcnt \in Nat /\ s.at[s.hx] \in Nat
  BY <1>2, SizesAssumption DEF Good, EngineInv, EngineOK, Slots
<1>4. Reached(s) \in Slots
  BY <1>2, <1>3, SizesAssumption DEF Reached, Slots
<1>5. s.ring[Reached(s)] \in Xfers \cup {NoXfer}
  BY <1>4 DEF Good, EngineInv, EngineOK
<1>6. PICK y \in {s.hx, s.ring[Reached(s)]} \ {NoXfer} :
        u = Advance(s, y) /\ Reached(s) \in SlotsOf(s, y)
  BY <1>1 DEF Steps
<1>7. y \in Xfers
  BY <1>2, <1>5, <1>6
<1> QED BY <1>1, <1>2, <1>3, <1>4, <1>6, <1>7

(* The hardware moves a descriptor's data.                                 *)
LEMMA AdvanceKeeps ==
  ASSUME NEW s, Good(s), NEW u \in Steps(s)
  PROVE  Good(u) /\ Serves(s, u)
<1>1. /\ s.hw # "idle" /\ s.hx \in Xfers /\ Reached(s) \in Slots
      /\ s.hcnt \in Nat /\ s.at[s.hx] \in Nat
  BY StepsAre
<1>2. PICK y \in {s.hx, s.ring[Reached(s)]} \cap Xfers :
        u = Advance(s, y) /\ Reached(s) \in SlotsOf(s, y)
  BY StepsAre
<1> DEFINE n == s.hcnt + 1
           k == s.at[s.hx] + n - s.at[y]
<1>3. /\ EngineOK(s) /\ DOMAIN s = DOMAIN IdleEngine /\ s.irq \in BOOLEAN
      /\ s.moved \in [Xfers -> 0 .. DescMax] /\ DescMax \in Nat
      /\ s.dnum[y] \in Nat /\ s.at[y] \in Nat
      /\ s.at[y] + s.dnum[y] <= DescMax
  <2>1. EngineOK(s) /\ Ringed(s)
    BY DEF Good, EngineInv
  <2>2. y \in Xfers /\ DescMax \in Nat
    BY <1>2, SizesAssumption
  <2>3. s.at[y] + s.dnum[y] <= DescMax
    BY <2>1, <2>2 DEF Ringed
  <2>4. /\ DOMAIN s = DOMAIN IdleEngine /\ s.irq \in BOOLEAN
        /\ s.moved \in [Xfers -> 0 .. DescMax]
        /\ s.dnum \in [Xfers -> 0 .. DescMax] /\ s.at \in [Xfers -> Slots]
    BY <2>1 DEF EngineOK
  <2>5. s.dnum[y] \in 0 .. DescMax /\ s.at[y] \in 0 .. DescMax - 1
    BY <2>2, <2>4 DEF Slots
  <2> QED BY <2>1, <2>2, <2>3, <2>4, <2>5
<1>4. n \in 0 .. DescMax /\ k \in 0 .. DescMax
  <2>1. Reached(s) = s.at[s.hx] + s.hcnt /\ Reached(s) < DescMax
    BY <1>1, <1>3 DEF Reached, Slots
  <2>2. s.at[y] <= Reached(s) /\ Reached(s) <= s.at[y] + s.dnum[y] - 1
    BY <1>2, <1>3 DEF SlotsOf
  <2> QED BY <1>1, <1>3, <2>1, <2>2
<1>5. k < s.dnum[y] => s.at[s.hx] + n < DescMax
  BY <1>1, <1>3
<1>6. /\ DOMAIN u = DOMAIN IdleEngine
      /\ \A f \in DOMAIN IdleEngine \ {"hcnt", "moved", "hw", "irq", "wb"} :
           u[f] = s[f]
      /\ u.hcnt = n /\ u.hw \in {s.hw, "idle"} /\ u.wb \in {s.wb, n}
      /\ u.moved \in {[s.moved EXCEPT ![y] = k], s.moved}
      /\ u.irq \in BOOLEAN
      /\ k >= s.dnum[y] => u.hw = "idle"
  BY <1>2, <1>3, Fields DEF Advance
<1> HIDE DEF n, k
<1>7. u.moved \in [Xfers -> 0 .. DescMax]
  BY <1>3, <1>4, <1>6
<1>8. EngineOK(u)
  <2>1. /\ u.hcnt \in 0 .. DescMax /\ u.irq \in BOOLEAN
        /\ u.hw \in {s.hw, "idle"} /\ (u.wb = s.wb \/ u.wb \in 0 .. DescMax)
    BY <1>4, <1>6
  <2>2. /\ DOMAIN u = DOMAIN IdleEngine
        /\ \A f \in DOMAIN IdleEngine \ {"hcnt", "moved", "hw", "irq", "wb"} :
             u[f] = s[f]
    BY <1>6
  <2> QED BY <1>3, <1>7, <2>1, <2>2, Fields DEF EngineOK
<1>9. Alike(s, u)
  BY <1>6, Fields DEF Alike
<1>10. Engaged(u)
  <2>1. u.hw # "idle" => s.at[s.hx] + n < DescMax
    BY <1>3, <1>4, <1>5, <1>6
  <2>2. u.hx = s.hx /\ u.at = s.at /\ u.state = s.state /\ u.hcnt = n
    BY <1>6, Fields
  <2> QED BY <1>1, <2>1, <2>2 DEF Good, EngineInv, Engaged, Reached
<1> QED BY <1>8, <1>9, <1>10, Untouched

(* engine_start: the head of the list goes to the hardware.                *)
LEMMA StartKeeps ==
  ASSUME NEW s, Good(s)
  PROVE  Good(Start(s)) /\ Serves(s, Start(s)) /\ Alike(s, Start(s))
<1>1. CASE s.running \/ s.list = <<>>
  BY <1>1, ServesRefl DEF Start, Alike
<1>2. CASE ~(s.running \/ s.list = <<>>)
  <2> DEFINE x == Head(s.list)
  <2>1. /\ s.list \in Seq(Xfers) /\ 1 \in Places(s) /\ x = s.list[1]
        /\ x \in Xfers
    BY <1>2 DEF Good, EngineInv, EngineOK, Places
  <2>2. s.state[x] = "submitted" /\ s.dnum[x] >= 1
    BY <2>1 DEF Good, EngineInv, Live, Carved
  <2>3. EngineOK(Start(s))
    <3>1. 0 \in 0 .. DescMax /\ 0 \in 0 .. Word - 1
      BY SizesAssumption
    <3>2. Start(s) = [s EXCEPT !.running = TRUE, !.request = FALSE,
                       !.dequeued = 0, !.busy = TRUE, !.err = s.herr,
                       !.hw = "busy", !.hx = x, !.hcnt = 0]
      BY <1>2 DEF Start
    <3>3. EngineOK(s)
      BY DEF Good, EngineInv
    <3> HIDE DEF x
    <3> QED BY <2>1, <3>1, <3>2, <3>3, Fields DEF EngineOK
  <2>4. Engaged(Start(s)) /\ Alike(s, Start(s))
    <3>1. DOMAIN s = DOMAIN IdleEngine /\ s.at[x] \in 0 .. DescMax - 1
      BY <2>1 DEF Good, EngineInv, EngineOK, Slots
    <3>2. s.at[x] + 0 < DescMax
      BY <3>1, SizesAssumption
    <3> DEFINE u == Start(s)
    <3>3. /\ u.hx = x /\ u.hcnt = 0 /\ u.at = s.at /\ u.state = s.state
          /\ Alike(s, u)
      BY <1>2, <3>1, Fields DEF Start, Alike
    <3> HIDE DEF u, x
    <3> QED BY <2>1, <2>2, <3>2, <3>3 DEF Engaged, Reached, u
  <2> QED BY <2>3, <2>4, Untouched
<1> QED
  BY <1>1, <1>2

-----------------------------------------------------------------------------
(* Retiring transfers.                                                     *)

(* The first m transfers of the list, and the iocbs' requests they end.    *)
Gone(s, m) == {s.list[i] : i \in 1 .. m}
Ends(s, m) ==
  {ReqOf(x) : x \in {y \in Gone(s, m) : y[1] \in Aio /\ LastInRequest(s, y)}}

(* Those of them that are of one iocb.                                     *)
Now(R, t) == {r \in R : r[1] = t}

(* The fields that change when transfers are retired.                      *)
Told == {"freed", "cmpl", "res", "ended", "ring"}
Untold == {"list", "state"} \cup Told

(* The descriptors that an iocb's total grows by.                          *)
Paid(s, over) == Cardinality(Descs(CompletedXfers(s, over), s.dnum))

(* The ring when the transfers in X are cleared.                           *)
Wipe(s, X) ==
  [p \in Slots |-> IF \E x \in X : p \in SlotsOf(s, x) THEN NoXfer
                  ELSE s.ring[p]]

(* The tallies of iocbs, the ring, and what is done of them.               *)
Tellable(s) ==
  /\ DOMAIN s = DOMAIN IdleEngine
  /\ s.cmpl \in [Aio -> Nat] /\ s.ended \in [Aio -> Nat]
  /\ s.res \in [Aio -> Nat] /\ s.ring \in [Slots -> Xfers \cup {NoXfer}]

ToldOf(s, R, u) ==
  /\ u.freed = s.freed \cup R
  /\ u.cmpl = [t \in Aio |-> s.cmpl[t] + Cardinality(Now(R, t))]
  /\ u.res = [t \in Aio |-> s.res[t] + Paid(s, Now(R, t))]
  /\ u.ended = [t \in Aio |-> s.ended[t] + IF /\ s.cmpl[t] < Segs[t]
                                              /\ u.cmpl[t] >= Segs[t]
                                           THEN 1 ELSE 0]
  /\ u.ring = Wipe(s, ClearedXfers(s, R))

(* To tell of no request changes nothing.                                  *)
LEMMA NothingTold ==
  ASSUME NEW s, Tellable(s)
  PROVE  ToldOf(s, {}, s)
<1>1. \A t : Now({}, t) = {}
  BY DEF Now
<1>2. CompletedXfers(s, {}) = {} /\ ClearedXfers(s, {}) = {}
  BY DEF CompletedXfers, ClearedXfers
<1>3. Cardinality({}) = 0
  BY FS_EmptySet
<1>4. Descs({}, s.dnum) = {}
  BY DEF Descs
<1>5. \A t : Cardinality(Now({}, t)) = 0 /\ Paid(s, Now({}, t)) = 0
  BY <1>1, <1>2, <1>3, <1>4 DEF Paid
<1>6. s.cmpl = [t \in Aio |-> s.cmpl[t] + Cardinality(Now({}, t))]
      /\ s.res = [t \in Aio |-> s.res[t] + Paid(s, Now({}, t))]
  <2>1. \A t \in Aio : s.cmpl[t] \in Nat /\ s.res[t] \in Nat
    BY DEF Tellable
  <2>2. \A t \in Aio : /\ s.cmpl[t] = s.cmpl[t] + Cardinality(Now({}, t))
                      /\ s.res[t] = s.res[t] + Paid(s, Now({}, t))
    BY <2>1, <1>5
  <2> QED BY <2>2 DEF Tellable
<1>7. s.ended = [t \in Aio |-> s.ended[t] + IF /\ s.cmpl[t] < Segs[t]
                                              /\ s.cmpl[t] >= Segs[t]
                                           THEN 1 ELSE 0]
  <2>1. \A t \in Aio : /\ s.ended[t] \in Nat /\ s.cmpl[t] \in Nat
                      /\ Segs[t] \in Nat
    BY SizesAssumption DEF Tellable, Tasks
  <2>2. \A t \in Aio :
          s.ended[t] = s.ended[t] + IF /\ s.cmpl[t] < Segs[t]
                                       /\ s.cmpl[t] >= Segs[t]
                                    THEN 1 ELSE 0
    BY <2>1
  <2> QED BY <2>2 DEF Tellable
<1>8. s.ring = Wipe(s, ClearedXfers(s, {}))
  BY <1>2 DEF Tellable, Wipe
<1> QED BY <1>6, <1>7, <1>8 DEF ToldOf

(* What async_io_handler changes.                                          *)
LEMMA IoDoneFields ==
  ASSUME NEW s, NEW R, Tellable(s)
  PROVE  LET u == IoDone(s, R)
         IN /\ DOMAIN u = DOMAIN IdleEngine
            /\ \A f \in DOMAIN IdleEngine \ Told : u[f] = s[f]
            /\ ToldOf(s, R, u)
<1> DEFINE u == IoDone(s, R)
<1>1. CASE R = {}
  <2>1. u = s
    BY <1>1 DEF IoDone
  <2> HIDE DEF u
  <2> QED BY <1>1, <2>1, NothingTold DEF Tellable, u
<1>2. CASE R # {}
  <2> DEFINE c == [t \in Aio |-> s.cmpl[t] + Cardinality(Now(R, t))]
             e == [t \in Aio |-> s.ended[t] + IF /\ s.cmpl[t] < Segs[t]
                                                /\ c[t] >= Segs[t]
                                             THEN 1 ELSE 0]
             p == [t \in Aio |-> s.res[t] + Paid(s, Now(R, t))]
             w == Wipe(s, ClearedXfers(s, R))
  <2>1. u = [s EXCEPT !.ring = w, !.freed = @ \cup R, !.cmpl = c, !.res = p,
                      !.ended = e]
    <3>1. Clear(s, ClearedXfers(s, R)) = [s EXCEPT !.ring = w]
      BY DEF Clear, Wipe
    <3>2. DOMAIN s = DOMAIN IdleEngine
      BY DEF Tellable
    <3> DEFINE g == [s EXCEPT !.ring = w]
    <3>3. /\ DOMAIN g = DOMAIN IdleEngine
          /\ \A f \in DOMAIN IdleEngine \ {"ring"} : g[f] = s[f]
          /\ g.ring = w
      BY <3>2, Fields
    <3>4. u = [g EXCEPT !.freed = @ \cup R, !.cmpl = c, !.res = p, !.ended = e]
      <4>1. u = [Clear(s, ClearedXfers(s, R)) EXCEPT
             !.freed = @ \cup R,
             !.cmpl  = c,
             !.res   = [t \in Aio |-> @[t] + Paid(s, Now(R, t))],
             !.ended = [t \in Aio |-> @[t] + IF /\ s.cmpl[t] < Segs[t]
                                                /\ c[t] >= Segs[t]
                                             THEN 1 ELSE 0]]
        BY <1>2 DEF IoDone, Now, Paid
      <4>2. g.res = s.res /\ g.ended = s.ended
        BY <3>3, Fields
      <4> HIDE DEF c, w
      <4> QED BY <4>1, <4>2, <3>1
    <3> HIDE DEF c, e, p, w, u
    <3> QED BY <3>2, <3>4
  <2>2. DOMAIN s = DOMAIN IdleEngine
    BY DEF Tellable
  <2> HIDE DEF c, e, p, w, u
  <2>3. /\ DOMAIN u = DOMAIN IdleEngine
        /\ \A f \in DOMAIN IdleEngine \ Told : u[f] = s[f]
        /\ u.freed = s.freed \cup R /\ u.cmpl = c /\ u.res = p
        /\ u.ended = e /\ u.ring = w
    BY <2>1, <2>2, Fields DEF Told
  <2>4. ToldOf(s, R, u)
    BY <2>3, Zenon DEF ToldOf, c, e, p, w
  <2> QED BY <2>3, <2>4 DEF u
<1> QED BY <1>1, <1>2

(* What becomes of an engine when its first m transfers are retired.       *)
Retired(s, m, result, u) ==
  /\ DOMAIN u = DOMAIN IdleEngine
  /\ \A f \in DOMAIN IdleEngine \ Untold : u[f] = s[f]
  /\ u.list = SubSeq(s.list, m + 1, Len(s.list))
  /\ u.state = [x \in Xfers |-> IF x \in Gone(s, m) THEN result
                                                 ELSE s.state[x]]
  /\ u.freed = s.freed \cup Ends(s, m)
  /\ u.cmpl = [t \in Aio |-> s.cmpl[t] + Cardinality(Now(Ends(s, m), t))]
  /\ u.res = [t \in Aio |-> s.res[t] + Paid(u, Now(Ends(s, m), t))]
  /\ u.ended = [t \in Aio |-> s.ended[t] + IF /\ s.cmpl[t] < Segs[t]
                                              /\ u.cmpl[t] >= Segs[t]
                                           THEN 1 ELSE 0]
  /\ u.ring = Wipe(s, ClearedXfers(u, Ends(s, m)))

(* Retire does that.                                                       *)
LEMMA RetireFields ==
  ASSUME NEW s, NEW m, NEW result, EngineOK(s)
  PROVE  Retired(s, m, result, Retire(s, m, result))
<1> DEFINE s1 == [s EXCEPT !.list = SubSeq(@, m + 1, Len(@)),
                      !.state = [x \in Xfers |->
                                   IF x \in Gone(s, m) THEN result ELSE @[x]]]
           R == Ends(s, m)
<1>1. Retire(s, m, result) = IoDone(s1, R)
  BY DEF Retire, Gone, Ends
<1>2. DOMAIN s = DOMAIN IdleEngine /\ DOMAIN s1 = DOMAIN IdleEngine
  BY Fields DEF EngineOK
<1>3. /\ s1.list = SubSeq(s.list, m + 1, Len(s.list))
      /\ s1.state
           = [x \in Xfers |-> IF x \in Gone(s, m) THEN result ELSE s.state[x]]
      /\ \A f \in DOMAIN IdleEngine \ {"list", "state"} : s1[f] = s[f]
  BY <1>2, Fields
<1> HIDE DEF s1, R
<1>4. /\ s1.freed = s.freed /\ s1.cmpl = s.cmpl /\ s1.ended = s.ended
      /\ s1.res = s.res /\ s1.ring = s.ring /\ s1.dnum = s.dnum
      /\ s1.at = s.at
  BY <1>3, Fields
<1>5. Tellable(s1)
  BY <1>2, <1>4 DEF EngineOK, Tellable
<1> DEFINE u == IoDone(s1, R)
<1>6. /\ DOMAIN u = DOMAIN IdleEngine
      /\ \A f \in DOMAIN IdleEngine \ Told : u[f] = s1[f]
      /\ ToldOf(s1, R, u)
  BY <1>5, IoDoneFields
<1> HIDE DEF u
<1>7. /\ u.list = s1.list /\ u.state = s1.state /\ u.dnum = s1.dnum
      /\ \A f \in DOMAIN IdleEngine \ Untold : u[f] = s[f]
  BY <1>3, <1>6, Fields DEF Untold, Told
<1>8. \A over : Paid(u, over) = Paid(s1, over)
  BY <1>7 DEF Paid, CompletedXfers
<1>9. ClearedXfers(u, R) = ClearedXfers(s1, R)
  BY <1>7 DEF ClearedXfers
<1>10. \A X : Wipe(s1, X) = Wipe(s, X)
  BY <1>4 DEF Wipe, SlotsOf
<1>11. /\ u.freed = s.freed \cup R
       /\ u.cmpl = [t \in Aio |-> s.cmpl[t] + Cardinality(Now(R, t))]
       /\ u.ended = [t \in Aio |-> s.ended[t] + IF /\ s.cmpl[t] < Segs[t]
                                                   /\ u.cmpl[t] >= Segs[t]
                                                THEN 1 ELSE 0]
  BY <1>4, <1>6, Zenon DEF ToldOf
<1>12. u.res = [t \in Aio |-> s.res[t] + Paid(u, Now(R, t))]
  BY <1>4, <1>6, <1>8 DEF ToldOf
<1>13. u.ring = Wipe(s, ClearedXfers(u, R))
  BY <1>6, <1>9, <1>10 DEF ToldOf
<1>14. Retire(s, m, result) = u
  BY <1>1 DEF u
<1> QED BY <1>3, <1>6, <1>7, <1>11, <1>12, <1>13, <1>14, Zenon DEF Retired, R

(* No more requests of an iocb are through than it has segments.           *)
LEMMA ThroughFinite ==
  ASSUME NEW s, NEW t \in Aio
  PROVE  /\ IsFiniteSet(Through(s, t)) /\ Cardinality(Through(s, t)) \in Nat
         /\ Cardinality(Through(s, t)) <= Segs[t]
<1>1. Segs[t] \in Nat /\ t \in Tasks
  BY SizesAssumption DEF Tasks
<1>2. IsFiniteSet(1 .. Segs[t]) /\ Cardinality(1 .. Segs[t]) = Segs[t]
  <2> DEFINE n == Segs[t]
  <2>1. n \in Nat
    BY <1>1
  <2> HIDE DEF n
  <2>2. IsFiniteSet(1 .. n) /\ Cardinality(1 .. n) = n
    BY <2>1, FS_Interval
  <2> QED BY <2>2 DEF n
<1>3. IsFiniteSet({t} \X (1 .. Segs[t]))
      /\ Cardinality({t} \X (1 .. Segs[t])) = Segs[t]
  <2>1. IsFiniteSet({t}) /\ Cardinality({t}) = 1
    BY FS_Singleton
  <2>2. /\ IsFiniteSet({t} \X (1 .. Segs[t]))
        /\ Cardinality({t} \X (1 .. Segs[t]))
             = Cardinality({t}) * Cardinality(1 .. Segs[t])
    BY <1>2, <2>1, FS_Product
  <2> QED BY <1>1, <1>2, <2>1, <2>2
<1>4. Through(s, t) \in SUBSET ({t} \X (1 .. Segs[t]))
  BY IsReq DEF Through
<1> QED
  BY <1>1, <1>3, <1>4, FS_Subset, FS_CardinalityType

(* The requests that are through after transfers were retired: those that  *)
(* were before, and those whose last chunk is among them, each once.       *)
LEMMA RetireThrough ==
  ASSUME NEW s, Good(s), NEW m \in 0 .. Len(s.list), NEW result \in Over
  PROVE  LET u == Retire(s, m, result)
         IN \A t \in Aio :
           /\ Through(u, t) = Through(s, t) \cup Now(Ends(s, m), t)
           /\ Through(s, t) \cap Now(Ends(s, m), t) = {}
<1> DEFINE u == Retire(s, m, result)
<1>0. EngineOK(s) /\ s.list \in Seq(Xfers)
  BY DEF Good, EngineInv, EngineOK
<1>1. /\ u.state
           = [x \in Xfers |-> IF x \in Gone(s, m) THEN result ELSE s.state[x]]
      /\ u.dnum = s.dnum
  <2>1. "dnum" \in DOMAIN IdleEngine \ Untold
    BY Fields DEF Untold, Told
  <2>2. Retired(s, m, result, u)
    BY <1>0, RetireFields
  <2> HIDE DEF u
  <2> QED BY <2>1, <2>2 DEF Retired
<1> HIDE DEF u
<1>2. \A x : LastInRequest(u, x) = LastInRequest(s, x)
  BY <1>1 DEF LastInRequest
<1>3. \A x \in Gone(s, m) :
        x \in Xfers /\ s.state[x] = "submitted"
        /\ \E i \in Places(s) : s.list[i] = x
  BY <1>0 DEF Gone, Good, Live, Places
<1> SUFFICES ASSUME NEW t \in Aio
    PROVE /\ Through(u, t) = Through(s, t) \cup Now(Ends(s, m), t)
          /\ Through(s, t) \cap Now(Ends(s, m), t) = {}
  BY DEF u
<1>4. ASSUME NEW r \in Now(Ends(s, m), t)
      PROVE  r \in Through(u, t) /\ r \notin Through(s, t)
  <2>1. PICK y \in Gone(s, m) : r = ReqOf(y) /\ y[1] \in Aio
             /\ LastInRequest(s, y) /\ r[1] = t
    BY DEF Now, Ends
  <2>2. y \in Xfers /\ ReqOf(y) \in Reqs /\ ReqOf(y)[1] = y[1]
    BY <1>3, XferType
  <2>3. u.state[y] \in Over
    BY <1>1, <2>2
  <2>4. r \in Through(u, t)
    BY <2>1, <2>2, <2>3, <1>2 DEF Through
  <2>5. PICK i \in Places(s) : s.list[i] = y
    BY <1>3
  <2>6. r \notin Through(s, t)
    BY <2>1, <2>2, <2>5 DEF Good, EngineInv, Counted
  <2> QED BY <2>4, <2>6
<1>5. ASSUME NEW r \in Through(s, t) PROVE r \in Through(u, t)
  <2>1. PICK x \in Xfers : ReqOf(x) = r /\ LastInRequest(s, x)
             /\ s.state[x] \in Over
    BY DEF Through
  <2>2. x \notin Gone(s, m)
    BY <1>3, <2>1 DEF Over
  <2> QED BY <2>1, <2>2, <1>1, <1>2 DEF Through
<1>6. ASSUME NEW r \in Through(u, t)
      PROVE  r \in Through(s, t) \cup Now(Ends(s, m), t)
  <2>1. PICK x \in Xfers : ReqOf(x) = r /\ LastInRequest(u, x)
             /\ u.state[x] \in Over
    BY DEF Through
  <2>2. r \in Reqs /\ r[1] = t /\ LastInRequest(s, x) /\ x[1] = t
    BY <2>1, <1>2, XferType DEF Through
  <2>3. CASE x \in Gone(s, m)
    BY <2>1, <2>2, <2>3 DEF Now, Ends
  <2>4. CASE x \notin Gone(s, m)
    BY <2>1, <2>2, <2>4, <1>1 DEF Through
  <2> QED BY <2>3, <2>4
<1> QED
  BY <1>4, <1>5, <1>6

(* Taking transfers off the front of the list, with a result, keeps the    *)
(* invariant: an iocb's handler has run once for each request through.     *)
LEMMA RetireKeeps ==
  ASSUME NEW s, Good(s), NEW m \in 0 .. Len(s.list), NEW result \in Over
  PROVE  Good(Retire(s, m, result)) /\ Serves(s, Retire(s, m, result))
<1> DEFINE u == Retire(s, m, result)
<1>1. EngineOK(s) /\ Ordered(s) /\ Carved(s) /\ Engaged(s) /\ Counted(s)
      /\ Live(s) /\ Tallied(s) /\ Ringed(s)
  BY DEF Good, EngineInv
<1>2. DOMAIN s = DOMAIN IdleEngine /\ s.list \in Seq(Xfers)
  BY <1>1 DEF EngineOK
<1>3. Retired(s, m, result, u)
  BY <1>1, RetireFields
<1>4. \A t \in Aio : /\ Through(u, t) = Through(s, t) \cup Now(Ends(s, m), t)
                     /\ Through(s, t) \cap Now(Ends(s, m), t) = {}
  BY RetireThrough
<1> HIDE DEF u
<1>5. /\ DOMAIN u = DOMAIN IdleEngine
      /\ u.dnum = s.dnum /\ u.idx = s.idx /\ u.hw = s.hw /\ u.hx = s.hx
      /\ u.hcnt = s.hcnt /\ u.at = s.at
  BY <1>3, Fields DEF Retired, Untold, Told

(* The rest of the list.                                                   *)
<1>6. /\ Len(u.list) = Len(s.list) - m /\ u.list \in Seq(Xfers)
      /\ \A j \in Places(u) :
           j + m \in Places(s) /\ j + m > m /\ u.list[j] = s.list[j + m]
  <2>1. u.list = SubSeq(s.list, m + 1, Len(s.list))
    BY <1>3 DEF Retired
  <2> DEFINE q == s.list
             v == SubSeq(q, m + 1, Len(q))
  <2>2. q \in Seq(Xfers) /\ m \in 0 .. Len(q) /\ Len(q) \in Nat
    BY <1>2
  <2> HIDE DEF q
  <2>3. v \in Seq(Xfers) /\ Len(v) = Len(q) - m
    BY <2>2
  <2>4. \A j \in 1 .. Len(v) : v[j] = q[j + m]
    BY <2>2
  <2>5. u.list = v
    BY <2>1 DEF q
  <2> HIDE DEF v
  <2>6. \A j \in 1 .. Len(v) : j + m \in 1 .. Len(q) /\ j + m > m
    BY <2>2, <2>3
  <2> QED BY <2>3, <2>4, <2>5, <2>6 DEF Places, q
<1>7. \A x \in Gone(s, m) :
        x \in Xfers /\ s.state[x] = "submitted"
        /\ \E i \in Places(s) : i <= m /\ s.list[i] = x
  BY <1>1, <1>2 DEF Gone, Live, Places
<1>8. /\ \A x \in Xfers : x \in Gone(s, m) => u.state[x] = result
      /\ \A x \in Xfers : x \notin Gone(s, m) => u.state[x] = s.state[x]
      /\ u.freed = s.freed \cup Ends(s, m)
  BY <1>3 DEF Retired
<1>9. \A r \in Ends(s, m) : \E y \in Gone(s, m) :
        r = ReqOf(y) /\ y[1] \in Aio /\ LastInRequest(s, y)
  BY DEF Ends

(* Nothing of what ends stays listed.                                      *)
<1>10. ASSUME NEW j \in Places(u) PROVE ReqOf(u.list[j]) \notin Ends(s, m)
  <2> DEFINE x == u.list[j]
  <2> SUFFICES ASSUME ReqOf(x) \in Ends(s, m) PROVE FALSE
    OBVIOUS
  <2>1. PICK y \in Gone(s, m) : ReqOf(x) = ReqOf(y) /\ y[1] \in Aio
             /\ LastInRequest(s, y)
    BY <1>9
  <2>2. PICK i \in Places(s) : i <= m /\ s.list[i] = y
    BY <1>7
  <2>3. x \in Xfers /\ x = s.list[j + m] /\ j + m \in Places(s) /\ i < j + m
    BY <1>2, <1>6, <2>2 DEF Places
  <2> HIDE DEF x
  <2>4. y[3] < x[3]
    BY <2>1, <2>2, <2>3, <1>1 DEF Ordered
  <2>5. /\ y \in Xfers /\ x[1] = y[1] /\ x[2] = y[2] /\ x[1] \in Tasks
        /\ x[3] \in 1 .. Need[x[1]] /\ y[3] \in 1 .. Need[x[1]]
        /\ Need[x[1]] \in Nat
        /\ y = <<x[1], x[2], y[3]>>
    <3>1. y \in Xfers
      BY <1>7
    <3>2. ReqOf(x)[1] = x[1] /\ ReqOf(x)[2] = x[2] /\ ReqOf(y)[1] = y[1]
          /\ ReqOf(y)[2] = y[2]
      BY <3>1, <2>3, XferType
    <3>3. x[1] = y[1] /\ x[2] = y[2]
      BY <3>2, <2>1
    <3> QED BY <3>1, <3>3, <2>3, XferType, SizesAssumption
  <2>6. x[3] # 1 /\ s.state[x] # "new"
    BY <2>4, <2>5, <2>3, <1>1 DEF Live
  <2>7. x[3] = 2 /\ s.dnum[x] >= 1
        /\ s.dnum[<<x[1], x[2], 1>>] + s.dnum[x] <= Need[x[1]]
    BY <2>6, <2>3, <2>1, <2>5, <1>1 DEF Carved
  <2>8. y[3] = 1 /\ y = <<x[1], x[2], 1>>
    BY <2>4, <2>5, <2>7
  <2>9. s.dnum[y] = Need[x[1]] /\ s.dnum[y] \in Nat /\ s.dnum[x] \in Nat
    <3>1. s.dnum[y] \in 0 .. DescMax /\ s.dnum[x] \in 0 .. DescMax
      BY <2>5, <2>3, <1>1 DEF EngineOK
    <3>2. s.dnum[y] + 0 = Need[y[1]]
      BY <2>1, <2>8 DEF LastInRequest
    <3> QED BY <3>1, <3>2, <2>5
  <2> QED BY <2>7, <2>8, <2>9, <2>5
<1>11. \A j \in Places(u) : u.list[j] \in Xfers /\ u.list[j] \notin Gone(s, m)
  <2> SUFFICES ASSUME NEW j \in Places(u), u.list[j] \in Gone(s, m) PROVE FALSE
    BY <1>6 DEF Places
  <2>1. PICK i \in Places(s) : i <= m /\ s.list[i] = u.list[j]
    BY <1>7
  <2>2. j + m \in Places(s) /\ i < j + m /\ u.list[j] = s.list[j + m]
        /\ s.list[i] = s.list[j + m]
    BY <2>1, <1>6 DEF Places
  <2>3. s.list[i][3] < s.list[j + m][3]
    BY <2>1, <2>2, <1>1 DEF Ordered
  <2>4. s.list[i] \in Xfers
    BY <2>1, <1>2 DEF Places
  <2>5. s.list[i][3] \in Int
    BY <2>4, XferType, SizesAssumption
  <2> QED BY <2>2, <2>3, <2>5
<1>12. Live(u)
  <2> SUFFICES ASSUME NEW j \in Places(u)
               PROVE  u.state[u.list[j]] = "submitted"
                      /\ ReqOf(u.list[j]) \notin u.freed
    BY DEF Live
  <2>1. s.state[u.list[j]] = "submitted" /\ ReqOf(u.list[j]) \notin s.freed
    BY <1>6, <1>1 DEF Live
  <2> QED BY <2>1, <1>8, <1>10, <1>11
<1>13. Ordered(u)
  <2> SUFFICES ASSUME NEW i \in Places(u), NEW j \in Places(u), i < j,
                      ReqOf(u.list[i]) = ReqOf(u.list[j])
               PROVE  u.list[i][3] < u.list[j][3]
    BY DEF Ordered
  <2>1. i + m < j + m /\ i + m \in Places(s) /\ j + m \in Places(s)
    BY <1>6 DEF Places
  <2>2. u.list[i] = s.list[i + m] /\ u.list[j] = s.list[j + m]
    BY <1>6
  <2> QED BY <2>1, <2>2, <1>1 DEF Ordered
<1>14. Carved(u) /\ Engaged(u)
  <2>1. \A x \in Xfers : u.state[x] # "new" <=> s.state[x] # "new"
    BY <1>7, <1>8 DEF Over
  <2> QED BY <2>1, <1>1, <1>5 DEF Carved, Engaged, Reached
<1>20. ASSUME NEW p \in Slots PROVE u.ring[p] = s.ring[p] \/ Wiped(s, u, p)
  <2>1. u.ring = Wipe(s, ClearedXfers(u, Ends(s, m)))
    BY <1>3 DEF Retired
  <2>2. CASE \E x \in ClearedXfers(u, Ends(s, m)) : p \in SlotsOf(s, x)
    <3>1. PICK x \in ClearedXfers(u, Ends(s, m)) : p \in SlotsOf(s, x)
      BY <2>2
    <3>2. u.ring[p] = NoXfer
      BY <2>1, <2>2 DEF Wipe
    <3>3. x \in Xfers /\ ReqOf(x) \in Ends(s, m)
      BY DEF ClearedXfers
    <3>4. PICK y \in Gone(s, m) : ReqOf(x) = ReqOf(y) /\ y[1] \in Aio
      BY <3>3, <1>9
    <3>5. PICK i \in Places(s) : s.list[i] = y
      BY <1>7
    <3>6. y \in Xfers
      BY <1>7
    <3>7. x[1] = y[1]
      <4>1. ReqOf(x)[1] = x[1] /\ ReqOf(y)[1] = y[1]
        BY <3>3, <3>6, XferType
      <4> QED BY <4>1, <3>4
    <3>8. ReqOf(x) \in u.freed \ s.freed
      BY <3>3, <3>4, <3>5, <1>1, <1>8 DEF Live
    <3> QED BY <3>1, <3>2, <3>3, <3>4, <3>7, <3>8 DEF Wiped
  <2>3. CASE ~ \E x \in ClearedXfers(u, Ends(s, m)) : p \in SlotsOf(s, x)
    BY <2>1, <2>3 DEF Wipe
  <2> QED BY <2>2, <2>3
<1>21. Ringed(u)
  <2>1. \A x : SlotsOf(u, x) = SlotsOf(s, x)
    BY <1>5 DEF SlotsOf
  <2>2. ASSUME NEW p \in Slots, u.ring[p] # NoXfer
        PROVE  p \in SlotsOf(u, u.ring[p])
    BY <1>20, <2>1, <2>2, <1>1 DEF Ringed, Wiped
  <2> QED BY <2>2, <1>1, <1>5 DEF Ringed
<1>15. Serves(s, u)
  <2>1. \A r \in u.freed \ s.freed : r \in Ends(s, m)
    BY <1>8
  <2>2. \A x \in Xfers :
          u.state[x] = s.state[x]
            \/ (s.state[x] = "submitted" /\ u.state[x] \in Over)
    BY <1>7, <1>8
  <2>3. \A r \in u.freed \ s.freed : \E x \in Xfers :
       /\ r = ReqOf(x) /\ x[1] \in Aio
       /\ LastInRequest(s, x) /\ s.state[x] = "submitted"
    BY <2>1, <1>9, <1>7
  <2> QED BY <2>2, <2>3, <1>5, <1>8, <1>20 DEF Serves
<1>16. Counted(u)
  <2>1. \A j \in Places(u) : u.list[j][1] \in Aio =>
          ReqOf(u.list[j]) \notin Through(u, u.list[j][1])
    <3> SUFFICES ASSUME NEW j \in Places(u), u.list[j][1] \in Aio
                 PROVE ReqOf(u.list[j]) \notin Through(u, u.list[j][1])
      OBVIOUS
    <3>1. ReqOf(u.list[j]) \notin Through(s, u.list[j][1])
      BY <1>6, <1>1 DEF Counted
    <3> QED BY <3>1, <1>10, <1>4 DEF Now
  <2>2. ASSUME NEW t \in Aio
        PROVE /\ u.cmpl[t] = Cardinality(Through(u, t))
              /\ u.cmpl[t] = s.cmpl[t] + Cardinality(Now(Ends(s, m), t))
              /\ Cardinality(Now(Ends(s, m), t)) \in Nat
    <3> DEFINE A == Through(s, t)
               B == Now(Ends(s, m), t)
    <3>1. IsFiniteSet(A) /\ IsFiniteSet(Through(u, t))
      BY ThroughFinite
    <3>2. Through(u, t) = A \cup B /\ A \cap B = {}
      BY <1>4
    <3>3. u.cmpl[t] = s.cmpl[t] + Cardinality(B)
      BY <1>3 DEF Retired
    <3>4. s.cmpl[t] = Cardinality(A)
      BY <1>1 DEF Counted
    <3> HIDE DEF A, B
    <3>5. IsFiniteSet(B) /\ Cardinality(B) \in Nat /\ Cardinality(A) \in Nat
      BY <3>1, <3>2, FS_Subset, FS_CardinalityType
    <3>6. Cardinality(A \cup B) = Cardinality(A) + Cardinality(B)
      <4>1. Cardinality(A \cup B)
              = Cardinality(A) + Cardinality(B) - Cardinality(A \cap B)
        BY <3>1, <3>5, FS_Union
      <4>2. Cardinality(A \cap B) = 0
        BY <3>2, FS_EmptySet
      <4> QED BY <4>1, <4>2, <3>5
    <3> QED BY <3>2, <3>3, <3>4, <3>5, <3>6 DEF B
  <2>3. ASSUME NEW t \in Aio
        PROVE  u.ended[t] = IF u.cmpl[t] >= Segs[t] THEN 1 ELSE 0
    <3>1. u.ended[t]
            = s.ended[t] + IF s.cmpl[t] < Segs[t] /\ u.cmpl[t] >= Segs[t]
              THEN 1 ELSE 0
      BY <1>3 DEF Retired
    <3>2. s.ended[t] = IF s.cmpl[t] >= Segs[t] THEN 1 ELSE 0
      BY <1>1 DEF Counted
    <3>3. s.cmpl[t] \in Nat /\ Segs[t] \in Nat
      BY <1>1, SizesAssumption DEF EngineOK, Tasks
    <3> QED BY <3>1, <3>2, <3>3, <2>2
  <2> QED BY <2>1, <2>2, <2>3 DEF Counted
<1>18. ASSUME NEW t \in Aio
       PROVE  u.res[t] <= Cardinality(Descs(IocbTold(u, t), u.dnum))
              /\ u.res[t] \in Nat
  <2> DEFINE A == IocbTold(s, t)
             B == CompletedXfers(u, Now(Ends(s, m), t))
             C == IocbTold(u, t)
             d == s.dnum
  <2>1. t \in Tasks /\ d \in [Xfers -> 0 .. DescMax] /\ s.res[t] \in Nat
    BY <1>1 DEF EngineOK, Tasks
  <2>2. A \in SUBSET XfersOf(t) /\ C \in SUBSET XfersOf(t)
        /\ XfersOf(t) \subseteq Xfers
    BY DEF IocbTold, XfersOf
  <2>3. ASSUME NEW x \in B PROVE x \in C /\ ReqOf(x) \in Ends(s, m)
    <3>1. x \in Xfers /\ ReqOf(x) \in Ends(s, m) /\ ReqOf(x)[1] = t
          /\ \A i \in 1 .. x[3] : u.state[<<x[1], x[2], i>>] = "completed"
      BY DEF CompletedXfers, Now
    <3>2. x[1] = t /\ x[3] \in 1 .. x[3] /\ x = <<x[1], x[2], x[3]>>
      <4>1. x[3] \in 1 .. Need[x[1]] /\ x[1] \in Tasks
            /\ Need[x[1]] \in Nat
        BY <3>1, XferType, SizesAssumption
      <4> QED BY <4>1, <3>1, XferType
    <3>3. u.state[x] = "completed"
      BY <3>1, <3>2
    <3> QED BY <3>1, <3>2, <3>3, <1>8 DEF IocbTold, XfersOf
  <2>4. A \subseteq C
    <3> SUFFICES ASSUME NEW x \in A PROVE x \in C
      OBVIOUS
    <3>1. x \in Xfers /\ s.state[x] = "completed" /\ ReqOf(x) \in s.freed
      BY <2>2 DEF IocbTold
    <3>2. u.state[x] = "completed" /\ ReqOf(x) \in u.freed
      BY <3>1, <1>7, <1>8
    <3> QED BY <3>2 DEF IocbTold
  <2>5. A \cap B = {}
    <3> SUFFICES ASSUME NEW x \in B, x \in A PROVE FALSE
      OBVIOUS
    <3>1. ReqOf(x) \in s.freed /\ ReqOf(x) \in Ends(s, m)
      BY <2>3 DEF IocbTold
    <3>2. PICK y \in Gone(s, m) : ReqOf(x) = ReqOf(y)
      BY <3>1, <1>9
    <3>3. PICK i \in Places(s) : s.list[i] = y
      BY <1>7
    <3> QED BY <3>1, <3>2, <3>3, <1>1 DEF Live
  <2>6. u.res[t] = s.res[t] + Cardinality(Descs(B, d))
    BY <1>3, <1>5 DEF Retired, Paid
  <2>7. s.res[t] <= Cardinality(Descs(A, d))
    BY <1>1 DEF Tallied
  <2> HIDE DEF A, B, C, d
  <2>8. B \in SUBSET XfersOf(t) /\ A \cup B \in SUBSET C
    BY <2>2, <2>3, <2>4
  <2>9. \A x \in C : d[x] \in 0 .. DescMax
    BY <2>1, <2>2
  <2>10. /\ Cardinality(Descs(A, d)) \in Nat
         /\ Cardinality(Descs(B, d)) \in Nat
         /\ Cardinality(Descs(C, d)) \in Nat
    BY <2>1, <2>2, <2>8, <2>9, DescsFinite
  <2>11. Cardinality(Descs(A \cup B, d))
           = Cardinality(Descs(A, d)) + Cardinality(Descs(B, d))
    BY <2>1, <2>2, <2>5, <2>8, <2>9, DescsAdd
  <2>12. Cardinality(Descs(A \cup B, d)) <= Cardinality(Descs(C, d))
    <3>1. \A x \in A \cup B : d[x] \in Nat /\ d[x] <= d[x]
      <4>1. \A x \in A \cup B : d[x] \in 0 .. DescMax
        BY <2>8, <2>9
      <4> QED BY <4>1, SizesAssumption
    <3> QED BY <2>1, <2>2, <2>8, <2>9, <3>1, DescsMore
  <2>13. u.res[t] <= Cardinality(Descs(C, d)) /\ u.res[t] \in Nat
    BY <2>1, <2>6, <2>7, <2>10, <2>11, <2>12
  <2> QED BY <2>13, <1>5 DEF C, d
<1>19. Tallied(u)
  BY <1>18 DEF Tallied
<1>17. EngineOK(u)
  <2>1. /\ u.running = s.running /\ u.request = s.request /\ u.busy = s.busy
        /\ u.err = s.err /\ u.herr = s.herr /\ u.irq = s.irq
        /\ u.wberr = s.wberr
        /\ u.dequeued = s.dequeued /\ u.wb = s.wb /\ u.moved = s.moved
        /\ u.erred = s.erred
    BY <1>3, Fields DEF Retired, Untold, Told
  <2>2. u.state \in [Xfers -> XferStates]
    <3>1. u.state
            = [x \in Xfers |-> IF x \in Gone(s, m) THEN result ELSE s.state[x]]
      BY <1>3 DEF Retired
    <3>2. s.state \in [Xfers -> XferStates] /\ result \in XferStates
      BY <1>1 DEF EngineOK, Over, XferStates
    <3> QED BY <3>1, <3>2
  <2>3. u.cmpl \in [Aio -> Nat] /\ u.ended \in [Aio -> Nat]
    <3>1. u.cmpl = [t \in Aio |-> u.cmpl[t]]
          /\ u.ended = [t \in Aio |-> u.ended[t]]
      BY <1>3 DEF Retired
    <3>2. \A t \in Aio : u.cmpl[t] \in Nat /\ u.ended[t] \in Nat
      BY <1>16, ThroughFinite DEF Counted
    <3> QED BY <3>1, <3>2
  <2>4. u.freed \subseteq Reqs
    BY <1>1, <1>7, <1>8, <1>9, XferType DEF EngineOK
  <2>5. u.res \in [Aio -> Nat]
    <3>1. u.res = [t \in Aio |-> u.res[t]]
      BY <1>3 DEF Retired
    <3> QED BY <3>1, <1>18
  <2>6. u.ring \in [Slots -> Xfers \cup {NoXfer}]
    <3>1. u.ring = [p \in Slots |-> u.ring[p]]
      BY <1>3 DEF Retired, Wipe
    <3>2. \A p \in Slots : u.ring[p] \in Xfers \cup {NoXfer}
      BY <1>20, <1>1 DEF Wiped, EngineOK
    <3> QED BY <3>1, <3>2
  <2> QED
    BY <2>1, <2>2, <2>3, <2>4, <2>5, <2>6, <1>1, <1>5, <1>6 DEF EngineOK
<1> QED
  BY <1>12, <1>13, <1>14, <1>15, <1>16, <1>17, <1>19, <1>21
     DEF Good, EngineInv, u

-----------------------------------------------------------------------------
(* engine_service, step by step.                                           *)

(* Counting dequeued descriptors.                                          *)
LEMMA DequeueKeeps ==
  ASSUME NEW s, Good(s), NEW d \in Nat
  PROVE  LET u == [s EXCEPT !.dequeued = (@ + d) % Word]
         IN Good(u) /\ Serves(s, u) /\ Alike(s, u)
<1> DEFINE u == [s EXCEPT !.dequeued = (@ + d) % Word]
<1>1. EngineOK(s) /\ Engaged(s)
  BY DEF Good, EngineInv
<1>2. (s.dequeued + d) % Word \in 0 .. Word - 1
  <2>1. s.dequeued + d \in Int /\ Word \in Nat /\ Word > 0
    BY <1>1, SizesAssumption DEF EngineOK
  <2> QED BY <2>1, Modulo
<1>3. EngineOK(u)
  BY <1>1, <1>2, Fields DEF EngineOK
<1>4. Engaged(u) /\ Alike(s, u)
  BY <1>1, Fields DEF EngineOK, Engaged, Alike, Reached
<1> QED
  BY <1>3, <1>4, Untouched

(* No more transfers are counted as complete than are listed.              *)
LEMMA ListCount ==
  ASSUME NEW s, EngineOK(s), NEW c
  PROVE  Cardinality({j \in 1 .. Len(s.list) : Sums(s)[j] < c})
           \in 0 .. Len(s.list)
<1> DEFINE T == {j \in 1 .. Len(s.list) : Sums(s)[j] < c}
<1>1. Len(s.list) \in Nat
  BY DEF EngineOK
<1>2. IsFiniteSet(1 .. Len(s.list))
      /\ Cardinality(1 .. Len(s.list)) = Len(s.list)
  BY <1>1, FS_Interval
<1>3. T \in SUBSET (1 .. Len(s.list))
  OBVIOUS
<1> HIDE DEF T
<1>4. IsFiniteSet(T) /\ Cardinality(T) <= Len(s.list) /\ Cardinality(T) \in Nat
  BY <1>2, <1>3, FS_Subset, FS_CardinalityType
<1> QED
  BY <1>1, <1>4 DEF T

(* engine_service_transfer_list.                                           *)
LEMMA ServiceListKeeps ==
  ASSUME NEW s, Good(s), NEW c
  PROVE  Good(ServiceList(s, c).s) /\ Serves(s, ServiceList(s, c).s)
<1> DEFINE m == Cardinality({j \in 1 .. Len(s.list) : Sums(s)[j] < c})
           u == [s EXCEPT !.dequeued = (@ + Sums(s)[m]) % Word]
<1>1. EngineOK(s)
  BY DEF Good, EngineInv
<1>2. m \in 0 .. Len(s.list) /\ Sums(s)[m] \in Nat
  BY <1>1, ListCount, SumsFacts
<1>3. ServiceList(s, c).s = Retire(u, m, "completed")
  BY DEF ServiceList
<1>4. Good(u) /\ Serves(s, u) /\ u.list = s.list
  <2> HIDE DEF m
  <2> QED BY <1>2, DequeueKeeps DEF Alike
<1> HIDE DEF u, m
<1>5. "completed" \in Over
  BY DEF Over
<1>6. Good(Retire(u, m, "completed")) /\ Serves(u, Retire(u, m, "completed"))
  BY <1>2, <1>4, <1>5, RetireKeeps
<1> QED
  BY <1>3, <1>4, <1>6, ServesTrans

(* engine_service_final_transfer.                                          *)
LEMMA ServiceFinalKeeps ==
  ASSUME NEW s, Good(s), NEW n
  PROVE  Good(ServiceFinal(s, n)) /\ Serves(s, ServiceFinal(s, n))
<1>1. CASE s.list = <<>>
  BY <1>1, ServesRefl DEF ServiceFinal
<1>2. CASE s.list # <<>> /\ s.err
  <2>1. ServiceFinal(s, n) = Retire(Stop(s), 1, "failed")
    BY <1>2 DEF ServiceFinal
  <2>2. Good(Stop(s)) /\ Serves(s, Stop(s))
    BY StopKeeps
  <2>3. Stop(s).list = s.list
    BY Fields DEF Stop, Good, EngineInv, EngineOK
  <2>4. 1 \in 0 .. Len(Stop(s).list) /\ "failed" \in Over
    BY <2>3, <1>2 DEF Over, Good, EngineInv, EngineOK
  <2>5. Good(Retire(Stop(s), 1, "failed"))
        /\ Serves(Stop(s), Retire(Stop(s), 1, "failed"))
    BY <2>2, <2>4, RetireKeeps
  <2> QED BY <2>1, <2>2, <2>5, ServesTrans
<1>3. CASE s.list # <<>> /\ ~s.err
  <2> DEFINE d == s.dnum[Head(s.list)]
             result == IF n < d THEN "failed" ELSE "completed"
             u == [s EXCEPT !.dequeued = (@ + d) % Word]
  <2>1. ServiceFinal(s, n) = Retire(u, 1, result)
    BY <1>3 DEF ServiceFinal
  <2>2. d \in Nat
    <3>1. Head(s.list) \in Xfers
      BY <1>3 DEF Good, EngineInv, EngineOK
    <3>2. d \in 0 .. DescMax
      BY <3>1 DEF Good, EngineInv, EngineOK
    <3> QED BY <3>2
  <2> HIDE DEF d
  <2>3. Good(u) /\ Serves(s, u) /\ u.list = s.list
    BY <2>2, DequeueKeeps DEF Alike
  <2>4. 1 \in 0 .. Len(u.list) /\ result \in Over
    BY <2>3, <1>3 DEF Over, Good, EngineInv, EngineOK
  <2> HIDE DEF u, result
  <2>5. Good(Retire(u, 1, result)) /\ Serves(u, Retire(u, 1, result))
    BY <2>3, <2>4, RetireKeeps
  <2> QED BY <2>1, <2>3, <2>5, ServesTrans
<1> QED
  BY <1>1, <1>2, <1>3

(* engine_service_resume.                                                  *)
LEMMA ResumeKeeps ==
  ASSUME NEW s, Good(s) PROVE Good(Resume(s)) /\ Serves(s, Resume(s))
BY StopKeeps, StartKeeps, ServesRefl DEF Resume

(* The part of engine_service that works on the list.                      *)
LEMMA ServicedKeeps ==
  ASSUME NEW s, Good(s), NEW n, NEW u \in Serviced(s, n)
  PROVE  Good(u) /\ Serves(s, u)
<1>1. CASE n = 0
  BY <1>1, ServesRefl DEF Serviced
<1>2. CASE n # 0
  <2> DEFINE p == ServiceList(s, (n - s.dequeued) % Word)
  <2>1. u = Resume(ServiceFinal(p.s, p.n))
    BY <1>2 DEF Serviced
  <2>2. Good(p.s) /\ Serves(s, p.s)
    BY ServiceListKeeps
  <2> HIDE DEF p
  <2>3. Good(ServiceFinal(p.s, p.n)) /\ Serves(p.s, ServiceFinal(p.s, p.n))
    BY <2>2, ServiceFinalKeeps
  <2>4. Good(u) /\ Serves(ServiceFinal(p.s, p.n), u)
    BY <2>1, <2>3, ResumeKeeps
  <2> QED BY <2>2, <2>3, <2>4, ServesTrans
<1> QED
  BY <1>1, <1>2

(* The part of engine_service that stops the engine.                       *)
LEMMA HaltedKeeps ==
  ASSUME NEW s, Good(s), NEW c, NEW werr
  PROVE  Good(Halted(s, c, werr)) /\ Serves(s, Halted(s, c, werr))
<1> DEFINE s1 == IF c = 0 \/ werr THEN ReadStatus(s) ELSE s
<1>1. Good(s1) /\ Serves(s, s1)
  BY ReadKeeps, ServesRefl
<1>2. Halted(s, c, werr) = IF ~s1.busy \/ c # 0 THEN Stop(s1) ELSE s1
  BY DEF Halted
<1> HIDE DEF s1
<1>3. Good(Stop(s1)) /\ Serves(s1, Stop(s1))
  BY <1>1, StopKeeps
<1> QED
  BY <1>1, <1>2, <1>3, ServesTrans

(* engine_service, from an interrupt, the polling thread or a caller.      *)
LEMMA ServiceKeeps ==
  ASSUME NEW s, Good(s), NEW c, NEW werr, NEW u \in Service(s, c, werr)
  PROVE  Good(u) /\ Serves(s, u)
<1> DEFINE h == Halted(s, c, werr)
<1>1. Good(h) /\ Serves(s, h)
  BY HaltedKeeps
<1>2. \A g \in Steps(h) : Good(g) /\ Serves(s, g)
  <2> HIDE DEF h
  <2> QED BY <1>1, AdvanceKeeps, ServesTrans
<1>3. \/ u = ReadStatus(s)
      \/ \E g \in {h} \cup Steps(h) : \E n : u \in Serviced(g, n)
  <2>1. CASE ~s.running
    BY <2>1 DEF Service
  <2>2. CASE s.running /\ c # 0
    BY <2>2 DEF Service
  <2>3. CASE s.running /\ c = 0
    <3>1. u \in UNION {Serviced(g, g.hcnt) : g \in {h} \cup Steps(h)}
      BY <2>3 DEF Service
    <3> HIDE DEF h
    <3> QED BY <3>1
  <2> QED BY <2>1, <2>2, <2>3
<1> HIDE DEF h
<1> QED
  BY <1>1, <1>2, <1>3, ReadKeeps, ServicedKeeps, ServesTrans

-----------------------------------------------------------------------------
(* Callers.                                                                *)

(* What happens to the transfers and requests of t is only serving.        *)
Keeps(s, u, t) ==
  /\ \A x \in Xfers : x[1] = t =>
       /\ u.dnum[x] = s.dnum[x]
       /\ \/ u.state[x] = s.state[x]
          \/ s.state[x] = "submitted" /\ u.state[x] \in Over
  /\ \A r \in u.freed \ s.freed : r[1] = t => \E x \in Xfers :
       /\ r = ReqOf(x) /\ x[1] \in Aio
       /\ LastInRequest(s, x) /\ s.state[x] = "submitted"

(* The locals of t stay.                                                   *)
Same(t) ==
  /\ pc'[t] = pc[t] /\ seg'[t] = seg[t] /\ chunk'[t] = chunk[t]
  /\ left'[t] = left[t] /\ got'[t] = got[t]

(* Serving the list serves every caller's transfers.                       *)
LEMMA ServesKeeps ==
  ASSUME NEW s, NEW u, Serves(s, u) PROVE \A t : Keeps(s, u, t)
BY DEF Serves, Keeps

(* The types of a caller's locals and of its transfers.                    *)
LEMMA TaskTypes ==
  ASSUME TypeOK, NEW t \in Tasks
  PROVE  /\ seg[t] \in Nat /\ seg[t] \in 1 .. Segs[t]
         /\ chunk[t] \in Nat /\ chunk[t] \in 1 .. Need[t]
         /\ left[t] \in Nat /\ got[t] \in Nat /\ left[t] <= Need[t]
         /\ Need[t] \in Nat \ {0} /\ Segs[t] \in Nat \ {0}
         /\ \A i \in 1 .. Need[t] :
              <<t, seg[t], i>> \in Xfers /\ eng.dnum[<<t, seg[t], i>>] \in Nat
         /\ Cur(t) \in Xfers /\ First(t) \in Xfers
         /\ eng.dnum[Cur(t)] \in Nat /\ eng.dnum[First(t)] \in Nat
<1>1. /\ seg[t] \in Nat /\ seg[t] \in 1 .. Segs[t]
      /\ chunk[t] \in Nat /\ chunk[t] \in 1 .. Need[t]
      /\ left[t] \in Nat /\ got[t] \in Nat /\ left[t] <= Need[t]
      /\ Need[t] \in Nat \ {0} /\ Segs[t] \in Nat \ {0}
      /\ eng.dnum \in [Xfers -> 0 .. DescMax]
  BY SizesAssumption DEF TypeOK, EngineOK
<1>2. \A i \in 1 .. Need[t] : <<t, seg[t], i>> \in Xfers
  BY <1>1, IsXfer
<1>3. 1 \in 1 .. Need[t]
  BY <1>1
<1>4. \A x \in Xfers : eng.dnum[x] \in Nat
  BY <1>1
<1> QED
  BY <1>1, <1>2, <1>3, <1>4 DEF Cur, First

(* An iocb that has its last chunk on the list is past that request.       *)
LEMMA FreedPast ==
  ASSUME TypeOK, NEW x \in Xfers, TaskInv(x[1]), x[1] \in Aio,
         LastInRequest(eng, x), eng.state[x] = "submitted"
  PROVE  x[2] < seg[x[1]] \/ pc[x[1]] = "done"
<1> DEFINE t == x[1]
<1> SUFFICES ASSUME ~(x[2] < seg[t]), pc[t] # "done" PROVE FALSE
  OBVIOUS
<1>1. /\ t \in Tasks /\ x[2] \in Nat /\ x[3] \in 1 .. Need[t]
      /\ x = <<t, x[2], x[3]>>
  BY XferType, SizesAssumption
<1>2. ~Ahead(x)
  BY DEF TaskInv
<1>3. /\ seg[t] \in Nat /\ chunk[t] \in Nat /\ left[t] \in Nat
      /\ Need[t] \in Nat
      /\ eng.dnum[Cur(t)] \in Nat /\ eng.dnum[First(t)] \in Nat
  BY <1>1, TaskTypes
<1>4. AioPlace(t)
  BY DEF TaskInv
<1>5. x[2] = seg[t] /\ x[3] <= chunk[t] /\ (x[3] = chunk[t] => ~Pending(t))
  BY <1>1, <1>2, <1>3 DEF Ahead
<1>6. Pending(t)
  BY <1>4 DEF AioPlace, Pending
<1>7. x[3] < chunk[t] /\ x[3] \in Nat /\ x[3] >= 1 /\ chunk[t] # 1
      /\ pc[t] \in {"build", "queue"}
  BY <1>1, <1>3, <1>4, <1>5, <1>6 DEF AioPlace
<1>8. eng.dnum[x] + (IF x[3] = 2 THEN eng.dnum[<<t, seg[t], 1>>] ELSE 0)
        = Need[t]
  BY <1>5 DEF LastInRequest
<1>9. pc[t] = "build" => left[t] >= 1
  BY DEF TaskInv
<1>10. pc[t] = "queue" => eng.dnum[Cur(t)] >= 1
  BY DEF TaskInv, Carving
<1>11. CASE pc[t] = "build" /\ chunk[t] = 2
  <2>1. x[3] = 1 /\ x = First(t)
    BY <1>1, <1>5, <1>7, <1>11 DEF First
  <2>2. eng.dnum[First(t)] + left[t] = Need[t]
    BY <1>4, <1>11 DEF AioPlace
  <2>3. eng.dnum[First(t)] + 0 = Need[t]
    BY <2>1, <1>8
  <2> QED BY <2>2, <2>3, <1>9, <1>11, <1>3
<1>12. CASE pc[t] = "build" /\ chunk[t] = 3
  <2>1. eng.dnum[First(t)] + eng.dnum[<<t, seg[t], 2>>] + left[t] = Need[t]
    BY <1>4, <1>12 DEF AioPlace
  <2>2. eng.dnum[<<t, seg[t], 2>>] \in Nat
    <3>1. chunk[t] \in 1 .. Need[t]
      BY <1>1, TaskTypes
    <3>2. 2 \in 1 .. Need[t]
      BY <3>1, <1>12, <1>3
    <3> QED BY <3>2, <1>1, TaskTypes
  <2>3. CASE x[3] = 1
    <3>1. x = First(t)
      BY <2>3, <1>1, <1>5 DEF First
    <3>2. eng.dnum[First(t)] + 0 = Need[t]
      BY <3>1, <2>3, <1>8
    <3> QED BY <3>2, <2>1, <2>2, <1>9, <1>12, <1>3
  <2>4. CASE x[3] = 2
    <3>1. x = <<t, seg[t], 2>>
      BY <2>4, <1>1, <1>5
    <3>2. eng.dnum[<<t, seg[t], 2>>] + eng.dnum[First(t)] = Need[t]
      BY <3>1, <2>4, <1>8 DEF First
    <3> QED BY <3>2, <2>1, <2>2, <1>9, <1>12, <1>3
  <2> QED BY <2>3, <2>4, <1>7, <1>12
<1>13. CASE pc[t] = "queue"
  <2>1. chunk[t] = 2
    BY <1>4, <1>7, <1>13 DEF AioPlace
  <2>2. eng.dnum[First(t)] + eng.dnum[Cur(t)] + left[t] = Need[t]
    BY <1>4, <1>13, <2>1 DEF AioPlace
  <2>3. x[3] = 1 /\ x = First(t)
    BY <1>1, <1>5, <1>7, <2>1 DEF First
  <2>4. eng.dnum[First(t)] + 0 = Need[t]
    BY <2>3, <1>8
  <2> QED BY <2>2, <2>4, <1>10, <1>13, <1>3
<1> QED
  BY <1>4, <1>7, <1>11, <1>12, <1>13 DEF AioPlace

(* What a call counts as moved stays of completed chunks that it is past.  *)
LEMMA CallToldKept ==
  ASSUME TypeOK, NEW t \in Tasks,
         got[t] <= Cardinality(Descs(CallTold(t), eng.dnum)), got'[t] = got[t],
         \A x \in CallTold(t) :
           x \in CallTold(t)' /\ eng'.dnum[x] = eng.dnum[x],
         \A x \in XfersOf(t) : eng'.dnum[x] \in 0 .. DescMax
  PROVE  got'[t] <= Cardinality(Descs(CallTold(t)', eng'.dnum))
<1> DEFINE X == CallTold(t)
           Y == CallTold(t)'
           d == eng.dnum
           e == eng'.dnum
<1>1. X \in SUBSET Y /\ Y \in SUBSET XfersOf(t) /\ X \in SUBSET XfersOf(t)
      /\ XfersOf(t) \subseteq Xfers
  BY DEF CallTold, XfersOf
<1>2. d \in [Xfers -> 0 .. DescMax] /\ got[t] \in Nat
  BY DEF TypeOK, EngineOK
<1>3. \A x \in X : e[x] = d[x]
  OBVIOUS
<1>4. \A x \in XfersOf(t) : e[x] \in 0 .. DescMax
  OBVIOUS
<1>5. got[t] <= Cardinality(Descs(X, d))
  OBVIOUS
<1> HIDE DEF X, Y, d, e
<1>6. \A x \in X : d[x] \in 0 .. DescMax /\ d[x] \in Nat /\ d[x] <= e[x]
  <2> SUFFICES ASSUME NEW x \in X
               PROVE  d[x] \in 0 .. DescMax /\ d[x] \in Nat /\ d[x] <= e[x]
    OBVIOUS
  <2>1. d[x] \in 0 .. DescMax /\ e[x] = d[x]
    BY <1>1, <1>2, <1>3
  <2> QED BY <2>1, SizesAssumption
<1>7. Cardinality(Descs(X, d)) <= Cardinality(Descs(Y, e))
  BY <1>1, <1>4, <1>6, DescsMore
<1>8. /\ Cardinality(Descs(X, d)) \in Nat
      /\ Cardinality(Descs(Y, e)) \in Nat
  BY <1>1, <1>4, <1>6, DescsFinite
<1>9. got[t] <= Cardinality(Descs(Y, e))
  BY <1>2, <1>5, <1>7, <1>8
<1> QED BY <1>9 DEF Y, e

(* What the invariant says of a caller outlives any step that leaves its   *)
(* locals and only serves its transfers.                                   *)
LEMMA OtherTask ==
  ASSUME TypeOK, NEW t \in Tasks, TaskInv(t), Same(t), Keeps(eng, eng', t)
  PROVE  TaskInv(t)'
<1>1. /\ seg[t] \in Nat /\ chunk[t] \in Nat /\ chunk[t] \in 1 .. Need[t]
      /\ Cur(t) \in Xfers /\ First(t) \in Xfers
      /\ \A i \in 1 .. Need[t] : <<t, seg[t], i>> \in Xfers
      /\ Need[t] \in Nat
  BY TaskTypes
<1>2. /\ Cur(t)' = Cur(t) /\ First(t)' = First(t)
      /\ Carving(t)' = Carving(t) /\ Pending(t)' = Pending(t)
  BY DEF Same, Cur, First, Carving, Pending
<1>3. /\ eng'.dnum[Cur(t)] = eng.dnum[Cur(t)]
      /\ eng'.dnum[First(t)] = eng.dnum[First(t)]
      /\ \A i \in 1 .. Need[t] :
           eng'.dnum[<<t, seg[t], i>>] = eng.dnum[<<t, seg[t], i>>]
  BY <1>1 DEF Keeps, Cur, First
<1>4. \A x \in Xfers : x[1] = t =>
         /\ eng.state[x] = "new" => eng'.state[x] = "new"
         /\ eng.state[x] # "new" => eng'.state[x] # "new"
         /\ eng.state[x] # "submitted" => eng'.state[x] # "submitted"
  BY DEF Keeps, Over
<1>5. \A x \in Xfers : x[1] = t /\ Ahead(x)' => eng'.state[x] = "new"
  <2> SUFFICES ASSUME NEW x \in Xfers, x[1] = t, Ahead(x)'
               PROVE  eng'.state[x] = "new"
    OBVIOUS
  <2>1. Ahead(x)
    BY <1>2 DEF Ahead, Same
  <2> QED BY <2>1, <1>4 DEF TaskInv
<1>6. \A r \in eng'.freed : r[1] = t => r[2] < seg[t] \/ pc[t] = "done"
  <2> SUFFICES ASSUME NEW r \in eng'.freed, r[1] = t
               PROVE  r[2] < seg[t] \/ pc[t] = "done"
    OBVIOUS
  <2>1. CASE r \in eng.freed
    BY <2>1 DEF TaskInv
  <2>2. CASE r \notin eng.freed
    <3>1. PICK x \in Xfers : /\ r = ReqOf(x) /\ x[1] \in Aio
                             /\ LastInRequest(eng, x)
                             /\ eng.state[x] = "submitted"
      BY <2>2 DEF Keeps
    <3>2. x[1] = t /\ r[2] = x[2]
      BY <3>1, XferType
    <3> QED BY <3>1, <3>2, FreedPast
  <2> QED BY <2>1, <2>2
<1>7. t \in Sync => SyncPlace(t)'
  <2> SUFFICES ASSUME t \in Sync PROVE SyncPlace(t)'
    OBVIOUS
  <2>1. SyncPlace(t) /\ seg[t] = 1
    BY SyncAssumption, TaskTypes DEF TaskInv
  <2>2. \A i \in 1 .. chunk[t] - 1 : eng'.state[<<t, 1, i>>] # "submitted"
    <3> SUFFICES ASSUME NEW i \in 1 .. chunk[t] - 1
                 PROVE  eng'.state[<<t, 1, i>>] # "submitted"
      OBVIOUS
    <3>1. <<t, 1, i>> \in Xfers /\ eng.state[<<t, 1, i>>] # "submitted"
      BY <1>1, <2>1 DEF SyncPlace
    <3> QED BY <3>1, <1>4
  <2>3. Carving(t) /\ pc[t] # "queue" => eng'.state[Cur(t)] # "new"
    BY <2>1, <1>1, <1>4 DEF SyncPlace, Cur
  <2>4. got'[t] <= Cardinality(Descs(CallTold(t)', eng'.dnum))
    <3>1. \A x \in CallTold(t) :
            x \in CallTold(t)' /\ eng'.dnum[x] = eng.dnum[x]
      BY DEF CallTold, XfersOf, Keeps, Same
    <3>2. \A x \in XfersOf(t) : eng'.dnum[x] \in 0 .. DescMax
      BY DEF Keeps, XfersOf, TypeOK, EngineOK
    <3>3. got[t] <= Cardinality(Descs(CallTold(t), eng.dnum))
          /\ got'[t] = got[t]
      BY <2>1 DEF SyncPlace, Same
    <3> QED BY <3>1, <3>2, <3>3, CallToldKept
  <2> QED BY <2>1, <2>2, <2>3, <2>4, <1>2, <1>3 DEF SyncPlace, Same
<1>8. t \in Aio => AioPlace(t)'
  <2> SUFFICES ASSUME t \in Aio PROVE AioPlace(t)'
    OBVIOUS
  <2>1. AioPlace(t)
    BY DEF TaskInv
  <2>2. chunk[t] = 3 =>
          eng'.dnum[<<t, seg[t], 2>>] = eng.dnum[<<t, seg[t], 2>>]
    BY <1>1, <1>3
  <2> QED BY <2>1, <2>2, <1>2, <1>3 DEF AioPlace, Same
<1>9. \A x \in Xfers : x[1] = t /\ Uncarved(x)' => eng'.dnum[x] = 0
  <2> SUFFICES ASSUME NEW x \in Xfers, x[1] = t, Uncarved(x)'
               PROVE  eng'.dnum[x] = 0
    OBVIOUS
  <2>1. Uncarved(x)
    BY DEF Uncarved, Same
  <2> QED BY <2>1 DEF TaskInv, Keeps
<1> QED
  BY <1>2, <1>3, <1>5, <1>6, <1>7, <1>8, <1>9 DEF TaskInv, Same

-----------------------------------------------------------------------------
(* The operators that callers use.                                         *)

(* A chunk and those after it were not queued.                             *)
Unqueued(s, x) ==
  \A y \in Xfers : ReqOf(y) = ReqOf(x) /\ y[3] >= x[3] => s.state[y] = "new"

(* What transfer_init changes.                                             *)
CarvedOut(s, x, n, u) ==
  /\ \A f \in DOMAIN IdleEngine \ {"dnum", "at", "ring", "idx"} : u[f] = s[f]
  /\ u.dnum[x] = ChunkSize(s, n) /\ u.at[x] = s.idx
  /\ \A y \in Xfers : y # x => u.dnum[y] = s.dnum[y] /\ u.at[y] = s.at[y]
  /\ u.ring = [p \in Slots |-> IF p \in Taken(s, n) THEN x ELSE s.ring[p]]
  /\ u.state = s.state /\ u.freed = s.freed /\ u.list = s.list

(* It keeps the invariant, for a chunk that was not carved before: it      *)
(* takes a descriptor at least and no more than are asked for.             *)
LEMMA CarveKeeps ==
  ASSUME NEW s, Good(s), NEW x \in Xfers, Unqueued(s, x), NEW n \in Nat \ {0},
         s.dnum[x] = 0
  PROVE  LET u == Carve(s, x, n)
         IN /\ Good(u) /\ ChunkSize(s, n) \in 1 .. n
            /\ CarvedOut(s, x, n, u)
<1> DEFINE u == Carve(s, x, n)
           d == ChunkSize(s, n)
<1>1. EngineOK(s) /\ Ordered(s) /\ Carved(s) /\ Engaged(s) /\ Counted(s)
      /\ Live(s) /\ Tallied(s) /\ Ringed(s)
  BY DEF Good, EngineInv
<1>2. d \in 1 .. n /\ d \in 1 .. DescMax /\ DescMax \in Nat \ {0}
      /\ s.idx \in 0 .. DescMax - 1
  <2>1. DescMax \in Nat \ {0} /\ s.idx \in 0 .. DescMax - 1
    BY <1>1, SizesAssumption DEF EngineOK
  <2>2. d = IF s.idx + n >= DescMax THEN DescMax - s.idx ELSE n
    BY DEF ChunkSize
  <2> HIDE DEF d
  <2> QED BY <2>1, <2>2
<1>12. s.idx + d <= DescMax
  <2>1. d = IF s.idx + n >= DescMax THEN DescMax - s.idx ELSE n
    BY DEF ChunkSize
  <2> HIDE DEF d
  <2> QED BY <2>1, <1>2
<1>3. (s.idx + d) % DescMax \in 0 .. DescMax - 1
  <2> HIDE DEF d
  <2>1. s.idx + d \in Int /\ DescMax \in Nat /\ DescMax > 0
    BY <1>2
  <2> QED BY <2>1, Modulo
<1> DEFINE r == [p \in Slots |-> IF p \in Taken(s, n) THEN x ELSE s.ring[p]]
<1>4. u = [Written(s, x, n) EXCEPT !.idx = (@ + d) % DescMax]
  BY DEF Carve
<1>13. Taken(s, n) = s.idx .. s.idx + d - 1
  BY DEF Taken
<1>14. Written(s, x, n) = [s EXCEPT !.dnum[x] = d, !.at[x] = s.idx, !.ring = r]
  BY DEF Written
<1> HIDE DEF u, d, r
<1>15. /\ DOMAIN u = DOMAIN IdleEngine
       /\ \A f \in DOMAIN IdleEngine \ {"dnum", "at", "ring", "idx"} :
            u[f] = s[f]
       /\ u.dnum = [s.dnum EXCEPT ![x] = d]
       /\ u.at = [s.at EXCEPT ![x] = s.idx]
       /\ u.ring = r /\ u.idx = (s.idx + d) % DescMax
  <2> DEFINE w == Written(s, x, n)
  <2>1. /\ DOMAIN w = DOMAIN IdleEngine
        /\ \A f \in DOMAIN IdleEngine \ {"dnum", "at", "ring"} : w[f] = s[f]
        /\ w.dnum = [s.dnum EXCEPT ![x] = d]
        /\ w.at = [s.at EXCEPT ![x] = s.idx] /\ w.ring = r
    BY <1>14, <1>1, Fields DEF EngineOK
  <2>2. w.idx = s.idx
    BY <2>1, Fields
  <2>3. u = [w EXCEPT !.idx = (@ + d) % DescMax]
    BY <1>4
  <2> HIDE DEF w
  <2> QED BY <2>1, <2>2, <2>3, Fields
<1>6. /\ u.dnum[x] = d /\ \A y \in Xfers : y # x => u.dnum[y] = s.dnum[y]
      /\ u.at[x] = s.idx /\ \A y \in Xfers : y # x => u.at[y] = s.at[y]
      /\ u.state = s.state /\ u.freed = s.freed /\ u.list = s.list
      /\ u.cmpl = s.cmpl /\ u.ended = s.ended /\ u.res = s.res
      /\ u.hw = s.hw /\ u.hx = s.hx /\ u.hcnt = s.hcnt
  <2>1. s.dnum \in [Xfers -> 0 .. DescMax] /\ s.at \in [Xfers -> Slots]
    BY <1>1 DEF EngineOK
  <2> QED BY <2>1, <1>15, Fields
<1>5. EngineOK(u)
  <2>1. s.dnum \in [Xfers -> 0 .. DescMax] /\ d \in 0 .. DescMax
        /\ s.at \in [Xfers -> Slots] /\ s.idx \in Slots
        /\ s.ring \in [Slots -> Xfers \cup {NoXfer}]
    <3>1. s.idx \in Slots
      BY <1>1 DEF EngineOK, Slots
    <3> QED BY <3>1, <1>1, <1>2 DEF EngineOK
  <2>2. /\ u.dnum \in [Xfers -> 0 .. DescMax] /\ u.at \in [Xfers -> Slots]
        /\ u.ring \in [Slots -> Xfers \cup {NoXfer}]
    BY <2>1, <1>15 DEF r
  <2>3. /\ u.running = s.running /\ u.request = s.request /\ u.busy = s.busy
        /\ u.err = s.err /\ u.herr = s.herr /\ u.irq = s.irq
        /\ u.wberr = s.wberr /\ u.dequeued = s.dequeued /\ u.wb = s.wb
        /\ u.moved = s.moved /\ u.erred = s.erred
    BY <1>15, Fields
  <2> QED BY <2>2, <2>3, <1>1, <1>3, <1>6, <1>15 DEF EngineOK
<1>7. ASSUME NEW y \in Xfers, s.state[y] # "new"
      PROVE  /\ u.dnum[y] = s.dnum[y]
             /\ y[3] # 1 =>
                  u.dnum[<<y[1], y[2], 1>>] = s.dnum[<<y[1], y[2], 1>>]
             /\ LastInRequest(u, y) = LastInRequest(s, y)
  <2>1. y # x
    BY <1>7, XferType, SizesAssumption DEF Unqueued
  <2>2. y[3] # 1 => <<y[1], y[2], 1>> \in Xfers /\ <<y[1], y[2], 1>> # x
    <3> SUFFICES ASSUME y[3] # 1
                 PROVE  <<y[1], y[2], 1>> \in Xfers /\ <<y[1], y[2], 1>> # x
      OBVIOUS
    <3>1. y[1] \in Tasks /\ y[2] \in 1 .. Segs[y[1]]
          /\ y[3] \in 1 .. Need[y[1]] /\ Need[y[1]] \in Nat
      BY XferType, SizesAssumption
    <3>2. <<y[1], y[2], 1>> \in Xfers
      BY <3>1, IsXfer
    <3>3. ASSUME <<y[1], y[2], 1>> = x PROVE FALSE
      <4>1. x[3] = 1 /\ x[1] = y[1] /\ x[2] = y[2]
        BY <3>3
      <4>2. ReqOf(y) = ReqOf(x) /\ y[3] >= x[3]
        BY <4>1, <3>1 DEF ReqOf
      <4> QED BY <4>2, <1>7 DEF Unqueued
    <3> QED BY <3>2, <3>3
  <2>3. u.dnum[y] = s.dnum[y]
    BY <2>1, <1>6
  <2>4. y[3] # 1 => u.dnum[<<y[1], y[2], 1>>] = s.dnum[<<y[1], y[2], 1>>]
    BY <2>2, <1>6
  <2> QED BY <2>3, <2>4 DEF LastInRequest
<1>8. Carved(u) /\ Engaged(u) /\ Ordered(u) /\ Live(u)
  <2>1. Carved(u)
    BY <1>1, <1>6, <1>7 DEF Carved
  <2>2. Engaged(u)
    <3> SUFFICES ASSUME u.hw # "idle"
                 PROVE  /\ u.hx \in Xfers /\ u.state[u.hx] # "new"
                        /\ Reached(u) < DescMax
      BY DEF Engaged
    <3>1. s.hx \in Xfers /\ s.state[s.hx] # "new" /\ Reached(s) < DescMax
      BY <1>1, <1>6 DEF Engaged
    <3>2. s.hx # x
      BY <3>1, XferType, SizesAssumption DEF Unqueued
    <3> QED BY <3>1, <3>2, <1>6 DEF Reached
  <2>3. Ordered(u) /\ Live(u)
    BY <1>1, <1>6 DEF Ordered, Live, Places
  <2> QED BY <2>1, <2>2, <2>3
<1>16. Ringed(u)
  <2>1. \A y \in Xfers : u.at[y] + u.dnum[y] <= DescMax
    <3> SUFFICES ASSUME NEW y \in Xfers PROVE u.at[y] + u.dnum[y] <= DescMax
      OBVIOUS
    <3>1. CASE y = x
      BY <3>1, <1>6, <1>12
    <3>2. CASE y # x
      BY <3>2, <1>6, <1>1 DEF Ringed
    <3> QED BY <3>1, <3>2
  <2>2. ASSUME NEW p \in Slots, u.ring[p] # NoXfer
        PROVE  p \in SlotsOf(u, u.ring[p])
    <3>1. CASE p \in Taken(s, n)
      <4>1. u.ring[p] = x
        BY <3>1, <1>15 DEF r
      <4> QED BY <4>1, <3>1, <1>6, <1>13 DEF SlotsOf
    <3>2. CASE p \notin Taken(s, n)
      <4> DEFINE z == s.ring[p]
      <4>1. u.ring[p] = z
        BY <3>2, <1>15 DEF r
      <4>2. p \in SlotsOf(s, z) /\ z \in Xfers
        BY <4>1, <2>2, <1>1 DEF Ringed, EngineOK
      <4> HIDE DEF z
      <4>3. z # x
        <5>1. s.at[x] \in 0 .. DescMax - 1 /\ p \in 0 .. DescMax - 1
          BY <1>1 DEF EngineOK, Slots
        <5>2. SlotsOf(s, x) = s.at[x] .. s.at[x] + 0 - 1
          BY DEF SlotsOf
        <5> QED BY <5>1, <5>2, <4>2, SizesAssumption
      <4> QED BY <4>1, <4>2, <4>3, <1>6 DEF SlotsOf
    <3> QED BY <3>1, <3>2
  <2> QED BY <2>1, <2>2 DEF Ringed
<1>17. CarvedOut(s, x, n, u)
  <2>1. ChunkSize(s, n) = d
    BY DEF d
  <2>2. u.ring = [p \in Slots |-> IF p \in Taken(s, n) THEN x ELSE s.ring[p]]
    BY <1>15 DEF r
  <2> QED BY <1>6, <1>15, <2>1, <2>2, Zenon DEF CarvedOut
<1>9. \A t : Through(u, t) = Through(s, t)
  <2>1. \A y \in Xfers : u.state[y] \in Over => u.state[y] # "new"
    BY DEF Over
  <2>2. \A y \in Xfers :
          u.state[y] \in Over => LastInRequest(u, y) = LastInRequest(s, y)
    <3> SUFFICES ASSUME NEW y \in Xfers, u.state[y] \in Over
                 PROVE  LastInRequest(u, y) = LastInRequest(s, y)
      OBVIOUS
    <3>1. s.state[y] # "new"
      BY <2>1, <1>6
    <3> QED BY <3>1, <1>7
  <2> QED BY <2>2, <1>6 DEF Through
<1>10. Counted(u)
  BY <1>1, <1>6, <1>9 DEF Counted, Places
<1>11. Tallied(u)
  <2>1. s.dnum \in [Xfers -> 0 .. DescMax] /\ s.res \in [Aio -> Nat]
        /\ u.dnum \in [Xfers -> 0 .. DescMax]
    BY <1>1, <1>5 DEF EngineOK
  <2>2. \A y \in Xfers : s.state[y] = "completed" =>
          u.state[y] = "completed" /\ u.dnum[y] = s.dnum[y]
    BY <1>6, <1>7
  <2> QED BY <2>1, <2>2, <1>1, <1>6, TallyKept
<1> QED
  BY <1>2, <1>5, <1>8, <1>10, <1>11, <1>16, <1>17
     DEF Good, EngineInv, u, d

(* A chunk that may be queued.                                             *)
Fits(s, x) ==
  /\ s.dnum[x] >= 1
  /\ x[1] \in Aio /\ x[3] # 1 =>
       /\ x[3] = 2 /\ s.dnum[<<x[1], x[2], 1>>] >= 1
       /\ s.dnum[<<x[1], x[2], 1>>] + s.dnum[x] <= Need[x[1]]

(* transfer_queue keeps the invariant.                                     *)
LEMMA QueueKeeps ==
  ASSUME NEW s, Good(s), NEW x \in Xfers, Unqueued(s, x), Fits(s, x),
         ReqOf(x) \notin s.freed
  PROVE  LET u == Queue(s, x)
         IN /\ Good(u) /\ u.state = [s.state EXCEPT ![x] = "submitted"]
            /\ u.freed = s.freed /\ u.dnum = s.dnum
            /\ u.ring = s.ring /\ u.at = s.at
<1> DEFINE u == [s EXCEPT !.state[x] = "submitted", !.list = Append(@, x)]
<1>1. EngineOK(s) /\ Ordered(s) /\ Carved(s) /\ Engaged(s) /\ Counted(s)
      /\ Live(s) /\ Tallied(s) /\ Ringed(s)
  BY DEF Good, EngineInv
<1>2. /\ DOMAIN u = DOMAIN IdleEngine
      /\ u.state = [s.state EXCEPT ![x] = "submitted"]
      /\ u.list = Append(s.list, x)
      /\ \A f \in DOMAIN IdleEngine \ {"state", "list"} : u[f] = s[f]
  BY <1>1, Fields DEF EngineOK
<1> HIDE DEF u
<1>3. /\ u.freed = s.freed /\ u.dnum = s.dnum /\ u.cmpl = s.cmpl
      /\ u.ended = s.ended /\ u.hw = s.hw /\ u.hx = s.hx /\ u.hcnt = s.hcnt
      /\ u.res = s.res /\ u.ring = s.ring /\ u.at = s.at
  BY <1>2, Fields
<1>4. /\ u.state[x] = "submitted"
      /\ \A y \in Xfers : y # x => u.state[y] = s.state[y]
      /\ s.state[x] = "new" /\ s.state \in [Xfers -> XferStates]
  <2>1. s.state \in [Xfers -> XferStates]
    BY <1>1 DEF EngineOK
  <2>2. x[3] \in Int
    BY XferType, SizesAssumption
  <2>3. s.state[x] = "new"
    BY <2>2 DEF Unqueued
  <2> QED BY <2>1, <2>3, <1>2
<1>5. /\ s.list \in Seq(Xfers) /\ u.list \in Seq(Xfers)
      /\ Len(u.list) = Len(s.list) + 1 /\ u.list[Len(s.list) + 1] = x
      /\ \A i \in Places(s) : u.list[i] = s.list[i] /\ s.list[i] \in Xfers
      /\ \A i \in Places(u) : i \in Places(s) \/ i = Len(s.list) + 1
  <2> DEFINE q == s.list
             v == Append(q, x)
  <2>1. q \in Seq(Xfers) /\ u.list = v
    BY <1>1, <1>2 DEF EngineOK
  <2> HIDE DEF q
  <2>2. /\ v \in Seq(Xfers) /\ Len(v) = Len(q) + 1 /\ v[Len(q) + 1] = x
        /\ \A i \in 1 .. Len(q) : v[i] = q[i] /\ q[i] \in Xfers
    BY <2>1
  <2>3. \A i \in 1 .. Len(v) : i \in 1 .. Len(q) \/ i = Len(q) + 1
    BY <2>1, <2>2
  <2> HIDE DEF v
  <2> QED BY <2>1, <2>2, <2>3 DEF Places, q
<1>6. EngineOK(u)
  <2>1. u.state \in [Xfers -> XferStates]
    BY <1>2, <1>4 DEF XferStates
  <2>2. /\ u.running = s.running /\ u.request = s.request /\ u.busy = s.busy
        /\ u.err = s.err /\ u.herr = s.herr /\ u.irq = s.irq
        /\ u.wberr = s.wberr
        /\ u.dequeued = s.dequeued /\ u.wb = s.wb /\ u.moved = s.moved
        /\ u.erred = s.erred /\ u.idx = s.idx
    BY <1>2, Fields
  <2> QED BY <2>1, <2>2, <1>1, <1>2, <1>3, <1>5 DEF EngineOK
<1>7. Carved(u) /\ Engaged(u)
  <2>1. Carved(u)
    BY <1>1, <1>3, <1>4 DEF Carved, Fits
  <2>2. Engaged(u)
    BY <1>1, <1>3, <1>4 DEF Engaged, Reached
  <2> QED BY <2>1, <2>2
<1>18. Ringed(u)
  BY <1>1, <1>3 DEF Ringed, SlotsOf
<1>8. \A i \in Places(s) : s.list[i] # x /\ s.state[s.list[i]] = "submitted"
  BY <1>1, <1>4 DEF Live
<1>9. Live(u)
  BY <1>1, <1>3, <1>4, <1>5, <1>8 DEF Live
<1>10. Ordered(u)
  <2> SUFFICES ASSUME NEW i \in Places(u), NEW j \in Places(u), i < j,
                      ReqOf(u.list[i]) = ReqOf(u.list[j])
               PROVE  u.list[i][3] < u.list[j][3]
    BY DEF Ordered
  <2>1. i \in Places(s)
    BY <1>5 DEF Places
  <2>2. CASE j \in Places(s)
    BY <2>1, <2>2, <1>1, <1>5 DEF Ordered
  <2>3. CASE j = Len(s.list) + 1
    <3>1. ReqOf(s.list[i]) = ReqOf(x) /\ s.list[i] \in Xfers
          /\ s.state[s.list[i]] # "new"
      BY <2>1, <2>3, <1>5, <1>8
    <3>2. ~(s.list[i][3] >= x[3])
      BY <3>1 DEF Unqueued
    <3>3. s.list[i][3] \in Nat /\ x[3] \in Nat
      BY <3>1, XferType, SizesAssumption
    <3>4. u.list[i] = s.list[i] /\ u.list[j] = x
      BY <2>1, <2>3, <1>5
    <3> QED BY <3>2, <3>3, <3>4
  <2> QED BY <2>2, <2>3, <1>5
<1>11. \A y : LastInRequest(u, y) = LastInRequest(s, y)
  BY <1>3 DEF LastInRequest
<1>12. \A t : Through(u, t) = Through(s, t)
  <2>1. \A y \in Xfers : u.state[y] \in Over <=> s.state[y] \in Over
    BY <1>4 DEF Over
  <2> QED BY <2>1, <1>11 DEF Through
<1>13. ASSUME x[1] \in Aio PROVE ReqOf(x) \notin Through(s, x[1])
  <2> SUFFICES ASSUME ReqOf(x) \in Through(s, x[1]) PROVE FALSE
    OBVIOUS
  <2>1. PICK y \in Xfers : ReqOf(y) = ReqOf(x) /\ LastInRequest(s, y)
             /\ s.state[y] \in Over
    BY DEF Through
  <2>2. ~(y[3] >= x[3])
    BY <2>1 DEF Unqueued, Over
  <2>3. /\ y[1] = x[1] /\ y[2] = x[2] /\ y[3] \in 1 .. Need[x[1]]
        /\ x[3] \in 1 .. Need[x[1]]
        /\ Need[x[1]] \in Nat /\ y = <<x[1], x[2], y[3]>>
    <3>1. ReqOf(y)[1] = y[1] /\ ReqOf(y)[2] = y[2] /\ ReqOf(x)[1] = x[1]
          /\ ReqOf(x)[2] = x[2]
      BY XferType
    <3>2. y[1] = x[1] /\ y[2] = x[2]
      BY <3>1, <2>1
    <3> QED BY <3>2, XferType, SizesAssumption
  <2>4. x[3] = 2 /\ s.dnum[x] >= 1
        /\ s.dnum[<<x[1], x[2], 1>>] + s.dnum[x] <= Need[x[1]]
    BY <1>13, <2>2, <2>3 DEF Fits
  <2>5. y[3] = 1 /\ y = <<x[1], x[2], 1>>
    BY <2>2, <2>3, <2>4
  <2>6. s.dnum[y] + 0 = Need[x[1]]
    BY <2>1, <2>3, <2>5 DEF LastInRequest
  <2>7. s.dnum[y] \in 0 .. DescMax /\ s.dnum[x] \in 0 .. DescMax
    BY <1>1 DEF EngineOK
  <2> QED BY <2>4, <2>5, <2>6, <2>7, <2>3
<1>14. Counted(u)
  BY <1>1, <1>3, <1>5, <1>12, <1>13 DEF Counted
<1>17. Tallied(u)
  <2>1. s.dnum \in [Xfers -> 0 .. DescMax] /\ s.res \in [Aio -> Nat]
    BY <1>1 DEF EngineOK
  <2>2. \A y \in Xfers : s.state[y] = "completed" =>
          u.state[y] = "completed" /\ u.dnum[y] = s.dnum[y]
    BY <1>3, <1>4
  <2> QED BY <2>1, <2>2, <1>1, <1>3, TallyKept
<1>15. Good(u)
  BY <1>6, <1>7, <1>9, <1>10, <1>14, <1>17, <1>18 DEF Good, EngineInv
<1>16. Queue(s, x) = Start(u)
  BY DEF Queue, u
<1> QED
  BY <1>2, <1>3, <1>15, <1>16, StartKeeps DEF Alike

(* Freeing a request keeps the invariant of the engine itself.             *)
LEMMA FreeKeeps ==
  ASSUME NEW s, EngineInv(s), NEW r \in Reqs
  PROVE  LET u == [s EXCEPT !.freed = @ \cup {r}]
         IN /\ EngineInv(u) /\ u.list = s.list /\ u.running = s.running
            /\ u.dnum = s.dnum /\ u.state = s.state
            /\ u.freed = s.freed \cup {r}
            /\ u.ring = s.ring /\ u.at = s.at /\ u.hw = s.hw /\ u.hx = s.hx
            /\ u.hcnt = s.hcnt
<1> DEFINE u == [s EXCEPT !.freed = @ \cup {r}]
<1>1. EngineOK(s) /\ Ordered(s) /\ Carved(s) /\ Engaged(s) /\ Counted(s)
      /\ Tallied(s) /\ Ringed(s)
  BY DEF EngineInv
<1>2. /\ DOMAIN u = DOMAIN IdleEngine /\ u.freed = s.freed \cup {r}
      /\ \A f \in DOMAIN IdleEngine \ {"freed"} : u[f] = s[f]
  BY <1>1, Fields DEF EngineOK
<1> HIDE DEF u
<1>3. /\ u.list = s.list /\ u.dnum = s.dnum /\ u.state = s.state
      /\ u.cmpl = s.cmpl /\ u.ended = s.ended
      /\ u.hw = s.hw /\ u.hx = s.hx /\ u.hcnt = s.hcnt
      /\ u.running = s.running /\ u.res = s.res
      /\ u.ring = s.ring /\ u.at = s.at
  BY <1>2, Fields
<1>4. EngineOK(u)
  <2>1. /\ u.request = s.request /\ u.busy = s.busy
        /\ u.err = s.err /\ u.herr = s.herr /\ u.irq = s.irq
        /\ u.wberr = s.wberr /\ u.dequeued = s.dequeued /\ u.wb = s.wb
        /\ u.moved = s.moved /\ u.erred = s.erred /\ u.idx = s.idx
    BY <1>2, Fields
  <2> QED BY <2>1, <1>1, <1>2, <1>3 DEF EngineOK
<1>5. \A t : Through(u, t) = Through(s, t)
  <2>1. \A x : LastInRequest(u, x) = LastInRequest(s, x)
    BY <1>3 DEF LastInRequest
  <2> QED BY <2>1, <1>3 DEF Through
<1>6. Ordered(u) /\ Carved(u) /\ Engaged(u) /\ Counted(u) /\ Ringed(u)
  BY <1>1, <1>2, <1>3, <1>5
  DEF Ordered, Carved, Engaged, Reached, Counted, Places, Ringed, SlotsOf
<1>7. Tallied(u)
  <2>1. s.dnum \in [Xfers -> 0 .. DescMax] /\ s.res \in [Aio -> Nat]
    BY <1>1 DEF EngineOK
  <2> QED BY <2>1, <1>1, <1>2, <1>3, TallyKept
<1> QED
  BY <1>2, <1>3, <1>4, <1>6, <1>7 DEF EngineInv, u

(* What transfer_abort leaves: the transfer is off the list if it was its  *)
(* head.                                                                   *)
Aborted(s, x, u) ==
  /\ ~u.running /\ u.dnum = s.dnum /\ u.freed = s.freed
  /\ u.ring = s.ring /\ u.at = s.at /\ u.hx = s.hx /\ u.hcnt = s.hcnt
  /\ u.hw = "idle" <=> s.hw = "idle"
  /\ u.state[x] = "aborted"
  /\ \A y \in Xfers : y # x => u.state[y] = s.state[y]
  /\ u.list = IF s.list # <<>> /\ Head(s.list) = x
              THEN Tail(s.list) ELSE s.list

(* transfer_abort, after which the engine is stopped, keeps the invariant  *)
(* but may leave the transfer on the list.                                 *)
LEMMA AbortHolds ==
  ASSUME NEW s, Good(s), NEW x \in Xfers, s.state[x] = "submitted"
  PROVE  EngineInv(Stop(Abort(s, x))) /\ Aborted(s, x, Stop(Abort(s, x)))
<1> DEFINE a == Abort(s, x)
           u == Stop(Abort(s, x))
<1>1. EngineOK(s) /\ Ordered(s) /\ Carved(s) /\ Engaged(s) /\ Counted(s)
      /\ Live(s) /\ Tallied(s) /\ Ringed(s)
  BY DEF Good, EngineInv
<1>2. /\ DOMAIN a = DOMAIN IdleEngine
      /\ a.list = IF s.list # <<>> /\ Head(s.list) = x
                  THEN Tail(s.list) ELSE s.list
      /\ a.state = [s.state EXCEPT ![x] = "aborted"]
      /\ \A f \in DOMAIN IdleEngine \ {"list", "state"} : a[f] = s[f]
  BY <1>1, Fields DEF EngineOK, Abort
<1> HIDE DEF a
<1>3. /\ DOMAIN u = DOMAIN IdleEngine
      /\ u.running = FALSE /\ u.hw = IF a.hw = "busy" THEN "drain" ELSE a.hw
      /\ \A f \in DOMAIN IdleEngine \ {"running", "hw"} : u[f] = a[f]
  BY <1>2, Fields DEF Stop, a
<1> HIDE DEF u
<1>4. /\ u.list = a.list /\ u.state = a.state
      /\ u.request = s.request /\ u.busy = s.busy
      /\ u.err = s.err /\ u.herr = s.herr /\ u.irq = s.irq
      /\ u.wberr = s.wberr /\ u.dequeued = s.dequeued /\ u.wb = s.wb
      /\ u.moved = s.moved /\ u.erred = s.erred /\ u.idx = s.idx
      /\ u.dnum = s.dnum /\ u.freed = s.freed /\ u.cmpl = s.cmpl
      /\ u.res = s.res /\ u.ring = s.ring /\ u.at = s.at
      /\ u.ended = s.ended /\ u.hx = s.hx /\ u.hcnt = s.hcnt /\ a.hw = s.hw
  BY <1>2, <1>3, Fields
<1>5. /\ s.state \in [Xfers -> XferStates]
      /\ u.state[x] = "aborted"
      /\ \A y \in Xfers : y # x => u.state[y] = s.state[y]
      /\ u.state \in [Xfers -> XferStates]
  <2>1. s.state \in [Xfers -> XferStates]
    BY <1>1 DEF EngineOK
  <2> QED BY <2>1, <1>2, <1>4 DEF XferStates
<1>6. /\ u.list \in Seq(Xfers)
      /\ \E k \in {0, 1} : /\ Len(u.list) = Len(s.list) - k
                           /\ \A i \in Places(u) :
                                i + k \in Places(s)
                                /\ u.list[i] = s.list[i + k]
  <2>1. s.list \in Seq(Xfers)
    BY <1>1 DEF EngineOK
  <2>2. CASE s.list # <<>> /\ Head(s.list) = x
    <3>1. u.list = Tail(s.list)
      BY <2>2, <1>2, <1>4
    <3>2. u.list \in Seq(Xfers) /\ Len(u.list) = Len(s.list) - 1
          /\ \A i \in Places(u) :
               i + 1 \in Places(s) /\ u.list[i] = s.list[i + 1]
      BY <3>1, <2>1, <2>2 DEF Places
    <3> QED BY <3>2
  <2>3. CASE ~(s.list # <<>> /\ Head(s.list) = x)
    <3>1. u.list = s.list
      BY <2>3, <1>2, <1>4
    <3>2. Len(u.list) = Len(s.list) - 0
          /\ \A i \in Places(u) :
               i + 0 \in Places(s) /\ u.list[i] = s.list[i + 0]
      BY <3>1, <2>1 DEF Places
    <3> QED BY <3>1, <3>2, <2>1
  <2> QED BY <2>2, <2>3
<1>7. PICK k \in {0, 1} : /\ Len(u.list) = Len(s.list) - k
                          /\ \A i \in Places(u) :
                               i + k \in Places(s) /\ u.list[i] = s.list[i + k]
  BY <1>6
<1>8. EngineOK(u)
  <2>1. u.hw \in {"idle", "busy", "drain"}
    BY <1>1, <1>3, <1>4 DEF EngineOK
  <2> QED BY <2>1, <1>1, <1>3, <1>4, <1>5, <1>6 DEF EngineOK
<1>9. Ordered(u)
  <2> SUFFICES ASSUME NEW i \in Places(u), NEW j \in Places(u), i < j,
                      ReqOf(u.list[i]) = ReqOf(u.list[j])
               PROVE  u.list[i][3] < u.list[j][3]
    BY DEF Ordered
  <2>1. i + k < j + k
    BY DEF Places
  <2> QED BY <2>1, <1>1, <1>7 DEF Ordered
<1>10. Carved(u) /\ Engaged(u)
  <2>1. \A y \in Xfers : u.state[y] # "new" <=> s.state[y] # "new"
    BY <1>5
  <2> QED BY <2>1, <1>1, <1>3, <1>4 DEF Carved, Engaged, Reached
<1>16. Ringed(u)
  BY <1>1, <1>4 DEF Ringed, SlotsOf
<1>11. \A t : Through(u, t) = Through(s, t)
  <2>1. \A y : LastInRequest(u, y) = LastInRequest(s, y)
    BY <1>4 DEF LastInRequest
  <2>2. \A y \in Xfers : u.state[y] \in Over <=> s.state[y] \in Over
    BY <1>5 DEF Over
  <2> QED BY <2>1, <2>2 DEF Through
<1>12. Counted(u)
  BY <1>1, <1>4, <1>7, <1>11 DEF Counted
<1>13. Aborted(s, x, u)
  BY <1>2, <1>3, <1>4, <1>5 DEF Aborted
<1>15. Tallied(u)
  <2>1. s.dnum \in [Xfers -> 0 .. DescMax] /\ s.res \in [Aio -> Nat]
    BY <1>1 DEF EngineOK
  <2>2. \A y \in Xfers : s.state[y] = "completed" =>
          u.state[y] = "completed" /\ u.dnum[y] = s.dnum[y]
    BY <1>4, <1>5
  <2> QED BY <2>1, <2>2, <1>1, <1>4, TallyKept
<1>14. EngineInv(u)
  BY <1>8, <1>9, <1>10, <1>12, <1>15, <1>16 DEF EngineInv
<1> QED
  BY <1>13, <1>14 DEF u

-----------------------------------------------------------------------------
(* The invariant, and the actions that are no caller's.                    *)

(* As long as nothing freed is on the list the engine is fit to serve.     *)
LEMMA Alive == ASSUME CoreInv, ~Dangling PROVE Good(eng)
BY DEF CoreInv, Undangled, Dangling, Good, Live, Places

(* An engine fit to serve has nothing freed on its list.                   *)
LEMMA LiveNotDangling == ASSUME Good(eng') PROVE ~Dangling'
BY DEF Good, Live, Dangling, Places

(* A step that only serves the list keeps what is said of the engine and   *)
(* of the callers.                                                         *)
LEMMA Serving ==
  ASSUME CoreInv, Good(eng'), Serves(eng, eng'), UNCHANGED callVars
  PROVE  EngineInv(eng)' /\ Undangled(eng)' /\ CallInv' /\ StrandInv'
<1>1. CallInv'
  <2> SUFFICES ASSUME NEW t \in Tasks PROVE TaskInv(t)'
    BY DEF CallInv
  <2>1. Same(t)
    BY DEF Same, callVars
  <2>2. TypeOK /\ TaskInv(t) /\ Keeps(eng, eng', t)
    BY ServesKeeps DEF CoreInv, CallInv
  <2> QED BY <2>1, <2>2, OtherTask
<1>2. EngineInv(eng)' /\ Undangled(eng)'
  BY DEF Good, Live, Undangled
<1> QED
  BY <1>1, <1>2, LiveNotDangling DEF StrandInv

(* engine_service does not set a stopped engine going.                     *)
LEMMA StillStopped ==
  ASSUME NEW s, DOMAIN s = DOMAIN IdleEngine, ~s.running, NEW c, NEW werr,
         NEW u \in Service(s, c, werr)
  PROVE  ~u.running
<1>1. u = ReadStatus(s)
  BY DEF Service
<1> QED
  BY <1>1, Fields DEF ReadStatus

(* A step of the hardware, or of its interrupt, is one of these.           *)
LEMMA HwCases ==
  ASSUME Hardware
  PROVE  /\ ~Dangling /\ UNCHANGED scenario
         /\ UNCHANGED <<callVars, irqVars, devVars, pollVars>>
         /\ \/ HwMove
            \/ eng.hw = "busy" /\ HwFails
            \/ /\ eng.hw = "drain" /\ eng.ring[Reached(eng)] = NoXfer
               /\ eng' = [eng EXCEPT !.hw = "idle", !.irq = TRUE]
               /\ UNCHANGED upset
            \/ eng.hw \notin {"idle", "busy", "drain"}
         /\ HwFails \/ UNCHANGED upset
BY DEF Hardware, HwStep, HwMove, HwStarves, HwError, Defined

(* An error keeps the invariant of the engine.                             *)
LEMMA FailKeeps ==
  ASSUME TypeOK, NEW s, Good(s), s.hw = "busy"
  PROVE  /\ Good(Fail(s)) /\ Serves(s, Fail(s)) /\ Alike(s, Fail(s))
         /\ Fail(s).running = s.running
<1> DEFINE u == Fail(s)
<1>1. s.hx \in Xfers /\ EngineOK(s)
  BY DEF Good, EngineInv, Engaged
<1>2. scenario.poll \in BOOLEAN /\ 0 \in 0 .. DescMax
  BY ScenariosAssumption, SizesAssumption DEF TypeOK
<1>3. EngineOK(u)
  BY <1>1, <1>2, Fields DEF EngineOK, Fail
<1>4. Engaged(u) /\ Alike(s, u) /\ u.running = s.running
  BY <1>1, Fields DEF EngineOK, Engaged, Alike, Fail
<1> HIDE DEF u
<1>5. Good(u) /\ Serves(s, u)
  BY <1>3, <1>4, Untouched
<1> QED BY <1>4, <1>5 DEF u

(* The hardware keeps the invariant.                                       *)
LEMMA HwHolds ==
  ASSUME CoreInv, Hardware PROVE CoreInv'
<1>0. Good(eng) /\ EngineOK(eng) /\ TypeOK /\ OfflineInv
  BY Alive, HwCases DEF CoreInv, EngineInv
<1>1. /\ UNCHANGED <<callVars, irqVars, devVars, pollVars, scenario>>
      /\ UNCHANGED callVars
      /\ upset' \in [what : SUBSET Disturbances, forged : SUBSET Xfers]
      /\ upset.what \subseteq upset'.what
  <2>1. upset' = upset \/ Disturb("orphan")
    BY HwCases DEF HwFails
  <2>2. /\ upset' \in [what : SUBSET Disturbances, forged : SUBSET Xfers]
        /\ upset.what \subseteq upset'.what
    BY <1>0, <2>1 DEF Disturb, Disturbances, TypeOK
  <2> QED BY <2>2, HwCases
<1>2. Good(eng') /\ Serves(eng, eng') /\ (eng'.running <=> eng.running)
  <2>1. CASE HwMove
    <3>1. Good(eng') /\ Serves(eng, eng')
      BY <2>1, <1>0, AdvanceKeeps DEF HwMove
    <3>2. PICK y : eng' = Advance(eng, y)
      BY <2>1, <1>0, StepsAre DEF HwMove
    <3>3. Advance(eng, y).running = eng.running
      BY <1>0, Fields DEF Advance, EngineOK
    <3> QED BY <3>1, <3>2, <3>3
  <2>2. CASE eng.hw = "busy" /\ HwFails
    BY <2>2, <1>0, FailKeeps DEF HwFails
  <2>3. CASE eng' = [eng EXCEPT !.hw = "idle", !.irq = TRUE]
    <3> DEFINE u == [eng EXCEPT !.hw = "idle", !.irq = TRUE]
    <3>1. EngineOK(u) /\ Engaged(u) /\ Alike(eng, u)
          /\ u.running = eng.running
      BY <1>0, Fields DEF EngineOK, Engaged, Alike
    <3> HIDE DEF u
    <3>2. Good(u) /\ Serves(eng, u)
      BY <1>0, <3>1, Untouched
    <3> QED BY <2>3, <3>1, <3>2 DEF u
  <2>4. eng.hw \in {"idle", "busy", "drain"}
    BY <1>0 DEF EngineOK
  <2> QED BY <2>1, <2>2, <2>3, <2>4, HwCases
<1>3. EngineInv(eng)' /\ Undangled(eng)' /\ CallInv' /\ StrandInv'
  BY <1>1, <1>2, Serving
<1>4. TypeOK'
  BY <1>0, <1>1, <1>3 DEF TypeOK, EngineInv, callVars, irqVars, devVars,
     pollVars
<1>5. OfflineInv'
  BY <1>0, <1>1, <1>2 DEF OfflineInv, devVars
<1> QED
  BY <1>3, <1>4, <1>5 DEF CoreInv

(* The interrupt handler and its work item keep the invariant.             *)
LEMMA IrqHolds ==
  ASSUME CoreInv, Isr \/ ServiceWork PROVE CoreInv'
<1>0. Good(eng) /\ EngineOK(eng) /\ TypeOK /\ OfflineInv
  BY Alive DEF CoreInv, EngineInv, Isr, ServiceWork, Defined
<1>1. /\ UNCHANGED <<callVars, devVars, pollVars, upset, scenario>>
      /\ UNCHANGED callVars
      /\ irq_on' \in BOOLEAN /\ handler' \in BOOLEAN /\ work' \in BOOLEAN
  BY <1>0 DEF Isr, ServiceWork, Defined, callVars, TypeOK
<1>2. Good(eng') /\ Serves(eng, eng') /\ (eng'.running => eng.running)
  <2>1. CASE Isr
    BY <2>1, <1>0, ServesRefl DEF Isr
  <2>2. CASE ServiceWork
    BY <2>2, <1>0, ServiceKeeps, StillStopped DEF ServiceWork, EngineOK
  <2> QED BY <2>1, <2>2
<1>3. EngineInv(eng)' /\ Undangled(eng)' /\ CallInv' /\ StrandInv'
  BY <1>1, <1>2, Serving
<1>4. TypeOK'
  BY <1>0, <1>1, <1>3 DEF TypeOK, EngineInv, callVars, devVars, pollVars
<1>5. OfflineInv'
  BY <1>0, <1>1, <1>2 DEF OfflineInv, devVars
<1> QED
  BY <1>3, <1>4, <1>5 DEF CoreInv

(* The polling thread keeps the invariant.                                 *)
LEMMA PollHolds ==
  ASSUME CoreInv, Poll PROVE CoreInv'
<1>0. Good(eng) /\ EngineOK(eng) /\ TypeOK /\ OfflineInv
  BY Alive DEF CoreInv, EngineInv, Poll, PollBegin, PollRead, PollMonitor,
     PollGivesUp, Defined
<1>1. /\ UNCHANGED <<callVars, irqVars, devVars, scenario>>
      /\ UNCHANGED callVars
  BY DEF Poll, PollBegin, PollRead, PollMonitor, PollGivesUp, Defined, callVars
<1>2. Good(eng') /\ Serves(eng, eng') /\ (eng'.running => eng.running)
  <2>1. CASE eng' = eng
    BY <2>1, <1>0, ServesRefl
  <2>2. CASE PollMonitor
    <3> DEFINE s == [eng EXCEPT !.wb = 0, !.wberr = FALSE]
    <3>1. eng' = s \/ eng' \in Service(s, eng.wb, eng.wberr)
      BY <2>2 DEF PollMonitor
    <3>2. 0 \in 0 .. DescMax
      BY SizesAssumption
    <3>3. EngineOK(s) /\ Engaged(s) /\ Alike(eng, s) /\ s.running = eng.running
      BY <1>0, <3>2, Fields
         DEF EngineOK, Engaged, Reached, Alike, Good, EngineInv
    <3> HIDE DEF s
    <3>4. Good(s) /\ Serves(eng, s)
      BY <1>0, <3>3, Untouched
    <3> QED BY <3>1, <3>3, <3>4, ServiceKeeps, ServesTrans,
            StillStopped DEF EngineOK
  <2> QED BY <2>1, <2>2 DEF Poll, PollBegin, PollRead, PollGivesUp
<1>3. EngineInv(eng)' /\ Undangled(eng)' /\ CallInv' /\ StrandInv'
  BY <1>1, <1>2, Serving
<1>4. /\ ppc' \in {"idle", "read", "monitor"} /\ expect' \in 0 .. DescMax + 1
      /\ woken' \in BOOLEAN
      /\ upset' \in [what : SUBSET Disturbances, forged : SUBSET Xfers]
      /\ upset.what \subseteq upset'.what
  <2>1. CASE PollBegin
    BY <2>1, <1>0 DEF PollBegin, TypeOK
  <2>2. CASE PollRead
    <3>1. expect' \in 0 .. DescMax + 1
      <4>1. CASE eng.list = <<>>
        BY <4>1, <2>2 DEF PollRead
      <4>2. CASE eng.list # <<>>
        <5>1. Head(eng.list) \in Xfers
          BY <4>2, <1>0 DEF EngineOK
        <5>2. eng.dnum[Head(eng.list)] \in 0 .. DescMax /\ DescMax \in Nat
          BY <5>1, <1>0, SizesAssumption DEF EngineOK
        <5> QED BY <4>2, <5>2, <2>2 DEF PollRead
      <4> QED BY <4>1, <4>2
    <3> QED BY <3>1, <2>2, <1>0 DEF PollRead, Disturbances, TypeOK
  <2>3. CASE PollMonitor
    BY <2>3, <1>0 DEF PollMonitor, TypeOK
  <2>4. CASE PollGivesUp
    BY <2>4, <1>0 DEF PollGivesUp, TypeOK
  <2> QED BY <2>1, <2>2, <2>3, <2>4 DEF Poll
<1>5. TypeOK'
  BY <1>0, <1>1, <1>3, <1>4 DEF TypeOK, EngineInv, callVars, devVars, irqVars
<1>6. OfflineInv'
  BY <1>0, <1>1, <1>2, <1>4 DEF OfflineInv, devVars
<1> QED
  BY <1>3, <1>5, <1>6 DEF CoreInv

(* Taking the device offline and online keeps the invariant.               *)
LEMMA DeviceHolds ==
  ASSUME CoreInv, Device PROVE CoreInv'
<1> USE DEF Device, OfflineFlag, OfflineEngine, OfflineIrqs, OnlineEngine,
   OnlineIrqs
<1>0. Good(eng) /\ EngineOK(eng) /\ TypeOK /\ OfflineInv
  BY Alive DEF CoreInv, EngineInv, Defined
<1>1. /\ UNCHANGED <<callVars, pollVars, scenario>>
      /\ UNCHANGED callVars
  BY DEF Defined, callVars
<1>2. Good(eng') /\ Serves(eng, eng') /\ (eng'.running => eng.running)
      /\ (OfflineEngine => ~eng'.running)
  <2>1. CASE eng' = eng /\ ~OfflineEngine
    BY <2>1, <1>0, ServesRefl
  <2>2. CASE OfflineEngine
    <3> DEFINE s == [eng EXCEPT !.request = TRUE]
    <3>1. eng' = Stop(s)
      BY <2>2
    <3>2. EngineOK(s) /\ Engaged(s) /\ Alike(eng, s)
      BY <1>0, Fields
         DEF EngineOK, Engaged, Reached, Alike, Good, EngineInv
    <3> HIDE DEF s
    <3>3. Good(s) /\ Serves(eng, s)
      BY <1>0, <3>2, Untouched
    <3>4. ~Stop(s).running
      BY <3>2, Fields DEF Stop, EngineOK
    <3> QED BY <3>1, <3>3, <3>4, StopKeeps, ServesTrans
  <2>3. CASE OnlineEngine
    <3> DEFINE s == [eng EXCEPT !.request = FALSE, !.wb = 0, !.wberr = FALSE]
    <3>1. eng' = s
      BY <2>3
    <3>2. 0 \in 0 .. DescMax
      BY SizesAssumption
    <3>3. EngineOK(s) /\ Engaged(s) /\ Alike(eng, s) /\ s.running = eng.running
      BY <1>0, <3>2, Fields
         DEF EngineOK, Engaged, Reached, Alike, Good, EngineInv
    <3>4. ~OfflineEngine
      BY <2>3
    <3> HIDE DEF s
    <3> QED BY <1>0, <3>1, <3>3, <3>4, Untouched
  <2>4. eng' = eng \/ OfflineEngine \/ OnlineEngine
    OBVIOUS
  <2> QED BY <2>1, <2>2, <2>3, <2>4
<1>3. EngineInv(eng)' /\ Undangled(eng)' /\ CallInv' /\ StrandInv'
  BY <1>1, <1>2, Serving
<1>4. /\ irq_on' \in BOOLEAN /\ handler' \in BOOLEAN /\ work' \in BOOLEAN
      /\ offline' \in BOOLEAN
      /\ phase' \in {"on", "flagged", "stopped", "off", "regs"}
      /\ offlines' \in 0 .. MaxOffline
      /\ upset' \in [what : SUBSET Disturbances, forged : SUBSET Xfers]
      /\ upset.what \subseteq upset'.what
      /\ OfflineEngine => "offline" \in upset'.what
  <2>1. scenario.poll \in BOOLEAN
    BY <1>0, ScenariosAssumption DEF TypeOK
  <2>2. offlines' \in 0 .. MaxOffline
    BY <1>0, SizesAssumption DEF TypeOK, devVars
  <2>3. irq_on' \in BOOLEAN /\ handler' \in BOOLEAN /\ work' \in BOOLEAN
    BY <2>1, <1>0 DEF TypeOK, irqVars
  <2>4. /\ offline' \in BOOLEAN
        /\ phase' \in {"on", "flagged", "stopped", "off", "regs"}
    BY <1>0 DEF TypeOK, devVars
  <2>5. upset' = upset \/ (OfflineEngine /\ Disturb("offline"))
    OBVIOUS
  <2>6. /\ upset' \in [what : SUBSET Disturbances, forged : SUBSET Xfers]
        /\ upset.what \subseteq upset'.what
        /\ OfflineEngine => "offline" \in upset'.what
    BY <2>5, <1>0 DEF TypeOK, Disturb, Disturbances
  <2> QED BY <2>2, <2>3, <2>4, <2>6
<1>5. TypeOK'
  BY <1>0, <1>1, <1>3, <1>4 DEF TypeOK, EngineInv, callVars, pollVars
<1>6. OfflineInv'
  BY <1>0, <1>2, <1>4 DEF OfflineInv, devVars, irqVars
<1> QED
  BY <1>3, <1>5, <1>6 DEF CoreInv

-----------------------------------------------------------------------------
(* The actions of callers.                                                 *)

(* The other callers' locals stay, their transfers are only served.        *)
Others(t) == \A q \in Tasks \ {t} : Same(q) /\ Keeps(eng, eng', q)

(* What a caller's step has to show.                                       *)
LEMMA CallerHolds ==
  ASSUME CoreInv, NEW t \in Tasks, TaskInv(t)', Others(t), EngineInv(eng)',
         Undangled(eng)', StrandInv', TypeOK', UNCHANGED devVars,
         phase \in {"stopped", "off"} => ~eng'.running,
         upset.what \subseteq upset'.what
  PROVE  CoreInv'
<1>1. CallInv'
  <2> SUFFICES ASSUME NEW q \in Tasks PROVE TaskInv(q)'
    BY DEF CallInv
  <2>1. CASE q = t
    BY <2>1
  <2>2. CASE q # t
    BY <2>2, OtherTask DEF Others, CoreInv, CallInv
  <2> QED BY <2>1, <2>2
<1>2. OfflineInv'
  BY DEF CoreInv, OfflineInv, devVars
<1> QED
  BY <1>1, <1>2 DEF CoreInv

(* A step that only moves a caller. *)
Moves(t) ==
  /\ eng' = eng /\ UNCHANGED <<devVars, scenario>>
  /\ UNCHANGED <<seg, chunk, left, got>>
  /\ \A q \in Tasks \ {t} : pc'[q] = pc[q]
  /\ pc[t] # "done"

(* Such a step does not concern the other callers.                         *)
LEMMA MovesOthers == ASSUME NEW t \in Tasks, Moves(t) PROVE Others(t)
BY DEF Moves, Others, Same, Keeps

(* What it has to show of the caller itself.                               *)
LEMMA MovesTask ==
  ASSUME TypeOK, NEW t \in Tasks, TaskInv(t), Moves(t),
         Pending(t)' => Pending(t),
         pc'[t] \in {"idle", "lock", "build"} =>
           pc[t] \in {"idle", "lock", "build"},
         pc'[t] = "build" => left[t] >= 1 /\ chunk[t] + left[t] <= Need[t] + 1,
         Carving(t)' => Carving(t),
         t \in Sync => SyncPlace(t)', t \in Aio => AioPlace(t)'
  PROVE  TaskInv(t)'
<1>1. \A x \in Xfers : x[1] = t /\ Ahead(x)' => eng'.state[x] = "new"
  BY DEF Moves, Ahead, TaskInv
<1>2. \A r \in eng'.freed : r[1] = t => r[2] < seg'[t] \/ pc'[t] = "done"
  BY DEF Moves, TaskInv
<1>3. Carving(t)' => chunk'[t] + left'[t] <= Need[t] /\ eng'.dnum[Cur(t)'] >= 1
  BY DEF Moves, TaskInv, Cur
<1>4. \A x \in Xfers : x[1] = t /\ Uncarved(x)' => eng'.dnum[x] = 0
  BY DEF Moves, Uncarved, TaskInv
<1> QED
  BY <1>1, <1>2, <1>3, <1>4 DEF TaskInv, Moves

(* It keeps the invariant.                                                 *)
LEMMA MovesHold ==
  ASSUME CoreInv, ~Dangling, NEW t \in Tasks, Moves(t), TaskInv(t)', TypeOK',
         upset.what \subseteq upset'.what
  PROVE  CoreInv'
<1>1. Others(t)
  BY MovesOthers
<1>2. EngineInv(eng)' /\ Undangled(eng)' /\ ~Dangling' /\ StrandInv'
  BY DEF Moves, CoreInv, StrandInv, Dangling, Places
<1>3. UNCHANGED devVars /\ (phase \in {"stopped", "off"} => ~eng'.running)
  BY DEF Moves, CoreInv, OfflineInv
<1> QED
  BY <1>1, <1>2, <1>3, CallerHolds

(* The steps of read() and write() that do not touch the engine keep the   *)
(* invariant.                                                              *)
LEMMA SyncMovesHold ==
  ASSUME CoreInv, NEW t \in Sync,
         SyncCall(t) \/ SyncLock(t) \/ SyncWakePoll(t) \/ SyncWake(t)
         \/ SyncTimeout(t)
  PROVE  CoreInv'
<1> USE DEF SyncCall, SyncLock, SyncWakePoll, SyncWake, SyncTimeout
<1>1. /\ TypeOK /\ t \in Tasks /\ TaskInv(t) /\ SyncPlace(t) /\ ~Dangling
      /\ t \notin Aio
      /\ pc \in [Tasks -> {"idle", "lock", "build", "queue", "wakeup", "wait",
                       "check", "done"}]
  BY TasksAssumption DEF CoreInv, CallInv, TaskInv, Tasks, Defined, TypeOK
<1>2. Moves(t)
  BY <1>1 DEF Moves, Defined
<1>3. /\ pc'[t] \in {"lock", "build", "wait", "check", "done"}
      /\ pc' \in [Tasks -> {"idle", "lock", "build", "queue", "wakeup", "wait",
                       "check", "done"}]
      /\ pc'[t] = "lock" => pc[t] = "idle"
      /\ pc'[t] = "build" => pc[t] = "lock"
      /\ pc'[t] \in {"wait", "check"} => pc[t] \in {"wakeup", "wait"}
      /\ pc'[t] = "check" => pc[t] = "wait"
  BY <1>1
<1>4. TypeOK'
  <2>1. ret' \in [Tasks -> {"none", "busy", "error", "restart", "bytes"}]
    BY <1>1 DEF TypeOK
  <2>2. desc_lock' \subseteq Sync /\ woken' \in BOOLEAN
    BY <1>1 DEF TypeOK, pollVars
  <2>3. UNCHANGED <<eng, scenario, seg, chunk, left, got, irqVars, devVars,
            ppc, expect, upset>>
    BY DEF Defined, pollVars
  <2> QED BY <1>1, <1>3, <2>1, <2>2, <2>3 DEF TypeOK, irqVars, devVars
<1>5. SyncPlace(t)'
  <2>1. Cur(t)' = Cur(t)
    BY <1>2 DEF Moves, Cur
  <2>2. Carving(t)' => Carving(t) /\ pc[t] # "queue"
    BY <1>3 DEF Carving
  <2>3. eng' = eng /\ chunk' = chunk /\ left' = left /\ got' = got
    BY <1>2 DEF Moves
  <2>4. pc'[t] # "idle" /\ (pc'[t] = "lock" =>
          chunk[t] = 1 /\ left[t] = Need[t] /\ got[t] = 0)
    BY <1>1, <1>3 DEF SyncPlace
  <2>5. pc'[t] = "build" => got[t] + left[t] = Need[t]
    <3>1. left[t] \in Nat
      BY <1>1, TaskTypes
    <3> QED BY <3>1, <1>1, <1>3 DEF SyncPlace
  <2>6. /\ Carving(t)' => /\ got[t] + left[t] + eng.dnum[Cur(t)] = Need[t]
                          /\ eng.state[Cur(t)] # "new"
        /\ \A i \in 1 .. chunk[t] - 1 : eng.state[<<t, 1, i>>] # "submitted"
    BY <1>1, <2>2 DEF SyncPlace
  <2>7. got'[t] <= Cardinality(Descs(CallTold(t)', eng'.dnum))
    <3>1. pc[t] # "done"
      BY <1>1
    <3>2. \A x \in CallTold(t) :
            x \in CallTold(t)' /\ eng'.dnum[x] = eng.dnum[x]
      BY <3>1, <2>3 DEF CallTold
    <3>3. \A x \in XfersOf(t) : eng'.dnum[x] \in 0 .. DescMax
      BY <1>1, <2>3 DEF XfersOf, TypeOK, EngineOK
    <3>4. got[t] <= Cardinality(Descs(CallTold(t), eng.dnum))
          /\ got'[t] = got[t]
      BY <1>1, <2>3 DEF SyncPlace
    <3> QED BY <1>1, <3>2, <3>3, <3>4, CallToldKept
  <2> HIDE DEF SyncCall, SyncLock, SyncWakePoll, SyncWake, SyncTimeout
  <2> QED BY <2>1, <2>3, <2>4, <2>5, <2>6, <2>7 DEF SyncPlace
<1>6. TaskInv(t)'
  <2>1. Pending(t)' => Pending(t)
    BY <1>3 DEF Pending
  <2>2. Carving(t)' => Carving(t)
    BY <1>3 DEF Carving
  <2>3. pc'[t] = "build" => left[t] >= 1 /\ chunk[t] + left[t] <= Need[t] + 1
    BY <1>1, <1>3, TaskTypes DEF SyncPlace
  <2>4. pc'[t] \in {"idle", "lock", "build"} =>
          pc[t] \in {"idle", "lock", "build"}
    BY <1>3
  <2> QED BY <1>1, <1>2, <1>5, <2>1, <2>2, <2>3, <2>4, MovesTask
<1>7. upset' = upset
  BY DEF pollVars
<1> QED
  BY <1>1, <1>2, <1>4, <1>6, <1>7, MovesHold

(* The next segment of an iocb: all that is said of its first chunk holds. *)
LEMMA NextSegTask ==
  ASSUME TypeOK, NEW t \in Aio, TaskInv(t), pc[t] # "done",
         NextSeg(t),
         \/ eng'.state = eng.state
         \/ \A x \in Xfers :
              x[1] = t /\ x[2] > seg[t] => eng'.state[x] = eng.state[x],
         eng'.dnum = eng.dnum,
         eng'.freed \subseteq Reqs,
         \A r \in eng'.freed : r[1] = t => r[2] <= seg[t]
  PROVE  /\ TaskInv(t)' /\ seg'[t] \in 1 .. Segs[t]
         /\ pc' \in [Tasks -> {"idle", "lock", "build", "queue", "wakeup",
                               "wait", "check", "done"}]
         /\ {seg', chunk', left'} \subseteq [Tasks -> Nat]
         /\ chunk'[t] = 1 /\ left'[t] = Need[t]
         /\ woken' = (woken \/ (scenario.poll /\ seg[t] = Segs[t]))
         /\ \A q \in Tasks \ {t} :
              pc'[q] = pc[q] /\ seg'[q] = seg[q] /\ chunk'[q] = chunk[q]
              /\ left'[q] = left[q]
<1>0. t \in Tasks /\ t \notin Sync
  BY TasksAssumption DEF Tasks
<1>1. /\ seg[t] \in Nat /\ seg[t] \in 1 .. Segs[t] /\ Need[t] \in Nat \ {0}
      /\ Segs[t] \in Nat
      /\ {seg, chunk, left} \subseteq [Tasks -> Nat]
      /\ pc \in [Tasks -> {"idle", "lock", "build", "queue", "wakeup", "wait",
                       "check", "done"}]
  BY <1>0, TaskTypes DEF TypeOK
<1>2. /\ seg'
           = IF seg[t] < Segs[t] THEN [seg EXCEPT ![t] = seg[t] + 1] ELSE seg
      /\ pc' = [pc EXCEPT ![t] = IF seg[t] < Segs[t] THEN "idle" ELSE "done"]
      /\ chunk' = [chunk EXCEPT ![t] = 1]
      /\ left' = [left EXCEPT ![t] = Need[t]]
  BY <1>1 DEF NextSeg
<1>3. /\ seg' \in [Tasks -> Nat] /\ chunk' \in [Tasks -> Nat]
      /\ left' \in [Tasks -> Nat]
      /\ pc' \in [Tasks -> {"idle", "lock", "build", "queue", "wakeup", "wait",
                       "check", "done"}]
      /\ chunk'[t] = 1 /\ left'[t] = Need[t] /\ seg'[t] \in 1 .. Segs[t]
      /\ pc'[t] \in {"idle", "done"}
      /\ pc'[t] = "idle" => seg'[t] = seg[t] + 1
      /\ \A q \in Tasks \ {t} :
           pc'[q] = pc[q] /\ seg'[q] = seg[q] /\ chunk'[q] = chunk[q]
           /\ left'[q] = left[q]
  BY <1>0, <1>1, <1>2
<1>4. \A x \in Xfers : x[1] = t /\ Ahead(x)' => eng'.state[x] = "new"
  <2> SUFFICES ASSUME NEW x \in Xfers, x[1] = t, Ahead(x)'
               PROVE  eng'.state[x] = "new"
    OBVIOUS
  <2>1. pc'[t] = "idle" /\ x[2] >= seg[t] + 1 /\ x[2] \in Nat
    BY <1>1, <1>3, XferType, SizesAssumption DEF Ahead
  <2>2. x[2] > seg[t]
    BY <2>1, <1>1
  <2>3. Ahead(x)
    BY <2>2 DEF Ahead
  <2> QED BY <2>2, <2>3 DEF TaskInv
<1>5. \A r \in eng'.freed : r[1] = t => r[2] < seg'[t] \/ pc'[t] = "done"
  <2> SUFFICES ASSUME NEW r \in eng'.freed, r[1] = t, pc'[t] # "done"
               PROVE  r[2] < seg'[t]
    OBVIOUS
  <2>1. r[2] <= seg[t] /\ seg'[t] = seg[t] + 1
    BY <1>3
  <2>2. r[2] \in Nat
    BY <1>0, IsReq, SizesAssumption
  <2> QED BY <2>1, <2>2, <1>1
<1>6. AioPlace(t)'
  BY <1>3 DEF AioPlace
<1>8. \A x \in Xfers : x[1] = t /\ Uncarved(x)' => eng'.dnum[x] = 0
  <2> SUFFICES ASSUME NEW x \in Xfers, x[1] = t, Uncarved(x)'
               PROVE  eng'.dnum[x] = 0
    OBVIOUS
  <2>1. pc'[t] = "idle" /\ x[2] >= seg[t] + 1 /\ x[2] \in Nat
    BY <1>1, <1>3, XferType, SizesAssumption DEF Uncarved
  <2>2. Uncarved(x)
    BY <2>1, <1>1 DEF Uncarved
  <2> QED BY <2>2 DEF TaskInv
<1>7. TaskInv(t)'
  BY <1>0, <1>3, <1>4, <1>5, <1>6, <1>8 DEF TaskInv, Carving
<1> QED
  BY <1>3, <1>7 DEF NextSeg

(* The chunk a caller is about to queue, and those after it, are new and   *)
(* its request was not freed.                                              *)
LEMMA UnqueuedCur ==
  ASSUME TypeOK, NEW t \in Tasks, TaskInv(t), pc[t] \in {"build", "queue"}
  PROVE  Unqueued(eng, Cur(t)) /\ ReqOf(Cur(t)) = <<t, seg[t]>>
         /\ ReqOf(Cur(t)) \notin eng.freed
<1>1. Cur(t)[1] = t /\ Cur(t)[2] = seg[t] /\ Cur(t)[3] = chunk[t]
      /\ ReqOf(Cur(t)) = <<t, seg[t]>> /\ seg[t] \in Nat /\ chunk[t] \in Nat
  BY TaskTypes DEF Cur, ReqOf
<1>2. ASSUME NEW y \in Xfers, ReqOf(y) = ReqOf(Cur(t)), y[3] >= chunk[t]
      PROVE  eng.state[y] = "new"
  <2>1. y[1] = t /\ y[2] = seg[t] /\ y[3] \in Nat
    <3>1. ReqOf(y)[1] = y[1] /\ ReqOf(y)[2] = y[2] /\ y[3] \in Nat
      BY XferType, SizesAssumption
    <3> QED BY <3>1, <1>1, <1>2
  <2>2. Ahead(y)
    BY <2>1, <1>1, <1>2 DEF Ahead, Pending
  <2> QED BY <2>1, <2>2 DEF TaskInv
<1>3. ReqOf(Cur(t)) \notin eng.freed
  <2> SUFFICES ASSUME ReqOf(Cur(t)) \in eng.freed PROVE FALSE
    OBVIOUS
  <2>1. ReqOf(Cur(t))[1] = t /\ ReqOf(Cur(t))[2] = seg[t]
    BY <1>1
  <2> QED BY <2>1, <1>1 DEF TaskInv
<1> QED
  BY <1>1, <1>2, <1>3 DEF Unqueued

(* Carving a chunk keeps the invariant.                                    *)
LEMMA BuildHolds ==
  ASSUME CoreInv, NEW t \in Tasks, Build(t) PROVE CoreInv'
<1>1. /\ TypeOK /\ TaskInv(t) /\ Good(eng) /\ pc[t] = "build"
      /\ t \in Aio => chunk[t] <= 2
  BY Alive DEF CoreInv, CallInv, Build, Defined
<1> DEFINE x == Cur(t)
           n == left[t]
           d == ChunkSize(eng, n)
<1>2. /\ seg[t] \in Nat /\ chunk[t] \in Nat /\ chunk[t] \in 1 .. Need[t]
      /\ n \in Nat \ {0} /\ got[t] \in Nat
      /\ Need[t] \in Nat /\ n <= Need[t] /\ chunk[t] + n <= Need[t] + 1
      /\ x \in Xfers /\ First(t) \in Xfers
      /\ eng.dnum[First(t)] \in Nat
      /\ left \in [Tasks -> Nat]
  BY <1>1, TaskTypes DEF TaskInv, TypeOK
<1>3. Unqueued(eng, x) /\ eng.dnum[x] = 0
  <2>1. Uncarved(x) /\ x[1] = t
    BY <1>1 DEF Uncarved, Cur
  <2> QED BY <2>1, <1>1, <1>2, UnqueuedCur DEF TaskInv
<1>4. eng' = Carve(eng, x, n) /\ left' = [left EXCEPT ![t] = @ - d]
      /\ pc' = [pc EXCEPT ![t] = "queue"]
      /\ UNCHANGED <<seg, chunk, got, ret, desc_lock, irqVars, devVars,
                 pollVars, scenario>>
  BY DEF Build, Defined
<1>13. /\ upset' \in [what : SUBSET Disturbances, forged : SUBSET Xfers]
       /\ upset.what \subseteq upset'.what
  <2>1. upset' = upset \/ Disturb("overrun")
    BY DEF Build
  <2> QED BY <2>1, <1>1 DEF TypeOK, Disturb, Disturbances
<1> HIDE DEF x, n
<1>14. Good(eng') /\ d \in 1 .. n /\ CarvedOut(eng, x, n, eng')
  BY <1>1, <1>2, <1>3, <1>4, CarveKeeps
<1>5. /\ Good(eng') /\ d \in 1 .. n
      /\ eng'.dnum[x] = d
      /\ \A y \in Xfers : y # x => eng'.dnum[y] = eng.dnum[y]
      /\ eng'.state = eng.state /\ eng'.freed = eng.freed
      /\ eng'.list = eng.list
  BY <1>14 DEF CarvedOut
<1> HIDE DEF d
<1>6. /\ left'[t] = n - d /\ left'[t] \in Nat /\ left'[t] <= Need[t]
      /\ chunk[t] + left'[t] <= Need[t]
      /\ left' \in [Tasks -> Nat]
      /\ \A q \in Tasks \ {t} : left'[q] = left[q]
      /\ pc'[t] = "queue" /\ \A q \in Tasks \ {t} : pc'[q] = pc[q]
      /\ pc' \in [Tasks -> {"idle", "lock", "build", "queue", "wakeup", "wait",
                       "check", "done"}]
  BY <1>1, <1>2, <1>4, <1>5 DEF TypeOK, n
<1>7. x[1] = t /\ Cur(t)' = x /\ First(t)' = First(t)
      /\ (chunk[t] # 1 => First(t) # x)
      /\ (chunk[t] = 1 => First(t) = x)
  BY <1>4 DEF x, Cur, First
<1>8. Others(t)
  BY <1>4, <1>5, <1>6, <1>7 DEF Others, Same, Keeps
<1>9. TypeOK'
  BY <1>1, <1>4, <1>5, <1>6, <1>13
     DEF TypeOK, Good, EngineInv, irqVars, devVars, pollVars
<1>10. TaskInv(t)'
  <2>1. \A y \in Xfers : y[1] = t /\ Ahead(y)' => eng'.state[y] = "new"
    BY <1>1, <1>4, <1>5, <1>6 DEF Ahead, Pending, TaskInv
  <2>2. \A r \in eng'.freed : r[1] = t => r[2] < seg'[t] \/ pc'[t] = "done"
    BY <1>1, <1>4, <1>5 DEF TaskInv
  <2>3. chunk'[t] + left'[t] <= Need[t] /\ eng'.dnum[Cur(t)'] >= 1
    BY <1>2, <1>4, <1>5, <1>6, <1>7
  <2>4. ASSUME t \in Sync PROVE SyncPlace(t)'
    <3>1. SyncPlace(t)
      BY <2>4, <1>1 DEF TaskInv
    <3>2. got[t] + n = Need[t]
      BY <3>1, <1>1 DEF SyncPlace, n
    <3>3. got'[t] + left'[t] + eng'.dnum[Cur(t)'] = Need[t]
      BY <3>2, <1>2, <1>4, <1>5, <1>6, <1>7
    <3>4. \A i \in 1 .. chunk'[t] - 1 : eng'.state[<<t, 1, i>>] # "submitted"
      BY <3>1, <1>4, <1>5 DEF SyncPlace
    <3>5. got'[t] <= Cardinality(Descs(CallTold(t)', eng'.dnum))
      <4>1. \A y \in CallTold(t) :
              y \in CallTold(t)' /\ eng'.dnum[y] = eng.dnum[y]
        <5> SUFFICES ASSUME NEW y \in CallTold(t)
                     PROVE  y \in CallTold(t)' /\ eng'.dnum[y] = eng.dnum[y]
          OBVIOUS
        <5>1. y \in XfersOf(t) /\ eng.state[y] = "completed"
              /\ y[3] < chunk[t] /\ y \in Xfers
          BY <1>1 DEF CallTold, XfersOf
        <5>2. y # x
          BY <5>1, <1>2 DEF x, Cur
        <5>3. eng'.state[y] = "completed" /\ chunk' = chunk
          BY <5>1, <1>4, <1>5
        <5> QED BY <5>1, <5>2, <5>3, <1>5 DEF CallTold
      <4>2. \A y \in XfersOf(t) : eng'.dnum[y] \in 0 .. DescMax
        BY <1>5 DEF XfersOf, Good, EngineInv, EngineOK
      <4>3. got[t] <= Cardinality(Descs(CallTold(t), eng.dnum))
            /\ got'[t] = got[t]
        BY <3>1, <1>4 DEF SyncPlace
      <4> QED BY <1>1, <4>1, <4>2, <4>3, CallToldKept
    <3> QED BY <3>3, <3>4, <3>5, <1>6 DEF SyncPlace
  <2>5. ASSUME t \in Aio PROVE AioPlace(t)'
    <3>1. AioPlace(t) /\ chunk[t] <= 2 /\ chunk[t] # 0
      BY <2>5, <1>1, <1>2 DEF TaskInv
    <3>2. CASE chunk[t] = 1
      <4>1. n = Need[t]
        BY <3>1, <3>2, <1>1 DEF AioPlace, n
      <4>2. eng'.dnum[Cur(t)'] + left'[t] = Need[t]
        BY <4>1, <1>2, <1>5, <1>6, <1>7
      <4> QED BY <4>2, <3>2, <1>4, <1>6 DEF AioPlace
    <3>3. CASE chunk[t] = 2
      <4>1. eng.dnum[First(t)] + n = Need[t] /\ eng.dnum[First(t)] >= 1
        BY <3>1, <3>3, <1>1 DEF AioPlace, n
      <4>2. eng'.dnum[First(t)'] = eng.dnum[First(t)]
        BY <3>3, <1>2, <1>5, <1>7
      <4>3. eng'.dnum[First(t)'] + eng'.dnum[Cur(t)'] + left'[t] = Need[t]
        BY <4>1, <4>2, <1>2, <1>5, <1>6, <1>7
      <4> QED BY <4>1, <4>2, <4>3, <3>3, <1>4, <1>6 DEF AioPlace
    <3> QED BY <3>1, <3>2, <3>3, <1>2
  <2>6. \A y \in Xfers : y[1] = t /\ Uncarved(y)' => eng'.dnum[y] = 0
    <3> SUFFICES ASSUME NEW y \in Xfers, y[1] = t, Uncarved(y)'
                 PROVE  eng'.dnum[y] = 0
      OBVIOUS
    <3>1. Uncarved(y) /\ (y[2] > seg[t] \/ y[3] > chunk[t])
      BY <1>1, <1>4, <1>6 DEF Uncarved
    <3>2. y # x
      BY <3>1, <1>2 DEF x, Cur
    <3> QED BY <3>1, <3>2, <1>1, <1>5 DEF TaskInv
  <2> QED BY <2>1, <2>2, <2>3, <2>4, <2>5, <2>6, <1>6 DEF TaskInv
<1>11. EngineInv(eng)' /\ Undangled(eng)' /\ StrandInv'
  BY <1>5, LiveNotDangling DEF Good, Live, Undangled, StrandInv
<1>12. phase \in {"stopped", "off"} => ~eng'.running
  <2>1. eng'.running = eng.running
    BY <1>14, Fields DEF CarvedOut
  <2> QED BY <2>1 DEF CoreInv, OfflineInv
<1> QED
  BY <1>4, <1>8, <1>9, <1>10, <1>11, <1>12, <1>13, CallerHolds

(* The types of pc and ret.                                                *)
PcType == [Tasks -> {"idle", "lock", "build", "queue", "wakeup", "wait",
                       "check", "done"}]
RetType == [Tasks -> {"none", "busy", "error", "restart", "bytes"}]

(* The chunks before the present one are off the list.                     *)
Left(t) == \A i \in 1 .. chunk[t] - 1 : eng.state[<<t, 1, i>>] # "submitted"

(* What Finish and ChunkDone leave to the frames of their callers. *)
Aside == UNCHANGED <<seg, left, irqVars, devVars, pollVars, scenario>>

(* The history variable keeps its type and only grows.                     *)
Upset ==
  /\ upset' \in [what : SUBSET Disturbances, forged : SUBSET Xfers]
  /\ upset.what \subseteq upset'.what

(* The chunks of a caller that the engine completed.                       *)
DoneOf(s, t) == {x \in XfersOf(t) : s.state[x] = "completed"}

(* What a call counts as moved is still of completed chunks when the list  *)
(* was served.                                                             *)
LEMMA StillTold ==
  ASSUME TypeOK, NEW t \in Sync, TaskInv(t), NEW s, s.dnum = eng.dnum,
         \A x \in XfersOf(t) :
           eng.state[x] = "completed" => s.state[x] = "completed"
  PROVE  got[t] <= Cardinality(Descs(DoneOf(s, t), s.dnum))
<1> DEFINE X == CallTold(t)
           Y == DoneOf(s, t)
           d == eng.dnum
<1>1. X \in SUBSET Y /\ Y \in SUBSET XfersOf(t) /\ X \in SUBSET XfersOf(t)
      /\ XfersOf(t) \subseteq Xfers /\ t \in Tasks
  BY DEF CallTold, XfersOf, DoneOf, Tasks
<1>2. d \in [Xfers -> 0 .. DescMax] /\ got[t] \in Nat
  BY <1>1 DEF TypeOK, EngineOK
<1>3. got[t] <= Cardinality(Descs(X, d))
  BY DEF TaskInv, SyncPlace
<1> HIDE DEF X, Y, d
<1>4. \A x \in Y : d[x] \in 0 .. DescMax /\ d[x] \in Nat /\ d[x] <= d[x]
  <2> SUFFICES ASSUME NEW x \in Y PROVE d[x] \in 0 .. DescMax
    BY SizesAssumption
  <2> QED BY <1>1, <1>2
<1>5. Cardinality(Descs(X, d)) <= Cardinality(Descs(Y, d))
  BY <1>1, <1>4, DescsMore
<1>6. Cardinality(Descs(X, d)) \in Nat /\ Cardinality(Descs(Y, d)) \in Nat
  BY <1>1, <1>4, DescsFinite
<1>7. got[t] <= Cardinality(Descs(Y, d))
  BY <1>2, <1>3, <1>5, <1>6
<1> QED BY <1>7 DEF Y, d

(* With the chunk that has just been completed it counts that one's too.   *)
LEMMA MoreTold ==
  ASSUME TypeOK, NEW t \in Sync, TaskInv(t), pc[t] # "done",
         NEW d, d = eng.dnum, NEW Y \in SUBSET XfersOf(t),
         CallTold(t) \cup {Cur(t)} \subseteq Y
  PROVE  got[t] + d[Cur(t)] <= Cardinality(Descs(Y, d))
<1> DEFINE X == CallTold(t)
           x == Cur(t)
<1>1. t \in Tasks /\ X \in SUBSET XfersOf(t) /\ XfersOf(t) \subseteq Xfers
      /\ x \in Xfers /\ x \in XfersOf(t)
  BY TaskTypes DEF CallTold, XfersOf, Tasks, Cur
<1>2. got[t] \in Nat /\ d[x] \in Nat /\ \A y \in Xfers : d[y] \in 0 .. DescMax
  BY <1>1, TaskTypes DEF TypeOK, EngineOK
<1>3. got[t] <= Cardinality(Descs(X, d))
  BY DEF TaskInv, SyncPlace
<1>4. X \cap {x} = {}
  <2>1. chunk[t] \in Nat
    BY <1>1, TaskTypes
  <2> QED BY <2>1 DEF CallTold, Cur
<1>5. X \in SUBSET Y /\ {x} \in SUBSET XfersOf(t) /\ X \cup {x} \in SUBSET Y
  BY <1>1
<1> HIDE DEF X, x
<1>6. \A y \in Y : d[y] \in 0 .. DescMax /\ d[y] \in Nat /\ d[y] <= d[y]
  <2> SUFFICES ASSUME NEW y \in Y PROVE d[y] \in 0 .. DescMax
    BY SizesAssumption
  <2> QED BY <1>1, <1>2
<1>7. Cardinality(Descs({x}, d)) = d[x]
  BY <1>2, DescsOne
<1>8. Cardinality(Descs(X \cup {x}, d))
        = Cardinality(Descs(X, d)) + Cardinality(Descs({x}, d))
  <2>1. \A y \in X \cup {x} : d[y] \in 0 .. DescMax
    BY <1>5, <1>6
  <2> QED BY <1>1, <1>4, <1>5, <2>1, DescsAdd
<1>9. Cardinality(Descs(X \cup {x}, d)) <= Cardinality(Descs(Y, d))
  BY <1>1, <1>5, <1>6, DescsMore
<1>10. Cardinality(Descs(X, d)) \in Nat /\ Cardinality(Descs(Y, d)) \in Nat
  BY <1>1, <1>5, <1>6, DescsFinite
<1>11. got[t] + d[x] <= Cardinality(Descs(Y, d))
  BY <1>2, <1>3, <1>7, <1>8, <1>9, <1>10
<1> QED BY <1>11 DEF x

(* The end of a call keeps the invariant: the request is freed when none   *)
(* of it, or nothing that is noted, is left on the list.                   *)
LEMMA FinishHolds ==
  ASSUME CoreInv, NEW t \in Sync, NEW s, EngineInv(s),
         \A i \in Places(s) :
           s.state[s.list[i]] = "submitted" \/ ReqOf(s.list[i]) = <<t, 1>>,
         \A q \in Tasks \ {t} : Keeps(eng, s, q),
         \A i \in 1 .. chunk[t] - 1 : s.state[<<t, 1, i>>] # "submitted",
         phase \in {"stopped", "off"} => ~s.running,
         "stranded" \notin upset'.what =>
           \A i \in Places(s) :
             ReqOf(s.list[i]) \notin s.freed \cup {<<t, 1>>},
         Aside, Upset, NEW moved \in 0 .. Need[t],
         moved <= Cardinality(Descs(DoneOf(s, t), s.dnum)),
         NEW result \in {"busy", "error", "restart", "bytes"},
         Finish(t, s, moved, result)
  PROVE  CoreInv'
<1>1. /\ TypeOK /\ t \in Tasks /\ TaskInv(t) /\ t \notin Aio
      /\ <<t, 1>> \in Reqs
      /\ pc \in PcType /\ ret \in RetType /\ got \in [Tasks -> Nat]
      /\ Need[t] \in Nat
  BY TasksAssumption, SizesAssumption, SyncAssumption
  DEF CoreInv, CallInv, Tasks, TypeOK, PcType, RetType, Reqs
<1> DEFINE u == [s EXCEPT !.freed = @ \cup {<<t, 1>>}]
<1>2. /\ EngineInv(u) /\ u.list = s.list /\ u.running = s.running
      /\ u.dnum = s.dnum /\ u.state = s.state
      /\ u.freed = s.freed \cup {<<t, 1>>}
  BY <1>1, FreeKeeps
<1>3. /\ eng' = u /\ got' = [got EXCEPT ![t] = moved]
      /\ pc' = [pc EXCEPT ![t] = "done"]
      /\ ret' = [ret EXCEPT ![t] = IF moved > 0 THEN "bytes" ELSE result]
      /\ desc_lock' = {} /\ chunk' = chunk
  BY DEF Finish
<1> HIDE DEF u
<1>4. /\ pc' \in PcType /\ ret' \in RetType /\ got' \in [Tasks -> Nat]
      /\ pc'[t] = "done" /\ got'[t] = moved
      /\ \A q \in Tasks \ {t} : pc'[q] = pc[q] /\ got'[q] = got[q]
  BY <1>1, <1>3 DEF PcType, RetType
<1>5. TypeOK'
  BY <1>1, <1>2, <1>3, <1>4
  DEF TypeOK, EngineInv, PcType, RetType, Aside, Upset, irqVars, devVars,
     pollVars
<1>6. TaskInv(t)'
  <2>1. SyncPlace(t)'
    <3>1. CallTold(t)' = DoneOf(s, t)
      BY <1>2, <1>3, <1>4 DEF CallTold, DoneOf
    <3>2. got'[t] <= Cardinality(Descs(CallTold(t)', eng'.dnum))
      BY <3>1, <1>2, <1>3, <1>4
    <3> QED BY <3>2, <1>2, <1>3, <1>4 DEF SyncPlace, Carving
  <2> QED BY <2>1, <1>1, <1>4 DEF TaskInv, Ahead, Uncarved, Carving
<1>7. Others(t)
  BY <1>2, <1>3, <1>4 DEF Others, Same, Keeps, Aside
<1>8. EngineInv(eng)' /\ Undangled(eng)' /\ StrandInv'
  BY <1>2, <1>3 DEF Undangled, StrandInv, Dangling, Places
<1> QED
  BY <1>1, <1>2, <1>3, <1>5, <1>6, <1>7, <1>8, CallerHolds DEF Aside, Upset

(* The other chunks of a synchronous request are not on the list. *)
LEMMA SyncAlone ==
  ASSUME TypeOK, NEW t \in Sync, TaskInv(t), pc[t] # "done",
         NEW s, Good(s), Keeps(eng, s, t)
  PROVE  /\ \A i \in Places(s) :
              ReqOf(s.list[i]) = <<t, 1>> => s.list[i] = Cur(t)
         /\ ReqOf(Cur(t)) = <<t, 1>>
<1>1. /\ t \in Tasks /\ seg[t] = 1 /\ chunk[t] \in Nat /\ SyncPlace(t)
      /\ Cur(t) = <<t, 1, chunk[t]>>
  BY TaskTypes, SyncAssumption DEF Tasks, TaskInv, Cur
<1>2. ASSUME NEW i \in Places(s), ReqOf(s.list[i]) = <<t, 1>>
      PROVE  s.list[i] = Cur(t)
  <2> DEFINE y == s.list[i]
  <2>1. y \in Xfers /\ s.state[y] = "submitted"
    BY DEF Good, EngineInv, EngineOK, Live, Places
  <2> HIDE DEF y
  <2>2. y[1] = t /\ y[2] = 1 /\ y[3] \in Nat /\ y[3] >= 1 /\ y = <<t, 1, y[3]>>
    <3>1. y[1] = ReqOf(y)[1] /\ y[2] = ReqOf(y)[2] /\ y = <<y[1], y[2], y[3]>>
          /\ y[3] \in Nat /\ y[3] >= 1
      BY <2>1, XferType, SizesAssumption
    <3> QED BY <3>1, <1>2 DEF y
  <2>3. eng.state[y] = "submitted"
    BY <2>1, <2>2 DEF Keeps, Over
  <2>4. ~(y[3] > chunk[t])
    BY <2>1, <2>2, <2>3, <1>1 DEF Ahead, TaskInv
  <2>5. ~(y[3] < chunk[t])
    <3> SUFFICES ASSUME y[3] < chunk[t] PROVE FALSE
      OBVIOUS
    <3>1. y[3] \in 1 .. chunk[t] - 1
      BY <2>2, <1>1
    <3> QED BY <3>1, <2>2, <2>3, <1>1 DEF SyncPlace
  <2>6. y[3] = chunk[t]
    BY <2>2, <2>4, <2>5, <1>1
  <2> QED BY <2>2, <2>6, <1>1 DEF y
<1> QED
  BY <1>1, <1>2 DEF ReqOf

(* Serving leaves the earlier chunks off the list.                         *)
LEMMA StillLeft ==
  ASSUME TypeOK, NEW t \in Sync, TaskInv(t), NEW s, Keeps(eng, s, t)
  PROVE  \A i \in 1 .. chunk[t] - 1 : s.state[<<t, 1, i>>] # "submitted"
<1> SUFFICES ASSUME NEW i \in 1 .. chunk[t] - 1
             PROVE  s.state[<<t, 1, i>>] # "submitted"
  OBVIOUS
<1>1. t \in Tasks /\ seg[t] = 1 /\ SyncPlace(t)
  BY TaskTypes, SyncAssumption DEF Tasks, TaskInv
<1>2. <<t, 1, i>> \in Xfers
  <2>1. i \in 1 .. Need[t]
    BY <1>1, TaskTypes
  <2> QED BY <2>1, <1>1, TaskTypes
<1>3. eng.state[<<t, 1, i>>] # "submitted"
  BY <1>1 DEF SyncPlace
<1> QED
  BY <1>2, <1>3 DEF Keeps, Over

(* An ending of the call with nothing of it left on the list. *)
LEMMA CleanFinish ==
  ASSUME CoreInv, NEW t \in Sync, pc[t] # "done", NEW s, Good(s),
         \A q : Keeps(eng, s, q),
         s.state[Cur(t)] # "submitted",
         phase \in {"stopped", "off"} => ~s.running,
         Aside, Upset, NEW moved \in 0 .. Need[t],
         moved <= Cardinality(Descs(DoneOf(s, t), s.dnum)),
         NEW result \in {"busy", "error", "restart", "bytes"},
         Finish(t, s, moved, result)
  PROVE  CoreInv'
<1>1. TypeOK /\ TaskInv(t) /\ \A q : Keeps(eng, s, q)
  BY DEF CoreInv, CallInv, Tasks
<1>2. \A i \in Places(s) :
        s.state[s.list[i]] = "submitted" /\ ReqOf(s.list[i]) \notin s.freed
  BY DEF Good, Live
<1>3. \A i \in Places(s) : ReqOf(s.list[i]) # <<t, 1>>
  BY <1>1, <1>2, SyncAlone
<1>4. \A i \in 1 .. chunk[t] - 1 : s.state[<<t, 1, i>>] # "submitted"
  BY <1>1, StillLeft
<1>5. EngineInv(s)
  BY DEF Good
<1> QED
  BY <1>1, <1>2, <1>3, <1>4, <1>5, FinishHolds

(* Going on to the next chunk, or ending with the last one, keeps the      *)
(* invariant.                                                              *)
LEMMA ChunkDoneHolds ==
  ASSUME CoreInv, NEW t \in Sync, pc[t] = "check", NEW s, Good(s),
         s.dnum = eng.dnum, \A q : Keeps(eng, s, q),
         s.state[Cur(t)] = "completed",
         phase \in {"stopped", "off"} => ~s.running,
         Aside, Upset, ChunkDone(t, s)
  PROVE  CoreInv'
<1>1. /\ TypeOK /\ t \in Tasks /\ TaskInv(t) /\ t \notin Aio
      /\ \A q : Keeps(eng, s, q)
      /\ SyncPlace(t) /\ seg[t] = 1
  BY TasksAssumption, TaskTypes, SyncAssumption DEF CoreInv, CallInv, Tasks,
     TaskInv
<1>2. /\ chunk[t] \in Nat /\ chunk[t] \in 1 .. Need[t] /\ left[t] \in Nat
      /\ got[t] \in Nat
      /\ eng.dnum[Cur(t)] \in Nat /\ Cur(t) \in Xfers /\ Need[t] \in Nat
      /\ pc \in PcType /\ got \in [Tasks -> Nat] /\ chunk \in [Tasks -> Nat]
  BY <1>1, TaskTypes DEF TypeOK, PcType
<1>3. /\ got[t] + left[t] + eng.dnum[Cur(t)] = Need[t]
      /\ chunk[t] + left[t] <= Need[t]
      /\ s.dnum = eng.dnum
  BY <1>1 DEF SyncPlace, TaskInv, Carving
<1> DEFINE moved == got[t] + s.dnum[Cur(t)]
<1>4. moved \in 0 .. Need[t] /\ moved + left[t] = Need[t]
  BY <1>2, <1>3
<1>7. \A Y \in SUBSET XfersOf(t) :
        CallTold(t) \cup {Cur(t)} \subseteq Y =>
          moved <= Cardinality(Descs(Y, s.dnum))
  BY <1>1, <1>3, MoreTold
<1>8. \A x \in CallTold(t) \cup {Cur(t)} :
        x \in XfersOf(t) /\ s.state[x] = "completed" /\ x[3] < chunk[t] + 1
  <2>1. \A x \in CallTold(t) : x \in XfersOf(t) /\ s.state[x] = "completed"
    BY <1>1 DEF CallTold, XfersOf, Keeps
  <2>2. \A x \in CallTold(t) : x[3] < chunk[t] + 1
    <3> SUFFICES ASSUME NEW x \in CallTold(t) PROVE x[3] < chunk[t] + 1
      OBVIOUS
    <3>1. x \in Xfers /\ x[3] < chunk[t]
      BY DEF CallTold, XfersOf
    <3>2. x[3] \in Nat
      BY <3>1, XferType, SizesAssumption
    <3> QED BY <3>1, <3>2, <1>2
  <2>3. Cur(t) \in XfersOf(t) /\ Cur(t)[3] < chunk[t] + 1
    BY <1>2 DEF XfersOf, Cur
  <2> QED BY <2>1, <2>2, <2>3
<1>5. CASE left[t] = 0
  <2>1. Finish(t, s, moved, "bytes")
    BY <1>5 DEF ChunkDone
  <2>2. moved <= Cardinality(Descs(DoneOf(s, t), s.dnum))
    <3>1. DoneOf(s, t) \in SUBSET XfersOf(t)
          /\ CallTold(t) \cup {Cur(t)} \subseteq DoneOf(s, t)
      BY <1>8 DEF DoneOf
    <3> QED BY <3>1, <1>7
  <2> HIDE DEF moved
  <2> QED BY <2>1, <2>2, <1>4, CleanFinish
<1>6. CASE left[t] # 0
  <2>1. /\ eng' = s /\ got' = [got EXCEPT ![t] = moved]
        /\ chunk' = [chunk EXCEPT ![t] = @ + 1]
        /\ pc' = [pc EXCEPT ![t] = "build"] /\ UNCHANGED <<ret, desc_lock>>
    BY <1>6 DEF ChunkDone
  <2> HIDE DEF moved
  <2>2. /\ pc' \in PcType /\ got' \in [Tasks -> Nat]
        /\ chunk' \in [Tasks -> Nat]
        /\ pc'[t] = "build" /\ got'[t] = moved /\ chunk'[t] = chunk[t] + 1
        /\ seg' = seg /\ left' = left
        /\ \A q \in Tasks \ {t} :
             pc'[q] = pc[q] /\ got'[q] = got[q] /\ chunk'[q] = chunk[q]
    BY <1>1, <1>2, <1>4, <2>1 DEF PcType, Aside
  <2>3. Others(t)
    BY <1>1, <2>1, <2>2 DEF Others, Same
  <2>4. chunk'[t] \in 1 .. Need[t] /\ chunk'[t] + left[t] <= Need[t] + 1
        /\ left[t] >= 1
    BY <1>2, <1>3, <1>6, <2>2
  <2>5. TypeOK'
    BY <1>1, <1>4, <2>1, <2>2, <2>4
    DEF TypeOK, Good, EngineInv, PcType, Aside, Upset, irqVars, devVars,
       pollVars
  <2>6. \A x \in Xfers : x[1] = t /\ Ahead(x)' => eng'.state[x] = "new"
    <3> SUFFICES ASSUME NEW x \in Xfers, x[1] = t, Ahead(x)'
                 PROVE  eng'.state[x] = "new"
      OBVIOUS
    <3>1. x[3] \in Nat
      BY XferType, SizesAssumption
    <3>2. Ahead(x)
      BY <3>1, <1>2, <2>2 DEF Ahead
    <3>3. eng.state[x] = "new"
      BY <3>2, <1>1 DEF TaskInv
    <3> QED BY <3>3, <1>1, <2>1 DEF Keeps
  <2>7. \A r \in eng'.freed : r[1] = t => r[2] < seg'[t]
    <3> SUFFICES ASSUME NEW r \in eng'.freed, r[1] = t PROVE r[2] < seg[t]
      BY <2>2
    <3>1. r \in eng.freed
      <4> SUFFICES ASSUME r \notin eng.freed PROVE FALSE
        OBVIOUS
      <4>1. PICK x \in Xfers : r = ReqOf(x) /\ x[1] \in Aio
        BY <1>1, <2>1 DEF Keeps
      <4> QED BY <4>1, <1>1, XferType
    <3> QED BY <3>1, <1>1 DEF TaskInv
  <2>8. \A i \in 1 .. chunk'[t] - 1 : eng'.state[<<t, 1, i>>] # "submitted"
    <3> SUFFICES ASSUME NEW i \in 1 .. chunk'[t] - 1
                 PROVE  eng'.state[<<t, 1, i>>] # "submitted"
      OBVIOUS
    <3>1. CASE i = chunk[t]
      BY <3>1, <1>1, <2>1 DEF Cur
    <3>2. CASE i # chunk[t]
      <4>1. i \in 1 .. chunk[t] - 1
        BY <3>2, <1>2, <2>2
      <4> QED BY <4>1, <1>1, <2>1, StillLeft
    <3> QED BY <3>1, <3>2
  <2>12. got'[t] <= Cardinality(Descs(CallTold(t)', eng'.dnum))
    <3>1. CallTold(t)' \in SUBSET XfersOf(t)
      BY DEF CallTold
    <3>2. CallTold(t) \cup {Cur(t)} \subseteq CallTold(t)'
      BY <1>8, <2>1, <2>2 DEF CallTold
    <3> QED BY <3>1, <3>2, <1>7, <2>1, <2>2 DEF moved
  <2>9. SyncPlace(t)'
    BY <1>4, <2>2, <2>8, <2>12 DEF SyncPlace, Carving
  <2>13. \A x \in Xfers : x[1] = t /\ Uncarved(x)' => eng'.dnum[x] = 0
    <3> SUFFICES ASSUME NEW x \in Xfers, x[1] = t, Uncarved(x)'
                 PROVE  eng'.dnum[x] = 0
      OBVIOUS
    <3>1. x[3] \in Nat
      BY XferType, SizesAssumption
    <3>2. Uncarved(x)
      BY <3>1, <1>2, <2>2 DEF Uncarved
    <3> QED BY <3>2, <1>1, <1>3, <2>1 DEF TaskInv
  <2>10. TaskInv(t)'
    BY <1>1, <2>2, <2>4, <2>6, <2>7, <2>9, <2>13 DEF TaskInv, Carving
  <2>11. EngineInv(eng)' /\ Undangled(eng)' /\ StrandInv'
    BY <2>1, LiveNotDangling DEF Good, Live, Undangled, StrandInv
  <2> QED BY <1>1, <2>1, <2>3, <2>5, <2>10, <2>11, CallerHolds DEF Aside, Upset
<1> QED
  BY <1>5, <1>6

(* Clearing descriptors changes the ring and nothing else.                 *)
LEMMA ClearKeeps ==
  ASSUME NEW s, Good(s), NEW X
  PROVE  LET u == Clear(s, X)
         IN /\ Good(u) /\ u.ring = Wipe(s, X)
            /\ \A f \in DOMAIN IdleEngine \ {"ring"} : u[f] = s[f]
<1> DEFINE u == Clear(s, X)
<1>1. EngineOK(s) /\ Ordered(s) /\ Carved(s) /\ Engaged(s) /\ Counted(s)
      /\ Live(s) /\ Tallied(s) /\ Ringed(s)
  BY DEF Good, EngineInv
<1>2. u = [s EXCEPT !.ring = Wipe(s, X)]
  BY DEF Clear, Wipe
<1> HIDE DEF u
<1>3. /\ DOMAIN u = DOMAIN IdleEngine /\ u.ring = Wipe(s, X)
      /\ \A f \in DOMAIN IdleEngine \ {"ring"} : u[f] = s[f]
  BY <1>1, <1>2, Fields DEF EngineOK
<1>4. /\ u.list = s.list /\ u.dnum = s.dnum /\ u.state = s.state
      /\ u.cmpl = s.cmpl /\ u.ended = s.ended /\ u.freed = s.freed
      /\ u.hw = s.hw /\ u.hx = s.hx /\ u.hcnt = s.hcnt
      /\ u.running = s.running /\ u.res = s.res /\ u.at = s.at
  BY <1>3, Fields
<1>5. EngineOK(u)
  <2>1. /\ u.request = s.request /\ u.busy = s.busy
        /\ u.err = s.err /\ u.herr = s.herr /\ u.irq = s.irq
        /\ u.wberr = s.wberr /\ u.dequeued = s.dequeued /\ u.wb = s.wb
        /\ u.moved = s.moved /\ u.erred = s.erred /\ u.idx = s.idx
    BY <1>3, Fields
  <2>2. u.ring \in [Slots -> Xfers \cup {NoXfer}]
    BY <1>1, <1>3 DEF Wipe, EngineOK
  <2> QED BY <2>1, <2>2, <1>1, <1>3, <1>4 DEF EngineOK
<1>6. \A t : Through(u, t) = Through(s, t)
  <2>1. \A x : LastInRequest(u, x) = LastInRequest(s, x)
    BY <1>4 DEF LastInRequest
  <2> QED BY <2>1, <1>4 DEF Through
<1>7. Ordered(u) /\ Carved(u) /\ Engaged(u) /\ Counted(u) /\ Live(u)
  BY <1>1, <1>4, <1>6
  DEF Ordered, Carved, Engaged, Reached, Counted, Places, Live
<1>8. Ringed(u)
  <2>1. \A x : SlotsOf(u, x) = SlotsOf(s, x)
    BY <1>4 DEF SlotsOf
  <2>2. \A p \in Slots : u.ring[p] # NoXfer => u.ring[p] = s.ring[p]
    BY <1>3 DEF Wipe
  <2> QED BY <2>1, <2>2, <1>1, <1>4 DEF Ringed
<1>9. Tallied(u)
  <2>1. s.dnum \in [Xfers -> 0 .. DescMax] /\ s.res \in [Aio -> Nat]
    BY <1>1 DEF EngineOK
  <2> QED BY <2>1, <1>1, <1>4, TallyKept
<1> QED
  BY <1>3, <1>5, <1>7, <1>8, <1>9 DEF Good, EngineInv, u

(* When a call clears its descriptors.                                     *)
LEMMA ClearedKeeps ==
  ASSUME NEW t, NEW s, Good(s)
  PROVE  LET u == Cleared(t, s)
         IN /\ Good(u) /\ u.ring = Wipe(s, {Cur(t)})
            /\ \A f \in DOMAIN IdleEngine \ {"ring"} : u[f] = s[f]
            /\ u.list = s.list /\ u.dnum = s.dnum /\ u.state = s.state
            /\ u.freed = s.freed /\ u.running = s.running
<1> DEFINE u == Cleared(t, s)
<1>1. /\ Good(u) /\ u.ring = Wipe(s, {Cur(t)})
      /\ \A f \in DOMAIN IdleEngine \ {"ring"} : u[f] = s[f]
  BY ClearKeeps DEF Cleared
<1> HIDE DEF u
<1>2. /\ u.list = s.list /\ u.dnum = s.dnum /\ u.state = s.state
      /\ u.freed = s.freed /\ u.running = s.running
  BY <1>1, Fields
<1> QED BY <1>1, <1>2 DEF u

(* A call that finds its transfer over keeps the invariant.                *)
LEMMA SyncCheckedHolds ==
  ASSUME CoreInv, NEW t \in Sync, SyncChecked(t) PROVE CoreInv'
<1> DEFINE s == Cleared(t, eng)
<1>1. TypeOK /\ Good(eng) /\ pc[t] = "check"
  BY Alive DEF CoreInv, SyncChecked, Defined
<1>5. /\ Good(s) /\ s.dnum = eng.dnum /\ s.state = eng.state
      /\ s.freed = eng.freed /\ s.running = eng.running
  BY <1>1, ClearedKeeps
<1>3. eng.state[Cur(t)] # "submitted"
      /\ \/ eng.state[Cur(t)] = "completed" /\ ChunkDone(t, s)
         \/ Finish(t, s, got[t], "error")
  BY DEF SyncChecked
<1> HIDE DEF s
<1>6. \A q : Keeps(eng, s, q)
  BY <1>5 DEF Keeps
<1>2. Aside /\ Upset /\ got[t] \in 0 .. Need[t]
      /\ (phase \in {"stopped", "off"} => ~s.running)
  BY <1>1, <1>5 DEF Aside, Upset, SyncChecked, Defined, TypeOK, Tasks, CoreInv,
     OfflineInv
<1>4. got[t] <= Cardinality(Descs(DoneOf(s, t), s.dnum))
  BY <1>1, <1>5, StillTold DEF CoreInv, CallInv, Tasks
<1> QED
  BY <1>1, <1>2, <1>3, <1>4, <1>5, <1>6, ChunkDoneHolds, CleanFinish

(* So does one whose wait has expired: if its transfer was not at the head *)
(* of the list that is noted.                                              *)
LEMMA SyncExpiredHolds ==
  ASSUME CoreInv, NEW t \in Sync, SyncExpired(t) PROVE CoreInv'
<1> DEFINE x == Cur(t)
<1>1. /\ TypeOK /\ Good(eng) /\ pc[t] = "check" /\ eng.state[x] = "submitted"
      /\ EngineOK(eng) /\ t \in Tasks /\ TaskInv(t) /\ x \in Xfers
  BY Alive, TaskTypes DEF CoreInv, CallInv, SyncExpired, Defined, Tasks, Good,
     EngineInv
<1>2. PICK s \in {Cleared(t, g) : g \in Service(eng, eng.dnum[x], FALSE)} :
        /\ upset' = [upset EXCEPT
             !.what = @ \cup {"timeout"} \cup
                      IF \E i \in 2 .. Len(s.list) : s.list[i] = x
                      THEN {"stranded"} ELSE {},
             !.forged = @ \cup {y \in Xfers : /\ eng.state[y] = "submitted"
                                              /\ s.state[y] = "completed"}]
        /\ CASE s.state[x] = "completed" -> ChunkDone(t, s)
             [] s.state[x] = "failed" -> Finish(t, s, got[t], "error")
             [] OTHER ->
                  Finish(t, Stop(Abort(PeekStatus(s), x)), got[t], "restart")
  BY DEF SyncExpired
<1>10. PICK f \in Service(eng, eng.dnum[x], FALSE) : s = Cleared(t, f)
  OBVIOUS
<1>11. Good(f) /\ Serves(eng, f) /\ (~eng.running => ~f.running)
  BY <1>1, <1>10, ServiceKeeps, StillStopped DEF EngineOK
<1>12. /\ Good(s) /\ s.list = f.list /\ s.dnum = f.dnum /\ s.state = f.state
       /\ s.freed = f.freed /\ s.running = f.running
  BY <1>10, <1>11, ClearedKeeps
<1>3. /\ Good(s) /\ (~eng.running => ~s.running) /\ s.dnum = eng.dnum
      /\ \A q : Keeps(eng, s, q)
  BY <1>11, <1>12, ServesKeeps DEF Keeps, Serves
<1>4. /\ Upset
      /\ "stranded" \notin upset'.what =>
           \A i \in 2 .. Len(s.list) : s.list[i] # x
  BY <1>1, <1>2 DEF Upset, Disturbances, TypeOK
<1>5. Aside /\ got[t] \in 0 .. Need[t]
      /\ (phase \in {"stopped", "off"} => ~s.running)
  BY <1>1, <1>3 DEF Aside, SyncExpired, Defined, TypeOK, CoreInv, OfflineInv
<1>9. got[t] <= Cardinality(Descs(DoneOf(s, t), s.dnum))
  <2>1. s.dnum = eng.dnum /\ \A y \in XfersOf(t) :
          eng.state[y] = "completed" => s.state[y] = "completed"
    BY <1>3 DEF Keeps, XfersOf
  <2> QED BY <1>1, <2>1, StillTold
<1>6. CASE s.state[x] = "completed"
  <2>1. ChunkDone(t, s)
    BY <1>2, <1>6
  <2> QED BY <2>1, <1>1, <1>3, <1>4, <1>5, <1>6, ChunkDoneHolds
<1>7. CASE s.state[x] = "failed"
  <2>1. Finish(t, s, got[t], "error")
    BY <1>2, <1>7
  <2> QED BY <2>1, <1>1, <1>3, <1>4, <1>5, <1>7, <1>9, CleanFinish
<1>8. CASE s.state[x] \notin Over
  <2> DEFINE p == PeekStatus(s)
             u == Stop(Abort(p, x))
  <2>1. Finish(t, u, got[t], "restart")
    BY <1>2, <1>8 DEF Over
  <2>2. s.state[x] = "submitted"
    BY <1>1, <1>3, <1>8 DEF Keeps, Cur
  <2>3. Good(p) /\ p.state = s.state /\ p.list = s.list
        /\ p.freed = s.freed /\ p.dnum = s.dnum /\ \A q : Keeps(eng, p, q)
    <3>1. Good(p)
      BY <1>3, ReadKeeps
    <3>2. p.state = s.state /\ p.list = s.list /\ p.freed = s.freed
          /\ p.dnum = s.dnum
      BY <1>3, Fields DEF PeekStatus, Good, EngineInv, EngineOK
    <3> QED BY <1>3, <3>1, <3>2 DEF Keeps
  <2> HIDE DEF p
  <2>4. EngineInv(u) /\ Aborted(p, x, u)
    BY <1>1, <2>2, <2>3, AbortHolds
  <2> HIDE DEF u
  <2>5. \A q \in Tasks \ {t} : Keeps(eng, u, q)
    <3> SUFFICES ASSUME NEW q \in Tasks \ {t} PROVE Keeps(eng, u, q)
      OBVIOUS
    <3>1. Keeps(eng, p, q)
      BY <2>3
    <3>2. x[1] = t
      BY DEF Cur
    <3>3. u.dnum = p.dnum /\ u.freed = p.freed
          /\ \A y \in Xfers : y[1] = q => u.state[y] = p.state[y]
      BY <2>4, <3>2 DEF Aborted
    <3> QED BY <3>1, <3>3 DEF Keeps
  <2>6. \A i \in 1 .. chunk[t] - 1 : u.state[<<t, 1, i>>] # "submitted"
    <3> SUFFICES ASSUME NEW i \in 1 .. chunk[t] - 1
                 PROVE  u.state[<<t, 1, i>>] # "submitted"
      OBVIOUS
    <3>1. Keeps(eng, p, t)
      BY <2>3
    <3>2. p.state[<<t, 1, i>>] # "submitted"
      BY <1>1, <3>1, StillLeft
    <3>3. /\ seg[t] = 1 /\ i \in 1 .. Need[t]
      BY <1>1, TaskTypes, SyncAssumption
    <3>4. <<t, 1, i>> \in Xfers
      BY <1>1, <3>3, TaskTypes
    <3> QED BY <3>2, <3>4, <2>4 DEF Aborted
  <2>7. /\ p.list \in Seq(Xfers)
        /\ \A i \in Places(u) : \E j \in Places(p) :
             u.list[i] = p.list[j] /\ (u.list[i] = x => j >= 2)
    <3>1. p.list \in Seq(Xfers)
      BY <2>3 DEF Good, EngineInv, EngineOK
    <3>2. CASE p.list # <<>> /\ Head(p.list) = x
      <4>1. u.list = Tail(p.list)
        BY <3>2, <2>4 DEF Aborted
      <4>2. \A i \in Places(u) :
              i + 1 \in Places(p) /\ u.list[i] = p.list[i + 1] /\ i + 1 >= 2
        BY <3>1, <3>2, <4>1 DEF Places
      <4> QED BY <3>1, <4>2
    <3>3. CASE ~(p.list # <<>> /\ Head(p.list) = x)
      <4>1. u.list = p.list
        BY <3>3, <2>4 DEF Aborted
      <4>2. \A i \in Places(u) : i \in Places(p) /\ (u.list[i] = x => i >= 2)
        BY <3>1, <3>3, <4>1 DEF Places
      <4> QED BY <3>1, <4>1, <4>2
    <3> QED BY <3>2, <3>3
  <2>8. ASSUME NEW i \in Places(u)
        PROVE  /\ u.list[i] # x => u.state[u.list[i]] = "submitted"
               /\ ReqOf(u.list[i]) \notin p.freed
               /\ ReqOf(u.list[i]) = <<t, 1>> => u.list[i] = x
               /\ u.list[i] = x => ReqOf(u.list[i]) = <<t, 1>>
               /\ u.list[i] = x => "stranded" \in upset'.what
    <3>1. PICK j \in Places(p) : u.list[i] = p.list[j]
               /\ (u.list[i] = x => j >= 2)
      BY <2>7
    <3>2. p.list[j] \in Xfers /\ p.state[p.list[j]] = "submitted"
          /\ ReqOf(p.list[j]) \notin p.freed
      BY <2>3, <2>7 DEF Good, Live, Places
    <3>3. /\ ReqOf(p.list[j]) = <<t, 1>> => p.list[j] = x
          /\ ReqOf(x) = <<t, 1>>
      BY <1>1, <2>3, SyncAlone
    <3>4. u.list[i] = x => "stranded" \in upset'.what
      <4>1. j >= 2 => j \in 2 .. Len(s.list)
        BY <2>3, <2>7 DEF Places
      <4> QED BY <4>1, <3>1, <1>4, <2>3
    <3> QED BY <3>1, <3>2, <3>3, <3>4, <2>4 DEF Aborted
  <2>9. u.freed = p.freed /\ ~u.running
    BY <2>4 DEF Aborted
  <2>10. \A i \in Places(u) :
           u.state[u.list[i]] = "submitted" \/ ReqOf(u.list[i]) = <<t, 1>>
    BY <2>8
  <2>11. "stranded" \notin upset'.what =>
           \A i \in Places(u) : ReqOf(u.list[i]) \notin u.freed \cup {<<t, 1>>}
    BY <2>8, <2>9
  <2>12. got[t] <= Cardinality(Descs(DoneOf(u, t), u.dnum))
    <3>1. \A y \in XfersOf(t) :
            eng.state[y] = "completed" => u.state[y] = "completed"
      <4> SUFFICES ASSUME NEW y \in XfersOf(t), eng.state[y] = "completed"
                   PROVE  u.state[y] = "completed"
        OBVIOUS
      <4>1. y \in Xfers /\ p.state[y] = "completed"
        BY <2>3 DEF XfersOf, Keeps
      <4>2. y # x
        BY <4>1, <2>2, <2>3
      <4> QED BY <4>1, <4>2, <2>4 DEF Aborted
    <3>2. u.dnum = eng.dnum
      BY <1>3, <2>3, <2>4 DEF Aborted
    <3> QED BY <1>1, <3>1, <3>2, StillTold
  <2> QED BY <1>4, <1>5, <2>1, <2>4, <2>5, <2>6, <2>9, <2>10, <2>11, <2>12,
          FinishHolds
<1> QED
  BY <1>6, <1>7, <1>8 DEF Over

(* The chunk a caller has carved may be queued.                            *)
LEMMA FitsCur ==
  ASSUME TypeOK, NEW t \in Tasks, TaskInv(t), pc[t] = "queue"
  PROVE  Fits(eng, Cur(t))
<1>1. /\ Cur(t)[1] = t /\ Cur(t)[2] = seg[t] /\ Cur(t)[3] = chunk[t]
      /\ First(t) = <<t, seg[t], 1>> /\ Cur(t) = <<t, seg[t], chunk[t]>>
  BY DEF Cur, First
<1>2. /\ eng.dnum[Cur(t)] >= 1 /\ eng.dnum[Cur(t)] \in Nat
      /\ eng.dnum[First(t)] \in Nat
      /\ left[t] \in Nat /\ Need[t] \in Nat /\ chunk[t] \in Nat
  BY TaskTypes DEF TaskInv, Carving
<1>3. ASSUME t \in Aio, chunk[t] # 1
      PROVE  /\ chunk[t] = 2 /\ eng.dnum[First(t)] >= 1
             /\ eng.dnum[First(t)] + eng.dnum[Cur(t)] <= Need[t]
  BY <1>2, <1>3 DEF TaskInv, AioPlace
<1> QED
  BY <1>1, <1>2, <1>3 DEF Fits

(* What queueing that chunk does.                                          *)
LEMMA QueueStep ==
  ASSUME CoreInv, ~Dangling, NEW t \in Tasks, pc[t] = "queue",
         eng' = Queue(eng, Cur(t))
  PROVE  /\ Good(eng') /\ eng'.dnum = eng.dnum /\ eng'.freed = eng.freed
         /\ eng'.state[Cur(t)] = "submitted"
         /\ \A y \in Xfers : y # Cur(t) => eng'.state[y] = eng.state[y]
         /\ \A q \in Tasks \ {t} : Keeps(eng, eng', q)
         /\ EngineInv(eng)' /\ Undangled(eng)' /\ StrandInv'
<1>1. TypeOK /\ TaskInv(t) /\ Good(eng) /\ Cur(t) \in Xfers /\ EngineOK(eng)
  BY Alive, TaskTypes DEF CoreInv, CallInv, EngineInv
<1>2. Unqueued(eng, Cur(t)) /\ Fits(eng, Cur(t))
      /\ ReqOf(Cur(t)) \notin eng.freed
  BY <1>1, UnqueuedCur, FitsCur
<1>3. /\ Good(eng') /\ eng'.state = [eng.state EXCEPT ![Cur(t)] = "submitted"]
      /\ eng'.freed = eng.freed /\ eng'.dnum = eng.dnum
  BY <1>1, <1>2, QueueKeeps
<1>4. /\ eng'.state[Cur(t)] = "submitted"
      /\ \A y \in Xfers : y # Cur(t) => eng'.state[y] = eng.state[y]
  BY <1>1, <1>3 DEF EngineOK
<1>5. Cur(t)[1] = t
  BY DEF Cur
<1>6. \A q \in Tasks \ {t} : Keeps(eng, eng', q)
  BY <1>3, <1>4, <1>5 DEF Keeps
<1> QED
  BY <1>3, <1>4, <1>6, LiveNotDangling DEF Good, Live, Undangled, StrandInv

(* read() and write() queue a chunk, or are refused.                       *)
LEMMA SyncQueueHolds ==
  ASSUME CoreInv, NEW t \in Sync, SyncQueue(t) PROVE CoreInv'
<1>1. /\ TypeOK /\ Good(eng) /\ pc[t] = "queue" /\ t \in Tasks /\ TaskInv(t)
      /\ ~Dangling
      /\ t \notin Aio
  BY Alive, TasksAssumption DEF CoreInv, CallInv, SyncQueue, Defined, Tasks
<1>2. UNCHANGED <<seg, left, irqVars, devVars, pollVars, upset, scenario>>
  BY DEF SyncQueue, Defined
<1>3. CASE Refused
  <2>1. Finish(t, eng, got[t], "busy")
    BY <1>3 DEF SyncQueue
  <2>2. Aside /\ Upset /\ got[t] \in 0 .. Need[t]
        /\ (phase \in {"stopped", "off"} => ~eng.running)
    BY <1>1, <1>2 DEF Aside, Upset, TypeOK, CoreInv, OfflineInv
  <2>3. eng.state[Cur(t)] # "submitted"
    <3>1. Cur(t) \in Xfers /\ Cur(t)[3] \in Int
      BY <1>1, TaskTypes, XferType, SizesAssumption
    <3>2. eng.state[Cur(t)] = "new"
      BY <1>1, <3>1, UnqueuedCur DEF Unqueued
    <3> QED BY <3>2
  <2>4. got[t] <= Cardinality(Descs(DoneOf(eng, t), eng.dnum))
    BY <1>1, StillTold
  <2>5. \A q : Keeps(eng, eng, q)
    BY DEF Keeps
  <2> QED BY <1>1, <2>1, <2>2, <2>3, <2>4, <2>5, CleanFinish
<1>4. CASE ~Refused
  <2>1. /\ eng' = Queue(eng, Cur(t))
        /\ pc' = [pc EXCEPT ![t] = IF scenario.poll THEN "wakeup" ELSE "wait"]
        /\ UNCHANGED <<chunk, got, ret, desc_lock>>
    BY <1>4 DEF SyncQueue
  <2>2. /\ Good(eng') /\ eng'.dnum = eng.dnum /\ eng'.freed = eng.freed
        /\ eng'.state[Cur(t)] = "submitted"
        /\ \A y \in Xfers : y # Cur(t) => eng'.state[y] = eng.state[y]
        /\ \A q \in Tasks \ {t} : Keeps(eng, eng', q)
    BY <1>1, <2>1, QueueStep
  <2>0. EngineInv(eng)' /\ Undangled(eng)' /\ StrandInv' /\ EngineOK(eng')
    BY <1>1, <2>1, QueueStep DEF Good, EngineInv
  <2>3. /\ pc' \in PcType /\ pc'[t] \in {"wait", "wakeup"}
        /\ \A q \in Tasks \ {t} : pc'[q] = pc[q]
    BY <1>1, <2>1 DEF PcType, TypeOK
  <2>4. Others(t)
    <3>1. seg' = seg /\ left' = left /\ chunk' = chunk /\ got' = got
      BY <1>2, <2>1
    <3>2. \A q \in Tasks \ {t} : Same(q)
      BY <2>3, <3>1 DEF Same
    <3> QED BY <2>2, <3>2 DEF Others
  <2>5. TypeOK'
    BY <1>1, <1>2, <2>0, <2>1, <2>3
    DEF TypeOK, PcType, irqVars, devVars, pollVars
  <2>6. SyncPlace(t)'
    <3>1. SyncPlace(t)
      BY <1>1 DEF TaskInv
    <3>2. Cur(t)' = Cur(t)
      BY <1>2, <2>1 DEF Cur
    <3>3. got[t] + left[t] + eng.dnum[Cur(t)] = Need[t]
      BY <3>1, <1>1 DEF SyncPlace, Carving
    <3>4. \A i \in 1 .. chunk[t] - 1 : eng'.state[<<t, 1, i>>] # "submitted"
      <4> SUFFICES ASSUME NEW i \in 1 .. chunk[t] - 1
                   PROVE  eng'.state[<<t, 1, i>>] # "submitted"
        OBVIOUS
      <4>1. seg[t] = 1 /\ i \in 1 .. Need[t] /\ <<t, 1, i>> # Cur(t)
        <5>1. chunk[t] \in Nat /\ seg[t] = 1 /\ i \in 1 .. Need[t]
              /\ i # chunk[t]
          BY <1>1, TaskTypes, SyncAssumption
        <5> QED BY <5>1 DEF Cur
      <4>2. <<t, 1, i>> \in Xfers
        BY <1>1, <4>1, TaskTypes
      <4> QED BY <3>1, <4>1, <4>2, <2>2 DEF SyncPlace
    <3>5. got'[t] <= Cardinality(Descs(CallTold(t)', eng'.dnum))
      <4>1. \A y \in CallTold(t) :
              y \in CallTold(t)' /\ eng'.dnum[y] = eng.dnum[y]
        <5> SUFFICES ASSUME NEW y \in CallTold(t) PROVE y \in CallTold(t)'
          BY <2>2
        <5>1. y \in XfersOf(t) /\ eng.state[y] = "completed"
              /\ y[3] < chunk[t] /\ y \in Xfers
          BY <1>1 DEF CallTold, XfersOf
        <5>2. y # Cur(t)
          <6>1. chunk[t] \in Nat
            BY <1>1, TaskTypes
          <6> QED BY <5>1, <6>1 DEF Cur
        <5> QED BY <5>1, <5>2, <2>1, <2>2 DEF CallTold
      <4>2. \A y \in XfersOf(t) : eng'.dnum[y] \in 0 .. DescMax
        BY <2>0 DEF XfersOf, EngineOK
      <4>3. got[t] <= Cardinality(Descs(CallTold(t), eng.dnum))
            /\ got'[t] = got[t]
        BY <3>1, <2>1 DEF SyncPlace
      <4> QED BY <1>1, <4>1, <4>2, <4>3, CallToldKept
    <3> QED BY <1>2, <2>1, <2>2, <2>3, <3>2, <3>3, <3>4, <3>5
            DEF SyncPlace, Carving
  <2>7. TaskInv(t)'
    <3>1. \A y \in Xfers : y[1] = t /\ Ahead(y)' => eng'.state[y] = "new"
      <4> SUFFICES ASSUME NEW y \in Xfers, y[1] = t, Ahead(y)'
                   PROVE  eng'.state[y] = "new"
        OBVIOUS
      <4>1. Ahead(y) /\ y # Cur(t)
        BY <1>1, <1>2, <2>1, <2>3, TaskTypes DEF Ahead, Pending, Cur
      <4> QED BY <4>1, <1>1, <2>2 DEF TaskInv
    <3>2. \A r \in eng'.freed : r[1] = t => r[2] < seg'[t]
      BY <1>1, <1>2, <2>2 DEF TaskInv
    <3>3. chunk'[t] + left'[t] <= Need[t] /\ eng'.dnum[Cur(t)'] >= 1
      BY <1>1, <1>2, <2>1, <2>2 DEF TaskInv, Carving, Cur
    <3>4. \A y \in Xfers : y[1] = t /\ Uncarved(y)' => eng'.dnum[y] = 0
      <4> SUFFICES ASSUME NEW y \in Xfers, y[1] = t, Uncarved(y)'
                   PROVE  eng'.dnum[y] = 0
        OBVIOUS
      <4>1. Uncarved(y)
        BY <1>1, <1>2, <2>1, <2>3 DEF Uncarved
      <4> QED BY <4>1, <1>1, <2>2 DEF TaskInv
    <3> QED BY <1>1, <2>3, <2>6, <3>1, <3>2, <3>3, <3>4 DEF TaskInv
  <2>8. phase \notin {"stopped", "off"}
    BY <1>4 DEF Refused, CoreInv, OfflineInv
  <2>9. UNCHANGED devVars /\ upset.what \subseteq upset'.what
    BY <1>2
  <2> QED BY <1>1, <2>0, <2>4, <2>5, <2>7, <2>8, <2>9, CallerHolds
<1> QED
  BY <1>3, <1>4

-----------------------------------------------------------------------------
(* Iocbs, and the theorems.                                                *)

(* An iocb begins a segment, or skips it because the device is offline.    *)
LEMMA AioSubmitHolds ==
  ASSUME CoreInv, NEW t \in Aio, AioSubmit(t) PROVE CoreInv'
<1>1. /\ TypeOK /\ Good(eng) /\ EngineOK(eng) /\ pc[t] = "idle" /\ t \in Tasks
      /\ TaskInv(t) /\ ~Dangling /\ t \notin Sync
  BY Alive, TasksAssumption DEF CoreInv, CallInv, AioSubmit, Defined, Tasks,
     EngineInv
<1>2. /\ eng' = eng
      /\ UNCHANGED <<got, ret, desc_lock, irqVars, devVars, ppc, expect, upset,
             scenario>>
  BY DEF AioSubmit, Defined
<1>3. EngineInv(eng)' /\ Undangled(eng)' /\ StrandInv' /\ EngineOK(eng')
  BY <1>1, <1>2, LiveNotDangling DEF Good, EngineInv, Live, Undangled,
     StrandInv
<1>4. CASE offline
  <2>1. NextSeg(t)
    BY <1>4 DEF AioSubmit
  <2>2. eng'.freed \subseteq Reqs
        /\ \A r \in eng'.freed : r[1] = t => r[2] <= seg[t]
    <3> SUFFICES ASSUME NEW r \in eng.freed
                 PROVE  r \in Reqs /\ (r[1] = t => r[2] <= seg[t])
      BY <1>2
    <3>1. r \in Reqs /\ r[2] \in Nat
      <4>1. r \in Reqs
        BY <1>1 DEF EngineOK
      <4> QED BY <4>1, IsReq
    <3>2. r[1] = t => r[2] < seg[t]
      BY <1>1 DEF TaskInv
    <3> QED BY <3>1, <3>2, <1>1, TaskTypes
  <2>3. /\ TaskInv(t)' /\ seg'[t] \in 1 .. Segs[t]
        /\ pc' \in PcType
        /\ {seg', chunk', left'} \subseteq [Tasks -> Nat]
        /\ chunk'[t] = 1 /\ left'[t] = Need[t]
        /\ woken' = (woken \/ (scenario.poll /\ seg[t] = Segs[t]))
        /\ \A q \in Tasks \ {t} : /\ pc'[q] = pc[q] /\ seg'[q] = seg[q]
                                  /\ chunk'[q] = chunk[q] /\ left'[q] = left[q]
    BY <1>1, <1>2, <2>1, <2>2, NextSegTask DEF PcType
  <2>4. Others(t)
    BY <1>2, <2>3 DEF Others, Same, Keeps
  <2>5. TypeOK'
    <3>1. Need[t] \in Nat /\ Need[t] >= 1 /\ woken' \in BOOLEAN
      BY <1>1, <2>3, TaskTypes DEF TypeOK
    <3> QED BY <1>1, <1>2, <1>3, <2>3, <3>1 DEF TypeOK, PcType, irqVars,
            devVars
  <2>6. UNCHANGED devVars /\ upset.what \subseteq upset'.what
        /\ (phase \in {"stopped", "off"} => ~eng'.running)
    BY <1>2 DEF CoreInv, OfflineInv
  <2> QED BY <1>1, <1>3, <2>3, <2>4, <2>5, <2>6, CallerHolds
<1>5. CASE ~offline
  <2>1. pc' = [pc EXCEPT ![t] = "build"]
        /\ UNCHANGED <<seg, chunk, left, woken>>
    BY <1>5 DEF AioSubmit
  <2>2. pc' \in PcType /\ pc'[t] = "build"
        /\ \A q \in Tasks \ {t} : pc'[q] = pc[q]
    BY <1>1, <2>1 DEF PcType, TypeOK
  <2>3. Moves(t)
    BY <1>1, <1>2, <2>1, <2>2 DEF Moves
  <2>4. AioPlace(t) /\ chunk[t] = 1 /\ left[t] = Need[t]
    BY <1>1 DEF TaskInv, AioPlace
  <2>5. AioPlace(t)'
    BY <2>1, <2>2, <2>4 DEF AioPlace
  <2>6. TaskInv(t)'
    <3>1. left[t] >= 1 /\ chunk[t] + left[t] <= Need[t] + 1
      BY <1>1, <2>4, TaskTypes
    <3>2. (Pending(t)' => Pending(t)) /\ (Carving(t)' => Carving(t))
      BY <1>1, <2>2 DEF Pending, Carving
    <3>3. pc[t] \in {"idle", "lock", "build"}
      BY <1>1
    <3> QED BY <1>1, <2>3, <2>5, <3>1, <3>2, <3>3, MovesTask
  <2>7. TypeOK'
    BY <1>1, <1>2, <1>3, <2>1, <2>2 DEF TypeOK, PcType, irqVars, devVars
  <2>8. upset.what \subseteq upset'.what
    BY <1>2
  <2> QED BY <1>1, <2>3, <2>6, <2>7, <2>8, MovesHold
<1> QED
  BY <1>4, <1>5

(* An iocb queues a chunk, or drops the request because it is refused: if  *)
(* a first chunk was queued already that is noted.                         *)
LEMMA AioQueueHolds ==
  ASSUME CoreInv, NEW t \in Aio, AioQueue(t) PROVE CoreInv'
<1>1. /\ TypeOK /\ Good(eng) /\ EngineOK(eng) /\ EngineInv(eng) /\ Live(eng)
      /\ pc[t] = "queue" /\ t \in Tasks
      /\ TaskInv(t) /\ ~Dangling /\ t \notin Sync /\ AioPlace(t)
  BY Alive, TasksAssumption
  DEF CoreInv, CallInv, AioQueue, Defined, Tasks, EngineInv, Good, TaskInv
<1>2. UNCHANGED <<got, ret, desc_lock, irqVars, devVars, ppc, expect,
          scenario>>
  BY DEF AioQueue, Defined
<1>3. /\ seg[t] \in Nat /\ chunk[t] \in Nat /\ left[t] \in Nat
      /\ Need[t] \in Nat
      /\ Need[t] >= 1 /\ chunk[t] >= 1 /\ seg[t] \in 1 .. Segs[t]
      /\ chunk[t] + left[t] <= Need[t] /\ Cur(t) \in Xfers
      /\ eng.dnum[Cur(t)] \in Nat /\ eng.dnum[Cur(t)] >= 1
      /\ ReqOf(Cur(t)) = <<t, seg[t]>> /\ ReqOf(Cur(t)) \in Reqs
  <2>1. /\ seg[t] \in Nat /\ chunk[t] \in Nat /\ left[t] \in Nat
        /\ Need[t] \in Nat
        /\ Need[t] >= 1 /\ chunk[t] >= 1 /\ seg[t] \in 1 .. Segs[t]
        /\ Cur(t) \in Xfers /\ eng.dnum[Cur(t)] \in Nat
    BY <1>1, TaskTypes
  <2>2. chunk[t] + left[t] <= Need[t] /\ eng.dnum[Cur(t)] >= 1
    BY <1>1 DEF TaskInv, Carving
  <2>3. ReqOf(Cur(t)) = <<t, seg[t]>> /\ ReqOf(Cur(t)) \in Reqs
    BY <1>1, <2>1, XferType, UnqueuedCur
  <2> QED BY <2>1, <2>2, <2>3
<1>4. \A r \in eng.freed : r \in Reqs /\ (r[1] = t => r[2] <= seg[t])
  <2> SUFFICES ASSUME NEW r \in eng.freed
               PROVE  r \in Reqs /\ (r[1] = t => r[2] <= seg[t])
    OBVIOUS
  <2>1. r \in Reqs /\ r[2] \in Nat
    <3>1. r \in Reqs
      BY <1>1 DEF EngineOK
    <3> QED BY <3>1, IsReq
  <2>2. r[1] = t => r[2] < seg[t]
    BY <1>1 DEF TaskInv
  <2> QED BY <2>1, <2>2, <1>3
<1>5. CASE Refused
  <2>1. /\ eng' = [eng EXCEPT !.freed = @ \cup {ReqOf(Cur(t))}]
        /\ NextSeg(t)
        /\ IF chunk[t] > 1 THEN Disturb("stranded") ELSE UNCHANGED upset
    BY <1>5 DEF AioQueue
  <2>2. /\ EngineInv(eng') /\ eng'.list = eng.list
        /\ eng'.running = eng.running
        /\ eng'.dnum = eng.dnum /\ eng'.state = eng.state
        /\ eng'.freed = eng.freed \cup {<<t, seg[t]>>}
    BY <1>1, <1>3, <2>1, FreeKeeps
  <2>3. eng'.freed \subseteq Reqs
        /\ \A r \in eng'.freed : r[1] = t => r[2] <= seg[t]
    BY <1>3, <1>4, <2>2
  <2>4. /\ TaskInv(t)' /\ seg'[t] \in 1 .. Segs[t]
        /\ pc' \in PcType
        /\ {seg', chunk', left'} \subseteq [Tasks -> Nat]
        /\ chunk'[t] = 1 /\ left'[t] = Need[t]
        /\ woken' = (woken \/ (scenario.poll /\ seg[t] = Segs[t]))
        /\ \A q \in Tasks \ {t} : /\ pc'[q] = pc[q] /\ seg'[q] = seg[q]
                                  /\ chunk'[q] = chunk[q] /\ left'[q] = left[q]
    BY <1>1, <2>1, <2>2, <2>3, NextSegTask DEF PcType
  <2>5. \A q \in Tasks \ {t} : Keeps(eng, eng', q)
    BY <2>2 DEF Keeps
  <2>6. Others(t)
    BY <1>2, <2>4, <2>5 DEF Others, Same
  <2>7. Upset /\ (chunk[t] > 1 => "stranded" \in upset'.what)
    BY <1>1, <2>1 DEF Upset, Disturb, Disturbances, TypeOK
  <2>8. TypeOK'
    <3>1. woken' \in BOOLEAN
      BY <1>1, <2>4 DEF TypeOK
    <3>2. EngineOK(eng')
      BY <2>2 DEF EngineInv
    <3> QED BY <1>1, <1>2, <1>3, <2>4, <2>7, <3>1, <3>2 DEF TypeOK, PcType,
            Upset, irqVars, devVars
  <2>9. Undangled(eng)'
    BY <1>1, <2>2 DEF Undangled, Live, Places
  <2>10. StrandInv'
    <3> SUFFICES ASSUME chunk[t] <= 1, NEW i \in Places(eng),
                        ReqOf(eng.list[i]) \in eng.freed \cup {<<t, seg[t]>>}
                 PROVE  FALSE
      BY <1>3, <2>2, <2>7 DEF StrandInv, Dangling, Places
    <3>1. /\ eng.list[i] \in Xfers /\ eng.state[eng.list[i]] = "submitted"
          /\ ReqOf(eng.list[i]) = ReqOf(Cur(t))
      <4>1. eng.list[i] \in Xfers
        BY <1>1 DEF EngineOK, Places
      <4>2. /\ eng.state[eng.list[i]] = "submitted"
            /\ ReqOf(eng.list[i]) \notin eng.freed
        BY <1>1 DEF Live
      <4> QED BY <4>1, <4>2, <1>3
    <3>2. eng.list[i][3] \in Nat /\ eng.list[i][3] >= 1 /\ Cur(t)[3] = 1
      BY <1>3, <3>1, XferType, SizesAssumption DEF Cur
    <3>3. Unqueued(eng, Cur(t))
      BY <1>1, UnqueuedCur
    <3> QED BY <3>1, <3>2, <3>3 DEF Unqueued
  <2>11. phase \in {"stopped", "off"} => ~eng'.running
    BY <2>2 DEF CoreInv, OfflineInv
  <2>12. EngineInv(eng)'
         /\ UNCHANGED devVars /\ upset.what \subseteq upset'.what
    BY <1>2, <2>2, <2>7 DEF Upset
  <2> QED BY <1>1, <2>4, <2>6, <2>8, <2>9, <2>10, <2>11, <2>12, CallerHolds
<1>6. CASE ~Refused
  <2>1. eng' = Queue(eng, Cur(t)) /\ UNCHANGED upset
    BY <1>6 DEF AioQueue
  <2>2. /\ eng'.dnum = eng.dnum /\ eng'.freed = eng.freed
        /\ eng'.state[Cur(t)] = "submitted"
        /\ \A y \in Xfers : y # Cur(t) => eng'.state[y] = eng.state[y]
        /\ \A q \in Tasks \ {t} : Keeps(eng, eng', q)
    BY <1>1, <2>1, QueueStep
  <2>3. EngineInv(eng)' /\ Undangled(eng)' /\ StrandInv' /\ EngineOK(eng')
    BY <1>1, <2>1, QueueStep DEF Good, EngineInv
  <2>4. phase \notin {"stopped", "off"}
    BY <1>6 DEF Refused, CoreInv, OfflineInv
  <2>5. UNCHANGED devVars /\ upset.what \subseteq upset'.what
    BY <1>2, <2>1
  <2>6. CASE left[t] = 0
    <3>1. NextSeg(t)
      BY <1>6, <2>6 DEF AioQueue
    <3>2. eng'.freed \subseteq Reqs
          /\ \A r \in eng'.freed : r[1] = t => r[2] <= seg[t]
      BY <1>4, <2>2
    <3>3. \A x \in Xfers :
            x[1] = t /\ x[2] > seg[t] => eng'.state[x] = eng.state[x]
      BY <1>3, <2>2 DEF Cur
    <3>4. /\ TaskInv(t)' /\ seg'[t] \in 1 .. Segs[t]
          /\ pc' \in PcType
          /\ {seg', chunk', left'} \subseteq [Tasks -> Nat]
          /\ chunk'[t] = 1 /\ left'[t] = Need[t]
          /\ woken' = (woken \/ (scenario.poll /\ seg[t] = Segs[t]))
          /\ \A q \in Tasks \ {t} : /\ pc'[q] = pc[q] /\ seg'[q] = seg[q]
                                    /\ chunk'[q] = chunk[q]
                                    /\ left'[q] = left[q]
      BY <1>1, <2>2, <3>1, <3>2, <3>3, NextSegTask DEF PcType
    <3>5. Others(t)
      BY <1>2, <2>2, <3>4 DEF Others, Same
    <3>6. woken' \in BOOLEAN
      BY <1>1, <3>4 DEF TypeOK
    <3>7. TypeOK'
      BY <1>1, <1>2, <1>3, <2>1, <2>3, <3>4, <3>6 DEF TypeOK, PcType, irqVars,
         devVars
    <3> QED BY <1>1, <2>3, <2>4, <2>5, <3>4, <3>5, <3>7, CallerHolds
  <2>7. CASE left[t] # 0
    <3>1. /\ chunk' = [chunk EXCEPT ![t] = @ + 1]
          /\ pc' = [pc EXCEPT ![t] = "build"]
          /\ UNCHANGED <<seg, left, woken>>
      BY <1>6, <2>7 DEF AioQueue
    <3>2. /\ chunk' \in [Tasks -> Nat] /\ pc' \in PcType
          /\ chunk'[t] = chunk[t] + 1 /\ pc'[t] = "build"
          /\ \A q \in Tasks \ {t} : pc'[q] = pc[q] /\ chunk'[q] = chunk[q]
      BY <1>1, <1>3, <3>1 DEF TypeOK, PcType
    <3>3. Others(t)
      BY <1>2, <2>2, <3>1, <3>2 DEF Others, Same
    <3>4. chunk'[t] \in 1 .. Need[t] /\ left[t] >= 1
          /\ chunk'[t] + left[t] <= Need[t] + 1
      BY <1>3, <2>7, <3>2
    <3>5. TypeOK'
      BY <1>1, <1>2, <1>3, <2>1, <2>3, <3>1, <3>2, <3>4 DEF TypeOK, PcType,
         irqVars, devVars
    <3>6. \A y \in Xfers : y[1] = t /\ Ahead(y)' => eng'.state[y] = "new"
      <4> SUFFICES ASSUME NEW y \in Xfers, y[1] = t, Ahead(y)'
                   PROVE  eng'.state[y] = "new"
        OBVIOUS
      <4>1. y[3] \in Nat /\ y[2] \in Nat
        BY XferType, SizesAssumption
      <4>2. Ahead(y) /\ y # Cur(t)
        BY <1>1, <1>3, <3>1, <3>2, <4>1 DEF Ahead, Cur
      <4> QED BY <4>2, <1>1, <2>2 DEF TaskInv
    <3>7. \A r \in eng'.freed : r[1] = t => r[2] < seg'[t]
      BY <1>1, <2>2, <3>1 DEF TaskInv
    <3>8. AioPlace(t)'
      <4>1. First(t)' = First(t) /\ eng'.dnum = eng.dnum /\ left' = left
            /\ seg' = seg
        BY <2>2, <3>1 DEF First
      <4>2. CASE chunk[t] = 1
        <5>1. First(t) = Cur(t) /\ eng.dnum[Cur(t)] + left[t] = Need[t]
          BY <1>1, <4>2 DEF First, Cur, AioPlace
        <5> QED BY <4>1, <4>2, <5>1, <3>2, <1>3 DEF AioPlace
      <4>3. CASE chunk[t] = 2
        <5>1. Cur(t) = <<t, seg[t], 2>> /\ eng.dnum[First(t)] >= 1
              /\ eng.dnum[First(t)] + eng.dnum[Cur(t)] + left[t] = Need[t]
          BY <1>1, <4>3 DEF Cur, AioPlace
        <5> QED BY <4>1, <4>3, <5>1, <3>2 DEF AioPlace
      <4> QED BY <4>2, <4>3, <1>1 DEF AioPlace
    <3>9. TaskInv(t)'
      <4>1. \A y \in Xfers : y[1] = t /\ Uncarved(y)' => eng'.dnum[y] = 0
        <5> SUFFICES ASSUME NEW y \in Xfers, y[1] = t, Uncarved(y)'
                     PROVE  eng'.dnum[y] = 0
          OBVIOUS
        <5>1. y[3] \in Nat /\ y[2] \in Nat
          BY XferType, SizesAssumption
        <5>2. Uncarved(y)
          BY <1>1, <1>3, <3>1, <3>2, <5>1 DEF Uncarved
        <5> QED BY <5>2, <1>1, <2>2 DEF TaskInv
      <4> QED BY <1>1, <3>1, <3>2, <3>4, <3>6, <3>7, <3>8, <4>1
              DEF TaskInv, Carving
    <3> QED BY <1>1, <2>3, <2>4, <2>5, <3>3, <3>5, <3>9, CallerHolds
  <2> QED BY <2>6, <2>7
<1> QED
  BY <1>5, <1>6

(* Every step keeps the invariant.                                         *)
LEMMA CoreSteps == CoreInv /\ [Next]_vars => CoreInv'
<1> SUFFICES ASSUME CoreInv, [Next]_vars PROVE CoreInv'
  OBVIOUS
<1>1. ASSUME NEW t \in Sync, SyncStep(t) PROVE CoreInv'
  <2>1. CASE SyncCall(t) \/ SyncLock(t) \/ SyncWakePoll(t) \/ SyncWake(t)
             \/ SyncTimeout(t)
    BY <2>1, SyncMovesHold
  <2>2. CASE Build(t)
    BY <2>2, BuildHolds DEF Tasks
  <2>3. CASE SyncQueue(t) \/ SyncChecked(t) \/ SyncExpired(t)
    BY <2>3, SyncQueueHolds, SyncCheckedHolds, SyncExpiredHolds
  <2> QED BY <1>1, <2>1, <2>2, <2>3 DEF SyncStep
<1>2. ASSUME NEW t \in Aio, AioStep(t) PROVE CoreInv'
  BY <1>2, AioSubmitHolds, AioQueueHolds, BuildHolds DEF AioStep, Tasks
<1>3. CASE Hardware \/ Isr \/ ServiceWork \/ Poll \/ Device
  BY <1>3, HwHolds, IrqHolds, PollHolds, DeviceHolds
<1>4. CASE UNCHANGED vars
  <2>1. /\ TypeOK' /\ EngineInv(eng)' /\ Undangled(eng)' /\ OfflineInv'
        /\ StrandInv'
    BY <1>4 DEF CoreInv, vars, callVars, irqVars, devVars, pollVars, TypeOK,
                OfflineInv, StrandInv, Dangling
  <2>2. CallInv'
    <3> SUFFICES ASSUME NEW t \in Tasks PROVE TaskInv(t)'
      BY DEF CallInv
    <3>1. Same(t) /\ Keeps(eng, eng', t)
      BY <1>4 DEF Same, Keeps, vars, callVars
    <3> QED BY <3>1, OtherTask DEF CoreInv, CallInv
  <2> QED BY <2>1, <2>2 DEF CoreInv
<1> QED
  BY <1>1, <1>2, <1>3, <1>4 DEF Next

(* It holds at the start.                                                  *)
LEMMA CoreStarts == Init => CoreInv
<1> SUFFICES ASSUME Init PROVE CoreInv
  OBVIOUS
<1> USE DEF Init
<1>1. EngineOK(eng)
  <2>1. /\ 0 \in 0 .. Word - 1 /\ 0 \in 0 .. DescMax /\ 0 \in 0 .. DescMax - 1
    BY SizesAssumption
  <2>2. /\ eng.ring \in [Slots -> Xfers \cup {NoXfer}]
        /\ eng.at \in [Xfers -> Slots]
    BY <2>1 DEF IdleEngine, Slots
  <2> QED BY <2>1, <2>2, Fields DEF EngineOK, IdleEngine, XferStates
<1>2. TypeOK
  <2>1. \A t \in Tasks : Need[t] \in Nat \ {0} /\ Segs[t] \in Nat \ {0}
    BY SizesAssumption
  <2>2. scenario.poll \in BOOLEAN /\ MaxOffline \in Nat /\ DescMax \in Nat
    BY ScenariosAssumption, SizesAssumption
  <2>3. Need \in [Tasks -> Nat]
    BY SizesAssumption
  <2>4. {seg, chunk, left, got} \subseteq [Tasks -> Nat]
    BY <2>3
  <2>5. \A t \in Tasks :
          /\ seg[t] \in 1 .. Segs[t] /\ chunk[t] \in 1 .. Need[t]
          /\ left[t] \in 0 .. Need[t] /\ got[t] \in 0 .. Need[t]
    BY <2>1
  <2>6. /\ pc \in PcType /\ ret \in RetType
        /\ upset \in [what : SUBSET Disturbances, forged : SUBSET Xfers]
    BY DEF PcType, RetType
  <2>7. /\ desc_lock \subseteq Sync /\ irq_on \in BOOLEAN
        /\ handler \in BOOLEAN
        /\ work \in BOOLEAN /\ offline \in BOOLEAN /\ woken \in BOOLEAN
        /\ phase \in {"on", "flagged", "stopped", "off", "regs"}
        /\ scenario \in Scenarios
        /\ ppc \in {"idle", "read", "monitor"}
    BY <2>2
  <2>8. offlines \in 0 .. MaxOffline /\ expect \in 0 .. DescMax + 1
    BY <2>2
  <2> HIDE DEF Init
  <2> QED BY <1>1, <2>4, <2>5, <2>6, <2>7, <2>8 DEF TypeOK, PcType, RetType
<1>3. /\ eng.list = <<>> /\ eng.hw = "idle" /\ eng.freed = {} /\ ~eng.running
      /\ \A x \in Xfers : eng.state[x] = "new"
      /\ \A t \in Aio : eng.cmpl[t] = 0 /\ eng.ended[t] = 0
      /\ \A x \in Xfers : eng.dnum[x] = 0 /\ eng.at[x] = 0
      /\ \A p \in Slots : eng.ring[p] = NoXfer
  BY DEF IdleEngine
<1>7. \A X : X = {} => Cardinality(Descs(X, eng.dnum)) = 0
  <2>1. Descs({}, eng.dnum) = {}
    BY DEF Descs
  <2> QED BY <2>1, FS_EmptySet
<1>8. Tallied(eng)
  <2> SUFFICES ASSUME NEW t \in Aio
               PROVE  eng.res[t]
                        <= Cardinality(Descs(IocbTold(eng, t), eng.dnum))
    BY DEF Tallied
  <2>1. eng.res[t] = 0
    BY DEF IdleEngine
  <2>2. IocbTold(eng, t) = {}
    BY <1>3 DEF IocbTold
  <2> QED BY <2>1, <2>2, <1>7
<1>4. EngineInv(eng) /\ Undangled(eng) /\ ~Dangling
  <2>1. Ordered(eng) /\ Carved(eng) /\ Engaged(eng) /\ Undangled(eng)
        /\ ~Dangling
    BY <1>3 DEF Ordered, Carved, Engaged, Undangled, Dangling, Places
  <2>2. Counted(eng)
    <3>1. \A t \in Aio : Through(eng, t) = {}
      BY <1>3 DEF Through, Over
    <3>2. \A t \in Aio : Segs[t] \in Nat /\ Segs[t] > 0
      BY SizesAssumption DEF Tasks
    <3>3. Cardinality({}) = 0
      BY FS_EmptySet
    <3>4. Places(eng) = {}
      BY <1>3 DEF Places
    <3>5. \A t \in Aio : /\ eng.cmpl[t] = Cardinality(Through(eng, t))
                         /\ eng.ended[t]
                              = IF eng.cmpl[t] >= Segs[t] THEN 1 ELSE 0
      <4> SUFFICES ASSUME NEW t \in Aio
                   PROVE  /\ eng.cmpl[t] = Cardinality(Through(eng, t))
                          /\ eng.ended[t]
                               = IF eng.cmpl[t] >= Segs[t] THEN 1 ELSE 0
        OBVIOUS
      <4>1. Cardinality(Through(eng, t)) = 0
        BY <3>1, <3>3
      <4> QED BY <1>3, <3>2, <4>1
    <3>6. \A i \in Places(eng) : eng.list[i][1] \in Aio =>
            ReqOf(eng.list[i]) \notin Through(eng, eng.list[i][1])
      BY <3>4
    <3> QED BY <3>5, <3>6 DEF Counted
  <2>3. Ringed(eng)
    BY <1>3, SizesAssumption DEF Ringed
  <2> QED BY <1>1, <1>8, <2>1, <2>2, <2>3 DEF EngineInv
<1>5. CallInv
  <2> SUFFICES ASSUME NEW t \in Tasks PROVE TaskInv(t)
    BY DEF CallInv
  <2>1. pc[t] = "idle" /\ chunk[t] = 1 /\ left[t] = Need[t] /\ got[t] = 0
        /\ seg[t] = 1
    OBVIOUS
  <2>3. got[t] <= Cardinality(Descs(CallTold(t), eng.dnum))
    <3>1. CallTold(t) = {}
      BY <1>3 DEF CallTold, XfersOf
    <3> QED BY <2>1, <3>1, <1>7
  <2>2. SyncPlace(t) /\ AioPlace(t)
    BY <2>1, <2>3 DEF SyncPlace, AioPlace, Carving
  <2> QED BY <1>3, <2>1, <2>2 DEF TaskInv, Carving
<1>6. OfflineInv /\ StrandInv
  BY <1>4 DEF OfflineInv, StrandInv
<1> QED
  BY <1>2, <1>4, <1>5, <1>6 DEF CoreInv

(* The invariant that the next four theorems follow from holds always.     *)
THEOREM EngineCore == Spec => []CoreInv
  BY CoreStarts, CoreSteps, PTL DEF Spec

(* Every variable keeps its type: the ring index and the counters in their *)
(* bounds, what a call has moved and has left never beyond its request,    *)
(* and no more chunks than descriptors.                                    *)
THEOREM EngineTypeCorrect == Spec => []TypeOK
<1>1. CoreInv => TypeOK
  BY DEF CoreInv
<1> QED BY <1>1, EngineCore, PTL

(* What the engine's list holds is submitted, listed once and not freed,   *)
(* in every state but those that follow an expired wait behind another     *)
(* transfer or a second chunk refused (ListLive).                          *)
THEOREM EngineListLive == Spec => []ListLive
<1>1. CoreInv => ListLive
  <2> SUFFICES ASSUME CoreInv, "stranded" \notin upset.what,
                      NEW i \in 1 .. Len(eng.list)
               PROVE  /\ \A j \in 1 .. Len(eng.list) :
                           eng.list[j] = eng.list[i] => i = j
                      /\ eng.state[eng.list[i]] = "submitted"
                      /\ ReqOf(eng.list[i]) \notin eng.freed
    BY DEF ListLive
  <2>1. Good(eng) /\ i \in Places(eng) /\ eng.list \in Seq(Xfers)
    BY Alive DEF CoreInv, StrandInv, Places, EngineInv, EngineOK
  <2>2. eng.state[eng.list[i]] = "submitted"
        /\ ReqOf(eng.list[i]) \notin eng.freed
    BY <2>1 DEF Good, Live
  <2>3. ASSUME NEW j \in 1 .. Len(eng.list), eng.list[j] = eng.list[i]
        PROVE  i = j
    <3>1. eng.list[i][3] \in Int
      BY <2>1, XferType, SizesAssumption DEF Places
    <3>2. ~(i < j) /\ ~(j < i)
      BY <2>1, <2>3, <3>1 DEF Good, EngineInv, Ordered, Places
    <3> QED BY <3>2
  <2> QED BY <2>2, <2>3
<1> QED BY <1>1, EngineCore, PTL

(* An iocb completes once, when all its segments are through and nothing   *)
(* of it is on the list (AioOnce).                                         *)
THEOREM EngineAioOnce == Spec => []AioOnce
<1>1. CoreInv => AioOnce
  <2> SUFFICES ASSUME CoreInv, NEW t \in Aio, eng.ended[t] > 0
               PROVE  /\ eng.ended[t] = 1 /\ eng.cmpl[t] = Segs[t]
                      /\ \A i \in 1 .. Len(eng.list) : eng.list[i][1] # t
    BY DEF AioOnce
  <2>1. /\ Counted(eng) /\ EngineOK(eng) /\ t \in Tasks /\ Segs[t] \in Nat
        /\ eng.cmpl[t] \in Nat
    BY SizesAssumption DEF CoreInv, EngineInv, EngineOK, Tasks
  <2>2. /\ eng.cmpl[t] = Cardinality(Through(eng, t))
        /\ eng.cmpl[t] >= Segs[t] /\ eng.ended[t] = 1
    BY <2>1 DEF Counted
  <2>3. eng.cmpl[t] = Segs[t]
    BY <2>1, <2>2, ThroughFinite
  <2>4. Through(eng, t) = {t} \X (1 .. Segs[t])
    <3>1. IsFiniteSet({t}) /\ Cardinality({t}) = 1
      BY FS_Singleton
    <3>2. IsFiniteSet(1 .. Segs[t]) /\ Cardinality(1 .. Segs[t]) = Segs[t]
      <4>1. Segs[t] \in Int /\ 1 \in Int /\ ~(1 > Segs[t])
            /\ Segs[t] - 1 + 1 = Segs[t]
        BY SizesAssumption DEF Tasks
      <4>2. /\ IsFiniteSet(1 .. Segs[t])
            /\ Cardinality(1 .. Segs[t])
                 = IF 1 > Segs[t] THEN 0 ELSE Segs[t] - 1 + 1
        BY <4>1, FS_Interval
      <4> QED BY <4>1, <4>2
    <3>3. /\ IsFiniteSet({t} \X (1 .. Segs[t]))
          /\ Cardinality({t} \X (1 .. Segs[t]))
               = Cardinality({t}) * Cardinality(1 .. Segs[t])
      BY <3>1, <3>2, FS_Product
    <3>4. Through(eng, t) \in SUBSET ({t} \X (1 .. Segs[t]))
      BY IsReq DEF Through
    <3>5. Cardinality({t} \X (1 .. Segs[t])) = Cardinality(Through(eng, t))
      BY <2>1, <2>2, <2>3, <3>1, <3>2, <3>3
    <3> QED BY <3>3, <3>4, <3>5, FS_Subset
  <2>5. ASSUME NEW i \in 1 .. Len(eng.list), eng.list[i][1] = t PROVE FALSE
    <3>1. ReqOf(eng.list[i]) \notin Through(eng, t)
      BY <2>1, <2>5 DEF Counted, Places
    <3>2. eng.list[i] \in Xfers
      BY <2>1 DEF EngineOK
    <3>3. ReqOf(eng.list[i]) \in {t} \X (1 .. Segs[t])
      <4>1. eng.list[i][2] \in 1 .. Segs[t]
        BY <3>2, <2>5, XferType
      <4> QED BY <4>1, <2>5 DEF ReqOf
    <3> QED BY <3>1, <3>3, <2>4
  <2> QED BY <2>2, <2>3, <2>5
<1> QED BY <1>1, EngineCore, PTL

(* Between the stop of the engine and the end of xdma_device_online's work *)
(* on it nothing sets the engine going (OfflineStays).                     *)
THEOREM EngineStaysOffline == Spec => OfflineStays
<1>1. CoreInv /\ CoreInv' /\ [Next]_vars =>
        [(phase \in {"stopped",
            "off"} /\ phase' = phase) => ~(eng'.running)]_vars
  BY DEF CoreInv, OfflineInv
<1> QED BY <1>1, EngineCore, PTL DEF Spec, OfflineStays

-----------------------------------------------------------------------------
(* The ring, as long as nothing is carved out of descriptors in use.       *)

(* A run goes on, or is over; the list only loses transfers.               *)
Follows(s, u) ==
  u.hw # "idle" => s.hw # "idle" /\ u.hx = s.hx /\ u.hcnt = s.hcnt
Within(s, u) ==
  \A i \in Places(u) : \E j \in Places(s) : u.list[i] = s.list[j]

(* A tidy ring, with the transfers in X listed.                            *)
Neat(s, X) ==
  /\ Good(s) /\ Tidy(s, X)
  /\ \A i \in Places(s) : s.list[i] \in X

Iocbs(X) ==
  X \subseteq Xfers /\ \A x \in Xfers : x[1] \in Aio => x \in X

(* A transfer's slots are in the ring.                                     *)
LEMMA SlotsIn ==
  ASSUME NEW s, EngineOK(s), Ringed(s), NEW x \in Xfers
  PROVE  /\ SlotsOf(s, x) \subseteq Slots /\ s.dnum[x] \in Nat
         /\ s.at[x] \in Nat /\ s.at[x] + s.dnum[x] <= DescMax
<1>1. DescMax \in Nat
  BY SizesAssumption
<1>2. s.dnum[x] \in 0 .. DescMax /\ s.at[x] \in 0 .. DescMax - 1
  BY DEF EngineOK, Slots
<1>3. s.at[x] + s.dnum[x] <= DescMax
  BY DEF Ringed
<1> QED BY <1>1, <1>2, <1>3 DEF SlotsOf, Slots

(* When descriptors stay, a ring stays tidy for the transfers that are not *)
(* freed.                                                                  *)
LEMMA TidyLess ==
  ASSUME NEW s, NEW u, NEW X, NEW Y, Tidy(s, X),
         u.ring = s.ring, u.at = s.at, u.dnum = s.dnum,
         s.freed \subseteq u.freed, Follows(s, u),
         \A y \in Y : y \in X \/ ReqOf(y) \in u.freed
  PROVE  Tidy(u, Y)
<1>1. \A x : SlotsOf(u, x) = SlotsOf(s, x)
  BY DEF SlotsOf
<1>2. \A x : Whole(s, x) => Whole(u, x)
  BY <1>1 DEF Whole
<1> QED BY <1>1, <1>2 DEF Tidy, Follows

(* Serving the list clears the slots of requests that it frees only.       *)
LEMMA NeatServed ==
  ASSUME NEW s, NEW u, NEW X, Neat(s, X), Iocbs(X), Good(u), Serves(s, u),
         Follows(s, u), Within(s, u)
  PROVE  Neat(u, X)
<1>1. EngineOK(s) /\ Ringed(s) /\ Tidy(s, X)
  BY DEF Neat, Good, EngineInv
<1>2. /\ u.dnum = s.dnum /\ u.at = s.at /\ s.freed \subseteq u.freed
      /\ \A p \in Slots : u.ring[p] = s.ring[p] \/ Wiped(s, u, p)
  BY DEF Serves
<1>3. \A x : SlotsOf(u, x) = SlotsOf(s, x)
  BY <1>2 DEF SlotsOf
<1>4. ASSUME NEW y \in X, u.dnum[y] > 0, ReqOf(y) \notin u.freed,
             NEW p \in SlotsOf(u, y)
      PROVE  u.ring[p] = y
  <2>1. y \in Xfers /\ p \in SlotsOf(s, y) /\ p \in Slots
    BY <1>1, <1>3, <1>4, SlotsIn DEF Iocbs
  <2>2. s.ring[p] = y
    BY <1>1, <1>2, <1>4, <2>1 DEF Tidy, Whole
  <2>3. ASSUME Wiped(s, u, p) PROVE FALSE
    <3>1. PICK x \in Xfers : /\ x[1] \in Aio /\ p \in SlotsOf(s, x)
                             /\ ReqOf(x) \in u.freed \ s.freed
      BY <2>3 DEF Wiped
    <3>2. s.dnum[x] > 0
      <4>1. s.dnum[x] \in Nat /\ s.at[x] \in Nat
        BY <1>1, SlotsIn
      <4> QED BY <3>1, <4>1 DEF SlotsOf
    <3>3. s.ring[p] = x
      BY <1>1, <3>1, <3>2 DEF Tidy, Whole, Iocbs
    <3> QED BY <1>4, <2>2, <3>1, <3>3
  <2> QED BY <1>2, <2>1, <2>2, <2>3
<1>5. ASSUME u.hw # "idle"
      PROVE  /\ u.hcnt < u.dnum[u.hx]
             /\ \A p \in SlotsOf(u, u.hx) : u.ring[p] \in {u.hx, NoXfer}
  <2>1. /\ s.hw # "idle" /\ u.hx = s.hx /\ u.hcnt = s.hcnt
        /\ s.hx \in Xfers
    BY <1>5 DEF Follows, Neat, Good, EngineInv, Engaged
  <2>2. /\ s.hcnt < s.dnum[s.hx]
        /\ \A p \in SlotsOf(s, s.hx) : s.ring[p] \in {s.hx, NoXfer}
    BY <1>1, <2>1 DEF Tidy
  <2>3. SlotsOf(s, s.hx) \subseteq Slots
    BY <1>1, <2>1, SlotsIn
  <2> QED BY <1>2, <1>3, <2>1, <2>2, <2>3 DEF Wiped
<1>6. Tidy(u, X)
  BY <1>4, <1>5 DEF Tidy, Whole
<1> QED BY <1>6 DEF Neat, Within

(* The hardware moves its own transfer's descriptor: the ring holds no     *)
(* other at the place it has reached.                                      *)
LEMMA StepsNeat ==
  ASSUME NEW s, NEW X, Neat(s, X), NEW u \in Steps(s)
  PROVE  u = Advance(s, s.hx) /\ Neat(u, X)
<1>1. /\ s.hw # "idle" /\ s.hx \in Xfers /\ Reached(s) \in Slots
      /\ s.hcnt \in Nat /\ s.at[s.hx] \in Nat
  BY StepsAre DEF Neat
<1>2. EngineOK(s) /\ Ringed(s) /\ Tidy(s, X) /\ Good(u) /\ Serves(s, u)
  BY AdvanceKeeps DEF Neat, Good, EngineInv
<1>3. s.hcnt < s.dnum[s.hx] /\ s.dnum[s.hx] \in Nat
  BY <1>1, <1>2, SlotsIn DEF Tidy
<1>4. Reached(s) \in SlotsOf(s, s.hx)
  BY <1>1, <1>3 DEF Reached, SlotsOf
<1>5. s.ring[Reached(s)] \in {s.hx, NoXfer}
  BY <1>1, <1>2, <1>4 DEF Tidy
<1>6. u = Advance(s, s.hx)
  <2>1. PICK y \in {s.hx, s.ring[Reached(s)]} \cap Xfers : u = Advance(s, y)
    BY StepsAre DEF Neat
  <2>2. NoXfer \notin Xfers
    BY XferType DEF NoXfer
  <2> QED BY <1>5, <2>1, <2>2
<1>7. /\ u.hcnt = s.hcnt + 1 /\ u.hx = s.hx /\ u.list = s.list
      /\ u.dnum = s.dnum /\ u.at = s.at /\ u.ring = s.ring
      /\ u.freed = s.freed
      /\ u.hw # "idle" => ~(s.hcnt + 1 >= s.dnum[s.hx])
  <2>1. s.at[s.hx] + (s.hcnt + 1) - s.at[s.hx] = s.hcnt + 1
    BY <1>1
  <2> QED BY <1>2, <1>6, <2>1, Fields DEF Advance, EngineOK
<1>8. \A x : SlotsOf(u, x) = SlotsOf(s, x)
  BY <1>7 DEF SlotsOf
<1>9. Tidy(u, X)
  <2>1. ASSUME u.hw # "idle" PROVE u.hcnt < u.dnum[u.hx]
    BY <1>1, <1>3, <1>7, <2>1
  <2> QED BY <1>1, <1>2, <1>7, <1>8, <2>1 DEF Tidy, Whole
<1> QED BY <1>2, <1>6, <1>7, <1>9 DEF Neat, Places

(* The head of the list is whole when it goes to the hardware.             *)
LEMMA StartTidy ==
  ASSUME NEW s, NEW X, Tidy(s, X), DOMAIN s = DOMAIN IdleEngine,
         s.list # <<>> => /\ Head(s.list) \in X
                          /\ s.dnum[Head(s.list)] \in Nat \ {0}
                          /\ ReqOf(Head(s.list)) \notin s.freed
  PROVE  Tidy(Start(s), X)
<1>1. CASE s.running \/ s.list = <<>>
  BY <1>1 DEF Start
<1>2. CASE ~(s.running \/ s.list = <<>>)
  <2> DEFINE x == Head(s.list)
             u == Start(s)
  <2>1. /\ u.hcnt = 0 /\ u.hx = x /\ u.dnum = s.dnum /\ u.at = s.at
        /\ u.ring = s.ring /\ u.freed = s.freed
    BY <1>2, Fields DEF Start
  <2>2. x \in X /\ s.dnum[x] \in Nat \ {0} /\ ReqOf(x) \notin s.freed
    BY <1>2
  <2> HIDE DEF u, x
  <2>3. \A y : SlotsOf(u, y) = SlotsOf(s, y)
    BY <2>1 DEF SlotsOf
  <2>4. Whole(s, x) /\ 0 < s.dnum[x]
    BY <2>2 DEF Tidy
  <2>5. Tidy(u, X)
    BY <2>1, <2>3, <2>4 DEF Tidy, Whole
  <2> QED BY <2>5 DEF u
<1> QED BY <1>1, <1>2

LEMMA StartNeat ==
  ASSUME NEW s, NEW X, Neat(s, X)
  PROVE  Neat(Start(s), X)
<1>1. EngineOK(s) /\ Good(s)
  BY DEF Neat, Good, EngineInv
<1>2. ASSUME s.list # <<>>
      PROVE  /\ Head(s.list) \in X /\ s.dnum[Head(s.list)] \in Nat \ {0}
             /\ ReqOf(Head(s.list)) \notin s.freed
  <2>1. /\ s.list \in Seq(Xfers) /\ 1 \in Places(s)
        /\ Head(s.list) = s.list[1] /\ Head(s.list) \in Xfers
    BY <1>1, <1>2 DEF EngineOK, Places
  <2>2. s.state[s.list[1]] = "submitted" /\ ReqOf(s.list[1]) \notin s.freed
    BY <1>1, <2>1 DEF Good, Live
  <2>3. s.dnum[s.list[1]] >= 1 /\ s.dnum[s.list[1]] \in 0 .. DescMax
    BY <1>1, <2>1, <2>2 DEF Good, EngineInv, Carved, EngineOK
  <2> QED BY <2>1, <2>2, <2>3, SizesAssumption DEF Neat
<1>3. Tidy(Start(s), X)
  BY <1>1, <1>2, StartTidy DEF Neat, EngineOK
<1>4. Good(Start(s)) /\ Start(s).list = s.list
  BY <1>1, StartKeeps DEF Alike
<1> QED BY <1>3, <1>4 DEF Neat, Places

(* What a service does to the head of the list keeps the ring tidy: first  *)
(* each of its parts.                                                      *)
LEMMA RetireNeat ==
  ASSUME NEW s, NEW X, Neat(s, X), Iocbs(X), NEW m \in 0 .. Len(s.list),
         NEW result \in Over
  PROVE  Neat(Retire(s, m, result), X)
<1> DEFINE u == Retire(s, m, result)
<1>1. EngineOK(s) /\ Good(s) /\ s.list \in Seq(Xfers)
  BY DEF Neat, Good, EngineInv, EngineOK
<1>2. Good(u) /\ Serves(s, u)
  BY <1>1, RetireKeeps
<1>3. Retired(s, m, result, u)
  BY <1>1, RetireFields
<1> HIDE DEF u
<1>4. u.hw = s.hw /\ u.hx = s.hx /\ u.hcnt = s.hcnt
  BY <1>3, Fields DEF Retired, Untold, Told
<1>5. Within(s, u)
  <2>1. u.list = SubSeq(s.list, m + 1, Len(s.list)) /\ Len(s.list) \in Nat
    BY <1>1, <1>3 DEF Retired
  <2> SUFFICES ASSUME NEW i \in Places(u)
               PROVE  \E j \in Places(s) : u.list[i] = s.list[j]
    BY DEF Within
  <2>2. u.list[i] = s.list[m + i] /\ m + i \in Places(s)
    BY <1>1, <2>1 DEF Places
  <2> QED BY <2>2
<1> QED BY <1>2, <1>4, <1>5, NeatServed DEF Follows, u

LEMMA AlikeNeat ==
  ASSUME NEW s, NEW u, NEW X, Neat(s, X), Good(u), Alike(s, u), Follows(s, u)
  PROVE  Neat(u, X)
<1>1. Tidy(u, X)
  BY TidyLess DEF Alike, Neat
<1> QED BY <1>1 DEF Neat, Alike, Places

LEMMA StopNeat ==
  ASSUME NEW s, NEW X, Neat(s, X)
  PROVE  Neat(Stop(s), X) /\ Stop(s).list = s.list
<1>1. Good(s) /\ DOMAIN s = DOMAIN IdleEngine
  BY DEF Neat, Good, EngineInv, EngineOK
<1>2. Good(Stop(s)) /\ Alike(s, Stop(s)) /\ Follows(s, Stop(s))
  BY <1>1, StopKeeps, Fields DEF Stop, Alike, Follows
<1> QED BY <1>2, AlikeNeat DEF Alike

LEMMA ReadNeat ==
  ASSUME NEW s, NEW X, Neat(s, X)
  PROVE  Neat(ReadStatus(s), X) /\ Neat(PeekStatus(s), X)
<1>1. Good(s) /\ DOMAIN s = DOMAIN IdleEngine
  BY DEF Neat, Good, EngineInv, EngineOK
<1>2. /\ Good(ReadStatus(s)) /\ Alike(s, ReadStatus(s))
      /\ Follows(s, ReadStatus(s))
  BY <1>1, ReadKeeps, Fields DEF ReadStatus, Alike, Follows
<1>3. /\ Good(PeekStatus(s)) /\ Alike(s, PeekStatus(s))
      /\ Follows(s, PeekStatus(s))
  BY <1>1, ReadKeeps, Fields DEF PeekStatus, Alike, Follows
<1> QED BY <1>2, <1>3, AlikeNeat

LEMMA DequeueNeat ==
  ASSUME NEW s, NEW X, Neat(s, X), NEW d \in Nat
  PROVE  LET u == [s EXCEPT !.dequeued = (@ + d) % Word]
         IN Neat(u, X) /\ u.list = s.list
<1> DEFINE u == [s EXCEPT !.dequeued = (@ + d) % Word]
<1>1. Good(s) /\ DOMAIN s = DOMAIN IdleEngine
  BY DEF Neat, Good, EngineInv, EngineOK
<1>2. Good(u) /\ Alike(s, u)
  BY <1>1, DequeueKeeps
<1>3. Follows(s, u)
  BY <1>1, Fields DEF Follows
<1> HIDE DEF u
<1>4. Neat(u, X) /\ u.list = s.list
  BY <1>2, <1>3, AlikeNeat DEF Alike
<1> QED BY <1>4 DEF u

LEMMA ServiceListNeat ==
  ASSUME NEW s, NEW X, Neat(s, X), Iocbs(X), NEW c
  PROVE  Neat(ServiceList(s, c).s, X)
<1> DEFINE m == Cardinality({j \in 1 .. Len(s.list) : Sums(s)[j] < c})
           u == [s EXCEPT !.dequeued = (@ + Sums(s)[m]) % Word]
<1>1. EngineOK(s)
  BY DEF Neat, Good, EngineInv
<1>2. m \in 0 .. Len(s.list) /\ Sums(s)[m] \in Nat
  BY <1>1, ListCount, SumsFacts
<1>3. ServiceList(s, c).s = Retire(u, m, "completed")
  BY DEF ServiceList
<1>4. Neat(u, X) /\ u.list = s.list
  <2> HIDE DEF m
  <2> QED BY <1>2, DequeueNeat
<1> HIDE DEF u, m
<1> QED BY <1>2, <1>3, <1>4, RetireNeat DEF Over

LEMMA ServiceFinalNeat ==
  ASSUME NEW s, NEW X, Neat(s, X), Iocbs(X), NEW n
  PROVE  Neat(ServiceFinal(s, n), X)
<1>1. EngineOK(s)
  BY DEF Neat, Good, EngineInv
<1>2. CASE s.list = <<>>
  BY <1>2 DEF ServiceFinal
<1>3. CASE s.list # <<>> /\ s.err
  <2>1. ServiceFinal(s, n) = Retire(Stop(s), 1, "failed")
    BY <1>3 DEF ServiceFinal
  <2>2. Neat(Stop(s), X) /\ Stop(s).list = s.list
    BY StopNeat
  <2>3. 1 \in 0 .. Len(s.list) /\ "failed" \in Over
    BY <1>1, <1>3 DEF Over, EngineOK
  <2> QED BY <2>1, <2>2, <2>3, RetireNeat
<1>4. CASE s.list # <<>> /\ ~s.err
  <2> DEFINE d == s.dnum[Head(s.list)]
             result == IF n < d THEN "failed" ELSE "completed"
             u == [s EXCEPT !.dequeued = (@ + d) % Word]
  <2>1. ServiceFinal(s, n) = Retire(u, 1, result)
    BY <1>4 DEF ServiceFinal
  <2>2. d \in Nat
    <3>1. Head(s.list) \in Xfers
      BY <1>1, <1>4 DEF EngineOK
    <3>2. d \in 0 .. DescMax
      BY <1>1, <3>1 DEF EngineOK
    <3> QED BY <3>2
  <2> HIDE DEF d
  <2>3. Neat(u, X) /\ u.list = s.list
    BY <2>2, DequeueNeat
  <2>4. 1 \in 0 .. Len(u.list) /\ result \in Over
    BY <1>1, <1>4, <2>3 DEF Over, EngineOK
  <2> HIDE DEF u, result
  <2> QED BY <2>1, <2>3, <2>4, RetireNeat
<1> QED BY <1>2, <1>3, <1>4

LEMMA ServicedNeat ==
  ASSUME NEW s, NEW X, Neat(s, X), Iocbs(X), NEW n, NEW u \in Serviced(s, n)
  PROVE  Neat(u, X)
<1>1. CASE n = 0
  BY <1>1 DEF Serviced
<1>2. CASE n # 0
  <2> DEFINE p == ServiceList(s, (n - s.dequeued) % Word)
             f == ServiceFinal(p.s, p.n)
  <2>1. u = Resume(f)
    BY <1>2 DEF Serviced
  <2>2. Neat(p.s, X)
    BY ServiceListNeat
  <2> HIDE DEF p
  <2>3. Neat(f, X)
    BY <2>2, ServiceFinalNeat
  <2> HIDE DEF f
  <2> QED BY <2>1, <2>3, StopNeat, StartNeat DEF Resume
<1> QED BY <1>1, <1>2

LEMMA HaltedNeat ==
  ASSUME NEW s, NEW X, Neat(s, X), NEW c, NEW werr
  PROVE  Neat(Halted(s, c, werr), X)
<1> DEFINE s1 == IF c = 0 \/ werr THEN ReadStatus(s) ELSE s
<1>1. Neat(s1, X)
  BY ReadNeat
<1>2. Halted(s, c, werr) = IF ~s1.busy \/ c # 0 THEN Stop(s1) ELSE s1
  BY DEF Halted
<1> HIDE DEF s1
<1> QED BY <1>1, <1>2, StopNeat

(* engine_service keeps the ring tidy.                                     *)
LEMMA ServiceNeat ==
  ASSUME NEW s, NEW X, Neat(s, X), Iocbs(X), NEW c, NEW werr,
         NEW u \in Service(s, c, werr)
  PROVE  Neat(u, X)
<1> DEFINE h == Halted(s, c, werr)
<1>1. Neat(h, X)
  BY HaltedNeat
<1>2. CASE ~s.running
  BY <1>2, ReadNeat DEF Service
<1>3. CASE s.running /\ c # 0
  <2>1. u \in Serviced(h, c)
    BY <1>3 DEF Service
  <2> HIDE DEF h
  <2> QED BY <1>1, <2>1, ServicedNeat
<1>4. CASE s.running /\ c = 0
  <2>1. PICK g \in {h} \cup Steps(h) : u \in Serviced(g, g.hcnt)
    BY <1>4 DEF Service
  <2> HIDE DEF h
  <2>2. Neat(g, X)
    BY <1>1, <2>1, StepsNeat
  <2> QED BY <2>1, <2>2, ServicedNeat
<1> QED BY <1>2, <1>3, <1>4

(* The list holds chunks that no call is past.                             *)
LEMMA RingNeat ==
  ASSUME CoreInv, RingInv, ~Dangling, "overrun" \notin upset.what
  PROVE  Neat(eng, Current) /\ Iocbs(Current) /\ Good(eng)
<1>1. Good(eng) /\ Tidy(eng, Current)
  BY Alive DEF RingInv
<1>2. ASSUME NEW i \in Places(eng) PROVE eng.list[i] \in Current
  <2> DEFINE x == eng.list[i]
             t == x[1]
  <2>1. x \in Xfers /\ eng.state[x] = "submitted"
    BY <1>1, <1>2 DEF Good, EngineInv, EngineOK, Live, Places
  <2> HIDE DEF x
  <2>2. ASSUME t \in Sync, ~(x[3] >= chunk[t]) PROVE FALSE
    <3>1. TypeOK /\ t \in Tasks /\ SyncPlace(t)
      BY <2>2 DEF CoreInv, CallInv, TaskInv, Tasks
    <3>2. /\ x[2] = 1 /\ x = <<t, x[2], x[3]>> /\ x[3] \in 1 .. Need[t]
          /\ Need[t] \in Nat /\ chunk[t] \in Nat
      <4>1. x[2] \in 1 .. Segs[t] /\ Segs[t] = 1
        BY <2>1, <2>2, XferType, SyncAssumption
      <4> QED BY <4>1, <2>1, <3>1, XferType, TaskTypes
    <3>3. x[3] \in 1 .. chunk[t] - 1
      BY <2>2, <3>2
    <3> QED BY <2>1, <3>1, <3>2, <3>3 DEF SyncPlace
  <2> QED BY <2>1, <2>2 DEF Current, x
<1>3. Iocbs(Current)
  BY TasksAssumption DEF Iocbs, Current
<1> QED BY <1>1, <1>2, <1>3 DEF Neat

(* Steps that serve the list, or leave it alone.                           *)
LEMMA RingServed ==
  ASSUME "overrun" \notin upset.what => Neat(eng', Current), chunk' = chunk,
         upset.what \subseteq upset'.what
  PROVE  RingInv'
<1>1. Current' = Current
  BY DEF Current
<1> QED BY <1>1 DEF RingInv, Neat

(* Steps that leave the ring alone.                                        *)
LEMMA RingStays ==
  ASSUME RingInv, upset.what \subseteq upset'.what,
         eng'.ring = eng.ring, eng'.at = eng.at, eng'.dnum = eng.dnum,
         eng.freed \subseteq eng'.freed, Follows(eng, eng'),
         \A t \in Sync : chunk'[t] = chunk[t]
  PROVE  RingInv'
<1>1. Current' = Current
  BY DEF Current
<1>2. ASSUME Tidy(eng, Current) PROVE Tidy(eng', Current)
  BY <1>2, TidyLess
<1> QED BY <1>1, <1>2 DEF RingInv

(* The hardware, the interrupt and its work.                               *)
LEMMA HwRing ==
  ASSUME CoreInv, RingInv, Hardware \/ Isr \/ ServiceWork PROVE RingInv'
<1>0. EngineOK(eng) /\ TypeOK
  BY DEF CoreInv, TypeOK
<1>1. CASE Hardware
  <2>1. /\ ~Dangling /\ chunk' = chunk
        /\ \/ HwMove
           \/ HwFails
           \/ eng' = [eng EXCEPT !.hw = "idle", !.irq = TRUE]
        /\ upset' = upset \/ Disturb("orphan")
    BY <1>0, <1>1, HwCases DEF HwFails, callVars, EngineOK
  <2>2. upset.what \subseteq upset'.what
    BY <1>0, <2>1 DEF Disturb, TypeOK
  <2>3. CASE HwMove
    <3>1. "overrun" \notin upset.what => Neat(eng', Current)
      BY <2>1, <2>3, RingNeat, StepsNeat DEF HwMove
    <3> QED BY <2>1, <2>2, <3>1, RingServed
  <2>4. CASE HwFails \/ eng' = [eng EXCEPT !.hw = "idle", !.irq = TRUE]
    <3>1. /\ eng'.ring = eng.ring /\ eng'.at = eng.at /\ eng'.dnum = eng.dnum
          /\ eng'.freed = eng.freed /\ eng'.hw = "idle"
      <4>0. DOMAIN eng = DOMAIN IdleEngine
        BY <1>0 DEF EngineOK
      <4>1. CASE HwFails
        <5>1. eng' = Fail(eng)
          BY <4>1 DEF HwFails
        <5> QED BY <4>0, <5>1, Fields DEF Fail
      <4>2. CASE eng' = [eng EXCEPT !.hw = "idle", !.irq = TRUE]
        BY <4>0, <4>2, Fields
      <4> QED BY <2>4, <4>1, <4>2
    <3> QED BY <2>1, <2>2, <3>1, RingStays DEF Follows
  <2> QED BY <2>1, <2>3, <2>4
<1>2. CASE Isr
  BY <1>2, RingStays DEF Isr, callVars, Follows
<1>3. CASE ServiceWork
  <2>1. "overrun" \notin upset.what => Neat(eng', Current)
    BY <1>3, RingNeat, ServiceNeat DEF ServiceWork, Defined
  <2> QED BY <1>3, <2>1, RingServed DEF ServiceWork, callVars
<1> QED BY <1>1, <1>2, <1>3

(* The polling thread, and the offline procedure.                          *)
LEMMA PollRing ==
  ASSUME CoreInv, RingInv, Poll \/ Device PROVE RingInv'
<1>0. EngineOK(eng) /\ TypeOK
  BY DEF CoreInv, TypeOK
<1>1. CASE PollBegin \/ PollGivesUp
  BY <1>1, RingStays DEF PollBegin, PollGivesUp, callVars, Follows
<1>2. CASE PollRead
  <2>1. upset.what \subseteq upset'.what
    BY <1>0, <1>2 DEF PollRead, TypeOK
  <2> QED BY <1>2, <2>1, RingStays DEF PollRead, callVars, Follows
<1>3. CASE PollMonitor
  <2> DEFINE s == [eng EXCEPT !.wb = 0, !.wberr = FALSE]
  <2>1. /\ eng' \in Service(s, eng.wb, eng.wberr) \/ eng' = s
        /\ chunk' = chunk /\ upset' = upset /\ ~Dangling
    BY <1>3 DEF PollMonitor, callVars, Defined
  <2>2. ASSUME "overrun" \notin upset.what PROVE Neat(eng', Current)
    <3>1. Neat(eng, Current) /\ Iocbs(Current) /\ Good(eng)
      BY <2>1, <2>2, RingNeat
    <3>2. EngineOK(s)
      <4>1. 0 \in 0 .. DescMax
        BY SizesAssumption
      <4> QED BY <1>0, <4>1, Fields DEF EngineOK
    <3>3. Alike(eng, s) /\ Follows(eng, s)
      BY <1>0, Fields DEF EngineOK, Alike, Follows
    <3>5. Engaged(s)
      BY <1>0, <3>1, Fields
      DEF EngineOK, Engaged, Reached, Good, EngineInv
    <3> HIDE DEF s
    <3>4. Neat(s, Current)
      BY <3>1, <3>2, <3>3, <3>5, Untouched, AlikeNeat
    <3> QED BY <2>1, <3>1, <3>4, ServiceNeat
  <2> QED BY <2>1, <2>2, RingServed
<1>4. CASE Device
  <2>1. /\ eng'.ring = eng.ring /\ eng'.at = eng.at /\ eng'.dnum = eng.dnum
        /\ eng'.freed = eng.freed /\ Follows(eng, eng') /\ chunk' = chunk
        /\ upset' = upset \/ Disturb("offline")
    <3>1. CASE OfflineFlag \/ OfflineIrqs \/ OnlineIrqs
      BY <3>1 DEF OfflineFlag, OfflineIrqs, OnlineIrqs, callVars, Follows
    <3>2. CASE OfflineEngine
      BY <1>0, <3>2, Fields
      DEF OfflineEngine, Stop, callVars, Follows, EngineOK
    <3>3. CASE OnlineEngine
      BY <1>0, <3>3, Fields DEF OnlineEngine, callVars, Follows, EngineOK
    <3> QED BY <1>4, <3>1, <3>2, <3>3 DEF Device
  <2>2. upset.what \subseteq upset'.what
    BY <1>0, <2>1 DEF Disturb, TypeOK
  <2> QED BY <2>1, <2>2, RingStays
<1> QED BY <1>1, <1>2, <1>3, <1>4 DEF Poll

(* A request is carved out of descriptors that nobody uses.                *)
LEMMA BuildRing ==
  ASSUME CoreInv, RingInv, NEW t \in Tasks, Build(t) PROVE RingInv'
<1> DEFINE x == Cur(t)
           n == left[t]
<1>1. /\ TypeOK /\ TaskInv(t) /\ Good(eng) /\ pc[t] = "build" /\ ~Dangling
      /\ eng' = Carve(eng, x, n) /\ chunk' = chunk
      /\ IF \E p \in Taken(eng, n) : InUse(eng, p)
         THEN Disturb("overrun") ELSE UNCHANGED upset
  BY Alive DEF CoreInv, CallInv, Build, Defined
<1>2. x \in Xfers /\ n \in Nat \ {0}
  BY <1>1, TaskTypes DEF TaskInv
<1>3. Unqueued(eng, x) /\ eng.dnum[x] = 0 /\ eng.state[x] = "new"
  <2>1. Uncarved(x) /\ Ahead(x) /\ x[1] = t
    <3>1. chunk[t] \in Nat
      BY <1>1, TaskTypes
    <3> QED BY <1>1, <3>1 DEF Uncarved, Ahead, Pending, Cur
  <2> QED BY <2>1, <1>1, <1>2, UnqueuedCur DEF TaskInv
<1> HIDE DEF x, n
<1>4. CarvedOut(eng, x, n, eng') /\ ChunkSize(eng, n) \in 1 .. n
  BY <1>1, <1>2, <1>3, CarveKeeps
<1> SUFFICES ASSUME "overrun" \notin upset'.what PROVE Tidy(eng', Current)
  <2>1. Current' = Current
    BY <1>1 DEF Current
  <2> QED BY <2>1 DEF RingInv
<1>5. "overrun" \notin upset.what
      /\ \A p \in Taken(eng, n) : ~InUse(eng, p)
  BY <1>1 DEF Disturb, TypeOK
<1>6. Neat(eng, Current) /\ Iocbs(Current) /\ EngineOK(eng) /\ Ringed(eng)
  BY <1>1, <1>5, RingNeat DEF Good, EngineInv
<1>7. /\ eng'.dnum[x] = ChunkSize(eng, n) /\ eng'.at[x] = eng.idx
      /\ \A y \in Xfers : y # x => /\ eng'.dnum[y] = eng.dnum[y]
                                   /\ eng'.at[y] = eng.at[y]
      /\ eng'.ring = [p \in Slots |-> IF p \in Taken(eng, n) THEN x
                                     ELSE eng.ring[p]]
      /\ eng'.freed = eng.freed
      /\ eng'.hw = eng.hw /\ eng'.hx = eng.hx /\ eng'.hcnt = eng.hcnt
  BY <1>4, Fields DEF CarvedOut
<1>8. SlotsOf(eng', x) = Taken(eng, n)
      /\ \A y \in Xfers : y # x => SlotsOf(eng', y) = SlotsOf(eng, y)
  BY <1>7 DEF SlotsOf, Taken
<1>9. SlotsOf(eng', x) \subseteq Slots
  <2>1. Good(eng')
    BY <1>1, <1>2, <1>3, CarveKeeps
  <2> QED BY <2>1, <1>2, SlotsIn DEF Good, EngineInv
<1>10. ASSUME NEW y \in Current, eng'.dnum[y] > 0, ReqOf(y) \notin eng'.freed
       PROVE  Whole(eng', y)
  <2>1. CASE y = x
    BY <2>1, <1>7, <1>8, <1>9 DEF Whole
  <2>2. CASE y # x
    <3>1. y \in Xfers /\ Whole(eng, y)
      BY <1>6, <1>7, <1>10, <2>2 DEF Neat, Tidy, Iocbs
    <3>2. SlotsOf(eng', y) = SlotsOf(eng, y) /\ SlotsOf(eng, y) \subseteq Slots
      BY <1>6, <1>8, <2>2, <3>1, SlotsIn
    <3> SUFFICES ASSUME NEW p \in SlotsOf(eng, y) PROVE eng'.ring[p] = y
      BY <3>2 DEF Whole
    <3>3. eng.ring[p] = y /\ y # NoXfer
      BY <3>1, XferType DEF Whole, NoXfer
    <3>4. p \notin Taken(eng, n)
      BY <1>5, <3>3 DEF InUse
    <3> QED BY <1>7, <3>2, <3>3, <3>4
  <2> QED BY <2>1, <2>2
<1>11. ASSUME eng'.hw # "idle"
       PROVE  /\ eng'.hcnt < eng'.dnum[eng'.hx]
              /\ \A p \in SlotsOf(eng', eng'.hx) :
                   eng'.ring[p] \in {eng'.hx, NoXfer}
  <2>1. eng.hw # "idle" /\ eng.hx \in Xfers /\ eng.hx # x
    BY <1>1, <1>3, <1>7, <1>11 DEF Good, EngineInv, Engaged
  <2>2. /\ eng.hcnt < eng.dnum[eng.hx]
        /\ \A p \in SlotsOf(eng, eng.hx) : eng.ring[p] \in {eng.hx, NoXfer}
    BY <1>6, <2>1 DEF Neat, Tidy
  <2>3. /\ SlotsOf(eng, eng.hx) \subseteq Slots
        /\ SlotsOf(eng', eng.hx) = SlotsOf(eng, eng.hx)
    BY <1>6, <1>8, <2>1, SlotsIn
  <2>4. \A p \in SlotsOf(eng, eng.hx) : p \notin Taken(eng, n)
    BY <1>5, <2>1 DEF InUse
  <2> QED BY <1>7, <2>1, <2>2, <2>3, <2>4
<1> QED BY <1>10, <1>11 DEF Tidy

(* What queueing a chunk does to the ring.                                 *)
LEMMA QueueRing ==
  ASSUME CoreInv, RingInv, ~Dangling, NEW t \in Tasks, pc[t] = "queue",
         eng' = Queue(eng, Cur(t)), upset' = upset,
         \A q \in Sync : chunk'[q] = chunk[q]
  PROVE  RingInv'
<1> SUFFICES ASSUME "overrun" \notin upset.what PROVE Tidy(eng', Current)
  <2>1. Current' = Current
    BY DEF Current
  <2> QED BY <2>1 DEF RingInv
<1> DEFINE x == Cur(t)
           v == [eng EXCEPT !.state[x] = "submitted", !.list = Append(@, x)]
<1>1. /\ TypeOK /\ TaskInv(t) /\ Good(eng) /\ Neat(eng, Current)
      /\ EngineOK(eng)
  BY RingNeat DEF CoreInv, CallInv, Good, EngineInv
<1>2. /\ x \in Xfers /\ x \in Current /\ ReqOf(x) \notin eng.freed
      /\ eng.dnum[x] \in Nat \ {0}
  <2>1. x \in Xfers /\ eng.dnum[x] \in Nat /\ chunk[t] \in Nat
    BY <1>1, TaskTypes
  <2>2. ReqOf(x) \notin eng.freed /\ eng.dnum[x] >= 1
    BY <1>1, UnqueuedCur DEF TaskInv, Carving
  <2>3. x[1] = t /\ x[3] = chunk[t]
    BY DEF Cur
  <2> QED BY <2>1, <2>2, <2>3 DEF Current
<1>3. /\ DOMAIN v = DOMAIN IdleEngine /\ v.list = Append(eng.list, x)
      /\ v.dnum = eng.dnum /\ v.freed = eng.freed /\ v.ring = eng.ring
      /\ v.at = eng.at /\ v.hw = eng.hw /\ v.hx = eng.hx
      /\ v.hcnt = eng.hcnt
  BY <1>1, Fields DEF EngineOK
<1>4. eng' = Start(v)
  BY DEF Queue
<1> HIDE DEF v, x
<1>5. Tidy(v, Current)
  BY <1>1, <1>3, TidyLess DEF Neat, Follows
<1>6. Head(v.list) = IF eng.list = <<>> THEN x ELSE eng.list[1]
  BY <1>1, <1>2, <1>3 DEF EngineOK
<1>7. ASSUME eng.list # <<>>
      PROVE  /\ eng.list[1] \in Current
             /\ eng.dnum[eng.list[1]] \in Nat \ {0}
             /\ ReqOf(eng.list[1]) \notin eng.freed
  <2>1. 1 \in Places(eng) /\ eng.list[1] \in Xfers
    BY <1>1, <1>7 DEF Places, EngineOK
  <2>2. eng.state[eng.list[1]] = "submitted"
        /\ ReqOf(eng.list[1]) \notin eng.freed
    BY <1>1, <2>1 DEF Good, Live
  <2>3. eng.dnum[eng.list[1]] >= 1 /\ eng.dnum[eng.list[1]] \in 0 .. DescMax
    BY <1>1, <2>1, <2>2 DEF Good, EngineInv, Carved, EngineOK
  <2> QED BY <1>1, <2>1, <2>2, <2>3, SizesAssumption DEF Neat
<1> QED BY <1>2, <1>3, <1>4, <1>5, <1>6, <1>7, StartTidy

(* A transfer that is cleared leaves the others whole.                     *)
LEMMA ClearTidy ==
  ASSUME NEW s, NEW X, NEW x \in X, Good(s), Tidy(s, X), X \subseteq Xfers,
         s.dnum[x] > 0, ReqOf(x) \notin s.freed
  PROVE  Tidy(Clear(s, {x}), X \ {x})
<1> DEFINE u == Clear(s, {x})
<1>1. /\ u.ring = Wipe(s, {x})
      /\ u.dnum = s.dnum /\ u.at = s.at /\ u.freed = s.freed
      /\ u.hw = s.hw /\ u.hx = s.hx /\ u.hcnt = s.hcnt
  <2>1. /\ u.ring = Wipe(s, {x})
        /\ \A f \in DOMAIN IdleEngine \ {"ring"} : u[f] = s[f]
    BY ClearKeeps
  <2> HIDE DEF u
  <2> QED BY <2>1, Fields
<1> HIDE DEF u
<1>2. \A y : SlotsOf(u, y) = SlotsOf(s, y)
  BY <1>1 DEF SlotsOf
<1>3. EngineOK(s) /\ Ringed(s) /\ (s.hw # "idle" => s.hx \in Xfers)
  BY DEF Good, EngineInv, Engaged
<1>4. ASSUME NEW y \in X \ {x}, u.dnum[y] > 0, ReqOf(y) \notin u.freed,
             NEW p \in SlotsOf(u, y)
      PROVE  u.ring[p] = y
  <2>1. p \in Slots /\ s.ring[p] = y
    BY <1>1, <1>2, <1>3, <1>4, SlotsIn DEF Tidy, Whole
  <2>2. p \notin SlotsOf(s, x)
    BY <1>4, <2>1 DEF Tidy, Whole
  <2> QED BY <1>1, <2>1, <2>2 DEF Wipe
<1>5. ASSUME u.hw # "idle"
      PROVE  /\ u.hcnt < u.dnum[u.hx]
             /\ \A p \in SlotsOf(u, u.hx) : u.ring[p] \in {u.hx, NoXfer}
  <2>1. SlotsOf(s, s.hx) \subseteq Slots
    BY <1>1, <1>3, <1>5, SlotsIn
  <2> QED BY <1>1, <1>2, <1>5, <2>1 DEF Tidy, Wipe
<1>6. Tidy(u, X \ {x})
  BY <1>4, <1>5 DEF Tidy, Whole
<1> QED BY <1>6 DEF u

(* The end of a call: its request is freed.                                *)
LEMMA FinishRing ==
  ASSUME TypeOK, NEW t \in Sync, NEW s, DOMAIN s = DOMAIN IdleEngine,
         "overrun" \notin upset.what => Tidy(s, Current \ {Cur(t)}),
         upset.what \subseteq upset'.what,
         NEW moved, NEW result, Finish(t, s, moved, result)
  PROVE  RingInv'
<1>1. /\ chunk' = chunk
      /\ eng' = [s EXCEPT !.freed = @ \cup {<<t, 1>>}]
  BY DEF Finish
<1>2. /\ eng'.ring = s.ring /\ eng'.at = s.at /\ eng'.dnum = s.dnum
      /\ eng'.freed = s.freed \cup {<<t, 1>>} /\ Follows(s, eng')
  BY <1>1, Fields DEF Follows
<1>3. ReqOf(Cur(t)) = <<t, 1>>
  <2>1. seg[t] \in 1 .. Segs[t] /\ Segs[t] = 1
    BY TaskTypes, SyncAssumption DEF Tasks
  <2>2. seg[t] = 1
    BY <2>1
  <2> QED BY <2>2 DEF Cur, ReqOf
<1>4. Current' = Current
  BY <1>1 DEF Current
<1>5. ASSUME Tidy(s, Current \ {Cur(t)}) PROVE Tidy(eng', Current)
  BY <1>2, <1>3, <1>5, TidyLess
<1> QED BY <1>4, <1>5 DEF RingInv

(* The end of a chunk.                                                     *)
LEMMA ChunkDoneRing ==
  ASSUME TypeOK, NEW t \in Sync, NEW s, DOMAIN s = DOMAIN IdleEngine,
         "overrun" \notin upset.what => Tidy(s, Current \ {Cur(t)}),
         upset.what \subseteq upset'.what, ChunkDone(t, s)
  PROVE  RingInv'
<1>1. CASE left[t] = 0
  BY <1>1, FinishRing DEF ChunkDone
<1>2. CASE left[t] # 0
  <2>1. eng' = s /\ chunk' = [chunk EXCEPT ![t] = @ + 1]
    BY <1>2 DEF ChunkDone
  <2>2. ASSUME NEW y \in Current' PROVE y \in Current \ {Cur(t)}
    <3>1. y \in Xfers /\ (y[1] \in Sync => y[3] >= chunk'[y[1]])
      BY <2>2 DEF Current
    <3>2. chunk \in [Tasks -> Nat] /\ chunk[t] \in Nat /\ t \in Tasks
      BY TaskTypes DEF TypeOK, Tasks
    <3>3. y[3] \in Nat /\ y[1] \in Tasks
      BY <3>1, XferType, SizesAssumption
    <3>4. CASE y[1] = t
      <4>1. y[3] >= chunk[t] + 1
        BY <2>1, <3>1, <3>2, <3>4
      <4> QED BY <3>1, <3>2, <3>3, <3>4, <4>1 DEF Current, Cur
    <3>5. CASE y[1] # t
      <4>1. chunk'[y[1]] = chunk[y[1]]
        BY <2>1, <3>2, <3>3, <3>5
      <4> QED BY <3>1, <3>5, <4>1 DEF Current, Cur
    <3> QED BY <3>4, <3>5
  <2>3. ASSUME Tidy(s, Current \ {Cur(t)}) PROVE Tidy(eng', Current')
    BY <2>1, <2>2, <2>3, TidyLess DEF Follows
  <2> QED BY <2>3 DEF RingInv
<1> QED BY <1>1, <1>2

(* Whatever served the list before, a call clears its own chunk.           *)
LEMMA ClearedRing ==
  ASSUME CoreInv, RingInv, ~Dangling, "overrun" \notin upset.what,
         NEW t \in Sync, pc[t] = "check", NEW f, Neat(f, Current),
         f.dnum = eng.dnum, \A q : Keeps(eng, f, q)
  PROVE  Tidy(Cleared(t, f), Current \ {Cur(t)})
<1> DEFINE x == Cur(t)
<1>1. TypeOK /\ t \in Tasks /\ TaskInv(t) /\ Iocbs(Current)
  BY RingNeat DEF CoreInv, CallInv, Tasks
<1>2. x \in Xfers /\ x[1] = t /\ x[3] = chunk[t] /\ chunk[t] \in Nat
      /\ ReqOf(x) = <<t, seg[t]>> /\ seg[t] \in Nat
  BY <1>1, TaskTypes DEF Cur, ReqOf
<1>3. x \in Current
  BY <1>2 DEF Current
<1>4. f.dnum[x] > 0
  <2>1. eng.dnum[x] >= 1 /\ eng.dnum[x] \in Nat
    BY <1>1, TaskTypes DEF TaskInv, Carving
  <2> QED BY <2>1
<1>5. ReqOf(x) \notin f.freed
  <2>1. ReqOf(x)[1] = t /\ ReqOf(x)[2] = seg[t]
    BY <1>2
  <2>2. ReqOf(x) \notin eng.freed
    BY <1>1, <1>2, <2>1 DEF TaskInv
  <2>3. ASSUME ReqOf(x) \in f.freed \ eng.freed PROVE FALSE
    <3>1. PICK y \in Xfers : ReqOf(x) = ReqOf(y) /\ y[1] \in Aio
      BY <2>1, <2>3 DEF Keeps
    <3>2. y[1] = t
      BY <2>1, <3>1, XferType
    <3> QED BY <3>1, <3>2, TasksAssumption
  <2> QED BY <2>2, <2>3
<1> HIDE DEF x
<1>6. Tidy(Clear(f, {x}), Current \ {x})
  BY <1>1, <1>3, <1>4, <1>5, ClearTidy DEF Neat, Iocbs
<1> QED BY <1>6 DEF Cleared, x

(* What read() and write() do after a chunk was carved.                    *)
LEMMA ReturnRing ==
  ASSUME CoreInv, RingInv, NEW t \in Sync,
         SyncQueue(t) \/ SyncChecked(t) \/ SyncExpired(t)
  PROVE  RingInv'
<1>0. TypeOK /\ EngineOK(eng) /\ ~Dangling /\ Good(eng) /\ t \in Tasks
  BY Alive DEF CoreInv, TypeOK, SyncQueue, SyncChecked, SyncExpired, Defined,
     Tasks
<1>1. CASE SyncQueue(t)
  <2>1. pc[t] = "queue" /\ upset' = upset
    BY <1>1 DEF SyncQueue
  <2>2. CASE Refused
    <3>1. Finish(t, eng, got[t], "busy")
      BY <1>1, <2>2 DEF SyncQueue
    <3>2. Tidy(eng, Current) => Tidy(eng, Current \ {Cur(t)})
      BY TidyLess DEF Follows
    <3> QED BY <1>0, <2>1, <3>1, <3>2, FinishRing DEF RingInv, EngineOK
  <2>3. CASE ~Refused
    <3>1. eng' = Queue(eng, Cur(t)) /\ chunk' = chunk
      BY <1>1, <2>3 DEF SyncQueue
    <3> QED BY <1>0, <2>1, <3>1, QueueRing
  <2> QED BY <2>2, <2>3
<1>2. CASE SyncChecked(t)
  <2> DEFINE s == Cleared(t, eng)
  <2>1. pc[t] = "check" /\ upset' = upset
        /\ (ChunkDone(t, s) \/ Finish(t, s, got[t], "error"))
    BY <1>2 DEF SyncChecked
  <2>2. DOMAIN s = DOMAIN IdleEngine
    BY <1>0, ClearedKeeps DEF Good, EngineInv, EngineOK
  <2>3. "overrun" \notin upset.what => Tidy(s, Current \ {Cur(t)})
    <3>1. \A q : Keeps(eng, eng, q)
      BY DEF Keeps
    <3> QED BY <1>0, <2>1, <3>1, RingNeat, ClearedRing
  <2> HIDE DEF s
  <2> QED BY <1>0, <2>1, <2>2, <2>3, FinishRing, ChunkDoneRing
<1>3. CASE SyncExpired(t)
  <2> DEFINE x == Cur(t)
  <2>1. PICK s \in {Cleared(t, g) : g \in Service(eng, eng.dnum[x], FALSE)} :
          /\ upset.what \subseteq upset'.what
          /\ \/ ChunkDone(t, s) \/ Finish(t, s, got[t], "error")
             \/ Finish(t, Stop(Abort(PeekStatus(s), x)), got[t], "restart")
    <3>1. PICK s \in {Cleared(t, g) : g \in Service(eng, eng.dnum[x], FALSE)} :
        /\ upset' = [upset EXCEPT
             !.what = @ \cup {"timeout"} \cup
                      IF \E i \in 2 .. Len(s.list) : s.list[i] = x
                      THEN {"stranded"} ELSE {},
             !.forged = @ \cup {y \in Xfers : /\ eng.state[y] = "submitted"
                                              /\ s.state[y] = "completed"}]
        /\ CASE s.state[x] = "completed" -> ChunkDone(t, s)
             [] s.state[x] = "failed" -> Finish(t, s, got[t], "error")
             [] OTHER ->
                  Finish(t, Stop(Abort(PeekStatus(s), x)), got[t], "restart")
      BY <1>3 DEF SyncExpired
    <3>2. upset.what \subseteq upset'.what
      BY <1>0, <3>1 DEF TypeOK
    <3>3. \/ ChunkDone(t, s) \/ Finish(t, s, got[t], "error")
          \/ Finish(t, Stop(Abort(PeekStatus(s), x)), got[t], "restart")
      BY <3>1
    <3> QED BY <3>2, <3>3
  <2>2. PICK f \in Service(eng, eng.dnum[x], FALSE) : s = Cleared(t, f)
    OBVIOUS
  <2>3. pc[t] = "check"
    BY <1>3 DEF SyncExpired
  <2>4. Good(f) /\ Serves(eng, f)
    BY <1>0, ServiceKeeps
  <2>5. DOMAIN s = DOMAIN IdleEngine
    BY <2>2, <2>4, ClearedKeeps DEF Good, EngineInv, EngineOK
  <2>6. "overrun" \notin upset.what => Tidy(s, Current \ {Cur(t)})
    <3> SUFFICES ASSUME "overrun" \notin upset.what
                 PROVE  Tidy(s, Current \ {Cur(t)})
      OBVIOUS
    <3>1. Neat(f, Current)
      BY <1>0, RingNeat, ServiceNeat
    <3>2. f.dnum = eng.dnum /\ \A q : Keeps(eng, f, q)
      BY <2>4, ServesKeeps DEF Serves
    <3> QED BY <1>0, <2>2, <2>3, <3>1, <3>2, ClearedRing
  <2>7. CASE Finish(t, Stop(Abort(PeekStatus(s), x)), got[t], "restart")
    <3> DEFINE u == Stop(Abort(PeekStatus(s), x))
    <3>1. /\ u.ring = s.ring /\ u.at = s.at /\ u.dnum = s.dnum
          /\ u.freed = s.freed /\ Follows(s, u)
          /\ DOMAIN u = DOMAIN IdleEngine
      BY <2>5, Fields DEF Stop, Abort, PeekStatus, Follows
    <3> HIDE DEF u
    <3>2. Tidy(s, Current \ {Cur(t)}) => Tidy(u, Current \ {Cur(t)})
      BY <3>1, TidyLess
    <3> QED BY <1>0, <2>1, <2>5, <2>6, <2>7, <3>1, <3>2, FinishRing DEF u
  <2> QED BY <1>0, <2>1, <2>5, <2>6, <2>7, FinishRing, ChunkDoneRing
<1> QED BY <1>1, <1>2, <1>3

(* The steps of callers.                                                   *)
LEMMA CallRing ==
  ASSUME CoreInv, RingInv, NEW t \in Sync, SyncStep(t) PROVE RingInv'
<1>1. CASE SyncCall(t) \/ SyncLock(t) \/ SyncWakePoll(t) \/ SyncWake(t)
           \/ SyncTimeout(t)
  BY <1>1, RingStays
  DEF SyncCall, SyncLock, SyncWakePoll, SyncWake, SyncTimeout, Follows
<1>2. CASE Build(t)
  BY <1>2, BuildRing DEF Tasks
<1>3. CASE SyncQueue(t) \/ SyncChecked(t) \/ SyncExpired(t)
  BY <1>3, ReturnRing
<1> QED BY <1>1, <1>2, <1>3 DEF SyncStep

LEMMA AioRing ==
  ASSUME CoreInv, RingInv, NEW t \in Aio, AioStep(t) PROVE RingInv'
<1>0. TypeOK /\ EngineOK(eng) /\ t \in Tasks /\ t \notin Sync
      /\ chunk \in [Tasks -> Nat]
  BY TasksAssumption DEF CoreInv, TypeOK, Tasks
<1>1. CASE AioSubmit(t)
  <2>1. eng' = eng /\ upset' = upset
        /\ \A q \in Sync : chunk'[q] = chunk[q]
    BY <1>0, <1>1 DEF AioSubmit, NextSeg, Tasks
  <2> QED BY <2>1, RingStays DEF Follows
<1>2. CASE Build(t)
  BY <1>0, <1>2, BuildRing
<1>3. CASE AioQueue(t)
  <2>1. \A q \in Sync : chunk'[q] = chunk[q]
    BY <1>0, <1>3 DEF AioQueue, NextSeg, Tasks
  <2>2. CASE Refused
    <3>1. /\ eng' = [eng EXCEPT !.freed = @ \cup {ReqOf(Cur(t))}]
          /\ upset' = upset \/ Disturb("stranded")
      BY <1>3, <2>2 DEF AioQueue
    <3>2. /\ eng'.ring = eng.ring /\ eng'.at = eng.at /\ eng'.dnum = eng.dnum
          /\ eng.freed \subseteq eng'.freed /\ Follows(eng, eng')
      BY <1>0, <3>1, Fields DEF Follows, EngineOK
    <3>3. upset.what \subseteq upset'.what
      BY <1>0, <3>1 DEF Disturb, TypeOK
    <3> QED BY <2>1, <3>2, <3>3, RingStays
  <2>3. CASE ~Refused
    <3>1. /\ eng' = Queue(eng, Cur(t)) /\ upset' = upset /\ pc[t] = "queue"
          /\ ~Dangling
      BY <1>3, <2>3 DEF AioQueue, Defined
    <3> QED BY <1>0, <2>1, <3>1, QueueRing
  <2> QED BY <2>2, <2>3
<1> QED BY <1>1, <1>2, <1>3 DEF AioStep

LEMMA RingSteps == CoreInv /\ RingInv /\ [Next]_vars => RingInv'
<1> SUFFICES ASSUME CoreInv, RingInv, [Next]_vars PROVE RingInv'
  OBVIOUS
<1>1. CASE UNCHANGED vars
  BY <1>1, RingStays DEF vars, callVars, Follows
<1> QED BY <1>1, CallRing, AioRing, HwRing, PollRing DEF Next

(* As long as no request was carved out of descriptors in use, those of    *)
(* the transfers under way are in the ring as they were written, and the   *)
(* engine finds no others there (RingInv).                                 *)
THEOREM EngineRing == Spec => []RingInv
<1>1. Init => RingInv
  <2> SUFFICES ASSUME Init PROVE RingInv
    OBVIOUS
  <2>1. /\ eng.hw = "idle" /\ \A x \in Xfers : eng.dnum[x] = 0
    BY DEF Init, IdleEngine
  <2> QED BY <2>1 DEF RingInv, Tidy, Current
<1> QED BY <1>1, RingSteps, EngineCore, PTL DEF Spec

-----------------------------------------------------------------------------
(* A run of the engine: what a service leaves.                             *)

(* What Start leaves an engine at rest in: either still at rest, or at the *)
(* first descriptor of the head.                                           *)
LEMMA StartRuns ==
  ASSUME NEW s, EngineOK(s), Rest(s)
  PROVE  Runs(Start(s)) /\ Reports(Start(s))
<1>1. CASE s.list = <<>>
  BY <1>1 DEF Start, Rest, Runs, Reports
<1>2. CASE s.list # <<>>
  <2> DEFINE u == Start(s)
  <2>1. /\ DOMAIN u = DOMAIN IdleEngine /\ u.list = s.list
        /\ u.hx = Head(s.list)
        /\ u.hcnt = 0 /\ u.dnum = s.dnum /\ u.dequeued = 0 /\ u.err = s.herr
        /\ u.hw = "busy" /\ u.running /\ u.herr = s.herr /\ u.irq = s.irq
        /\ u.wb = s.wb /\ u.wberr = s.wberr /\ u.state = s.state
        /\ u.erred = s.erred
    BY <1>2, Fields DEF Start, Rest, EngineOK
  <2>2. s.dnum[Head(s.list)] >= 0
    <3>1. Head(s.list) \in Xfers
      BY <1>2 DEF EngineOK
    <3>2. s.dnum[Head(s.list)] \in 0 .. DescMax /\ DescMax \in Nat
      BY <3>1, SizesAssumption DEF EngineOK
    <3> QED BY <3>2
  <2> HIDE DEF u
  <2>3. Runs(u)
    BY <1>2, <2>1, <2>2 DEF Runs, Rest
  <2>4. Reports(u)
    BY <2>1 DEF Reports, Rest
  <2> QED BY <2>3, <2>4 DEF u
<1> QED
  BY <1>1, <1>2

(* A count no greater than the head's is left to the last step whole:      *)
(* no transfer goes.                                                       *)
LEMMA CountAtHead ==
  ASSUME NEW s, Good(s), s.list # <<>>, NEW n \in Nat,
         n <= s.dnum[Head(s.list)]
  PROVE  LET p == ServiceList(s, n)
         IN /\ p.n = n /\ p.s.list = s.list /\ p.s.state = s.state
            /\ DOMAIN p.s = DOMAIN IdleEngine /\ p.s.dequeued = s.dequeued
            /\ \A f \in DOMAIN IdleEngine \ (Untold \cup {"dequeued"}) :
                 p.s[f] = s[f]
<1> DEFINE T == {j \in 1 .. Len(s.list) : Sums(s)[j] < n}
           v == [s EXCEPT !.dequeued = (@ + Sums(s)[0]) % Word]
<1>1. EngineOK(s) /\ s.list \in Seq(Xfers) /\ Head(s.list) = s.list[1]
      /\ s.dnum \in [Xfers -> Nat]
  <2>1. EngineOK(s)
    BY DEF Good, EngineInv
  <2>2. 0 .. DescMax \subseteq Nat
    BY SizesAssumption
  <2>3. s.dnum \in [Xfers -> Nat]
    BY <2>1, <2>2 DEF EngineOK
  <2>4. s.list \in Seq(Xfers)
    BY <2>1 DEF EngineOK
  <2>5. Head(s.list) = s.list[1]
    BY <2>4
  <2> QED BY <2>1, <2>3, <2>4, <2>5
<1>2. T = {}
  <2> SUFFICES ASSUME NEW j \in 1 .. Len(s.list), Sums(s)[j] < n PROVE FALSE
    OBVIOUS
  <2>1. Sums(s)[j] >= s.dnum[s.list[1]]
    BY <1>1, SumsAbove DEF Places
  <2>2. Sums(s)[j] \in Nat /\ s.dnum[s.list[1]] \in Nat
    <3>1. j \in 0 .. Len(s.list) /\ s.list[1] \in Xfers
      BY <1>1
    <3> QED BY <3>1, <1>1, SumsFacts
  <2> QED BY <1>1, <2>1, <2>2
<1>3. Cardinality(T) = 0
  BY <1>2, FS_EmptySet
<1> HIDE DEF T
<1>4. ServiceList(s, n)
        = [s |-> Retire(v, 0, "completed"), n |-> n - Sums(s)[0]]
  BY <1>3 DEF ServiceList, T
<1>5. DOMAIN v = DOMAIN IdleEngine
      /\ \A f \in DOMAIN IdleEngine \ {"dequeued"} : v[f] = s[f]
  BY <1>1 DEF EngineOK
<1> HIDE DEF v
<1>6. Retired(v, 0, "completed", Retire(v, 0, "completed"))
  <2>1. Sums(s)[0] \in Nat
    BY <1>1, SumsFacts
  <2>2. Good(v)
    BY <2>1, DequeueKeeps DEF v
  <2> QED BY <2>2, RetireFields DEF Good, EngineInv
<1> DEFINE u == Retire(v, 0, "completed")
<1>7. Gone(v, 0) = {} /\ v.list = s.list /\ v.state = s.state
  BY <1>5, Fields DEF Gone
<1> HIDE DEF u
<1>8. u.list = s.list
  <2>1. u.list = SubSeq(s.list, 1, Len(s.list))
    BY <1>6, <1>7 DEF Retired, u
  <2> QED BY <2>1, <1>1
<1>9. u.state = s.state
  <2>1. u.state = [x \in Xfers |-> s.state[x]]
    BY <1>6, <1>7 DEF Retired, u
  <2> QED BY <2>1, <1>1 DEF EngineOK
<1>10. DOMAIN u = DOMAIN IdleEngine
       /\ \A f \in DOMAIN IdleEngine \ (Untold \cup {"dequeued"}) : u[f] = s[f]
  BY <1>5, <1>6 DEF Retired, u, Untold, Told
<1>12. u.dequeued = s.dequeued
  <2>1. u.dequeued = v.dequeued
    BY <1>6, Fields DEF Retired, Untold, Told, u
  <2>2. v.dequeued = (s.dequeued + 0) % Word
    BY <1>1, SumsFacts, Fields DEF v, EngineOK
  <2>3. s.dequeued \in 0 .. Word - 1 /\ Word \in Nat
    BY <1>1, SizesAssumption DEF EngineOK
  <2>4. (s.dequeued + 0) % Word = s.dequeued
    BY <2>3
  <2> QED BY <2>1, <2>2, <2>4
<1>11. ServiceList(s, n).s = u /\ ServiceList(s, n).n = n
  BY <1>1, <1>4, SumsFacts DEF u
<1> QED
  BY <1>8, <1>9, <1>10, <1>11, <1>12

(* The head of an engine at rest is retired as failed only if the          *)
(* hardware reported an error on it.                                       *)
LEMMA FinalRests ==
  ASSUME NEW s, Good(s), Rest(s), s.list # <<>>, NEW n \in Nat,
         s.err => Head(s.list) \in s.erred,
         ~s.err => n = s.dnum[Head(s.list)]
  PROVE  Rest(ServiceFinal(s, n))
<1> DEFINE r == IF s.err THEN "failed" ELSE "completed"
           v == IF s.err THEN Stop(s)
                ELSE [s EXCEPT !.dequeued = (@ + s.dnum[Head(s.list)]) % Word]
           u == Retire(v, 1, r)
<1>1. EngineOK(s) /\ Head(s.list) = s.list[1]
  <2>1. EngineOK(s)
    BY DEF Good, EngineInv
  <2>2. s.list \in Seq(Xfers)
    BY <2>1 DEF EngineOK
  <2> QED BY <2>1, <2>2
<1>2. ServiceFinal(s, n) = u
  <2>1. s.dnum[Head(s.list)] \in Nat
    <3>1. Head(s.list) \in Xfers
      BY <1>1 DEF EngineOK
    <3>2. s.dnum[Head(s.list)] \in 0 .. DescMax
      BY <1>1, <3>1 DEF EngineOK
    <3> QED BY <3>2
  <2> QED BY <2>1 DEF ServiceFinal
<1>3. DOMAIN v = DOMAIN IdleEngine
      /\ \A f \in DOMAIN IdleEngine \ {"dequeued"} : v[f] = s[f]
  <2>1. CASE s.err
    <3>1. \A f \in DOMAIN IdleEngine : Stop(s)[f] = s[f]
      BY <1>1, Fields DEF Stop, Rest, EngineOK
    <3>2. DOMAIN Stop(s) = DOMAIN IdleEngine
      BY <1>1 DEF Stop, EngineOK
    <3> QED BY <2>1, <3>1, <3>2
  <2>2. CASE ~s.err
    BY <2>2, <1>1 DEF EngineOK
  <2> QED BY <2>1, <2>2
<1> HIDE DEF v
<1>4. Retired(v, 1, r, u)
  <2>1. s.dnum[Head(s.list)] \in Nat
    <3>1. Head(s.list) \in Xfers
      BY <1>1 DEF EngineOK
    <3>2. s.dnum[Head(s.list)] \in 0 .. DescMax
      BY <1>1, <3>1 DEF EngineOK
    <3> QED BY <3>2
  <2>2. Good(v)
    BY <2>1, StopKeeps, DequeueKeeps DEF v
  <2> QED BY <2>2, RetireFields DEF Good, EngineInv
<1> HIDE DEF u
<1>5. /\ u.running = s.running /\ u.hw = s.hw /\ u.herr = s.herr /\ u.wb = s.wb
      /\ u.wberr = s.wberr /\ u.irq = s.irq /\ u.erred = s.erred
  BY <1>3, <1>4, Fields DEF Retired, Untold, Told
<1>6. \A x \in Xfers : u.state[x] = IF x = Head(s.list) THEN r ELSE s.state[x]
  <2>1. v.list = s.list /\ v.state = s.state
    BY <1>3, Fields
  <2>2. Gone(v, 1) = {Head(s.list)}
    BY <2>1, <1>1 DEF Gone
  <2> QED BY <2>1, <2>2, <1>4 DEF Retired
<1> QED
  BY <1>2, <1>5, <1>6 DEF Rest

(* The service of a run that has ended, or of an engine that is not        *)
(* running, leaves the engine stopped or at the start of another run.  It  *)
(* is called with the count of the writeback, or 0 from an interrupt.      *)
LEMMA ServiceRuns ==
  ASSUME NEW s, Good(s), Runs(s), s.hw = "idle", s.wb = 0, ~s.wberr,
         NEW c, NEW werr, c = 0 \/ c = s.hcnt,
         c # 0 => scenario.poll, c # 0 /\ ~werr => ~s.herr,
         NEW u \in Service(s, c, werr)
  PROVE  Runs(u) /\ Reports(u)
<1>1. EngineOK(s)
  BY DEF Good, EngineInv
<1>2. CASE ~s.running
  <2>1. u = ReadStatus(s)
    BY <1>2 DEF Service
  <2>2. /\ u.running = s.running /\ u.hw = s.hw /\ u.wb = s.wb
        /\ u.wberr = s.wberr
        /\ u.state = s.state /\ u.erred = s.erred /\ ~u.herr /\ ~u.irq
    BY <2>1, <1>1, Fields DEF ReadStatus, EngineOK
  <2> QED BY <1>2, <2>2 DEF Runs, Reports
<1>3. CASE s.running
  <2> DEFINE h == Halted(s, c, werr)
             n == IF c # 0 THEN c ELSE h.hcnt
  <2>1. /\ ~h.running /\ h.hw = "idle" /\ ~h.herr /\ (h.irq => scenario.poll)
        /\ (h.err <=> s.herr)
        /\ \A f \in {"list", "dnum", "state", "erred", "hcnt", "dequeued",
               "wb", "wberr"} : h[f] = s[f]
    <3> DEFINE g == IF c = 0 \/ werr THEN ReadStatus(s) ELSE s
    <3>1. /\ DOMAIN g = DOMAIN IdleEngine
          /\ g.hw = "idle" /\ ~g.herr /\ (g.irq => scenario.poll)
          /\ (g.err <=> s.herr) /\ (c = 0 => ~g.busy)
          /\ \A f \in {"list", "dnum", "state", "erred", "hcnt", "dequeued",
                 "wb", "wberr"} : g[f] = s[f]
      <4>1. CASE c = 0 \/ werr
        <5>1. g = ReadStatus(s)
          BY <4>1
        <5> HIDE DEF g
        <5> QED BY <4>1, <5>1, <1>1, Fields DEF ReadStatus, EngineOK
      <4>2. CASE ~(c = 0 \/ werr)
        <5>1. g = s
          BY <4>2
        <5> HIDE DEF g
        <5> QED BY <4>2, <5>1, <1>1, <1>3 DEF EngineOK, Runs
      <4> QED BY <4>1, <4>2
    <3>2. h = Stop(g)
      BY <3>1 DEF Halted
    <3> HIDE DEF g, h
    <3> QED BY <3>1, <3>2, Fields DEF Stop
  <2>2. Steps(h) = {}
    BY <2>1 DEF Steps
  <2>3. u \in Serviced(h, n)
    <3>1. CASE c # 0
      BY <3>1, <1>3 DEF Service
    <3>2. CASE c = 0
      <4>1. u \in UNION {Serviced(k, k.hcnt) : k \in
                         UNION {{g} \cup Steps(g) : g \in {h}}}
        BY <3>2, <1>3 DEF Service
      <4> QED BY <3>2, <4>1, <2>2
    <3> QED BY <3>1, <3>2
  <2>4. n = s.hcnt /\ n \in Nat /\ n \in 0 .. DescMax
    <3>1. n = s.hcnt
      BY <2>1
    <3>2. s.hcnt \in 0 .. DescMax /\ DescMax \in Nat
      BY <1>1, SizesAssumption DEF EngineOK
    <3> QED BY <3>1, <3>2
  <2>5. Good(h)
    BY HaltedKeeps
  <2> HIDE DEF h, n
  <2>6. /\ Rest(h) /\ h.list # <<>> /\ h.dequeued = 0
        /\ n <= h.dnum[Head(h.list)]
        /\ h.err => Head(h.list) \in h.erred
        /\ ~h.err => n = h.dnum[Head(h.list)]
    BY <1>3, <2>1, <2>4 DEF Runs, Rest
  <2>7. CASE n = 0
    <3>1. u = h
      BY <2>3, <2>7 DEF Serviced
    <3> QED BY <3>1, <2>6 DEF Rest, Runs, Reports
  <2>8. CASE n # 0
    <3> DEFINE p == ServiceList(h, n)
               f == ServiceFinal(p.s, p.n)
    <3>1. u = Resume(f)
      <4>1. (n - h.dequeued) % Word = n
        <5>1. n - h.dequeued = n /\ n < Word /\ Word \in Nat
          BY <2>4, <2>6, SizesAssumption
        <5>2. n % Word = n
          BY <5>1, <2>4
        <5> QED BY <5>1, <5>2
      <4> QED BY <2>3, <2>8, <4>1 DEF Serviced
    <3>2. /\ p.n = n /\ p.s.list = h.list /\ p.s.state = h.state
          /\ DOMAIN p.s = DOMAIN IdleEngine
          /\ \A k \in DOMAIN IdleEngine \ (Untold \cup {"dequeued"}) :
               p.s[k] = h[k]
      BY <2>4, <2>5, <2>6, CountAtHead
    <3>3. Good(p.s)
      BY <2>5, ServiceListKeeps
    <3> HIDE DEF p
    <3>4. /\ p.s.running = h.running /\ p.s.hw = h.hw /\ p.s.herr = h.herr
          /\ p.s.wb = h.wb /\ p.s.wberr = h.wberr /\ p.s.irq = h.irq
          /\ p.s.erred = h.erred /\ p.s.err = h.err /\ p.s.dnum = h.dnum
      BY <3>2, Fields DEF Untold, Told
    <3>5. Rest(p.s)
      BY <2>6, <3>2, <3>4 DEF Rest
    <3>6. Rest(f) /\ Good(f)
      BY <2>4, <2>6, <3>2, <3>3, <3>4, <3>5, FinalRests, ServiceFinalKeeps
    <3> HIDE DEF f
    <3>7. u = Start(f)
      BY <3>1, <3>6 DEF Resume, Rest
    <3> QED BY <3>6, <3>7, StartRuns DEF Good, EngineInv
  <2> QED BY <2>7, <2>8
<1> QED
  BY <1>2, <1>3

-----------------------------------------------------------------------------
(* The actions, as long as nothing has disturbed the engine.               *)

(* Which of its two ways the engine reports by never changes.              *)
LEMMA PathHolds ==
  ASSUME CoreInv, PathInv, [Next]_vars PROVE PathInv'
<1>0. scenario.poll \in BOOLEAN /\ TypeOK
  BY ScenariosAssumption DEF CoreInv, TypeOK
<1>1. scenario' = scenario
  <2>1. CASE Hardware
    BY <2>1, HwCases
  <2>2. CASE ~Hardware
    BY <2>2 DEF Next, SyncStep, AioStep, Poll, Device, SyncCall, SyncLock,
       Build, SyncQueue, SyncWakePoll, SyncWake, SyncTimeout, SyncChecked,
       SyncExpired, AioSubmit, AioQueue, Isr, ServiceWork, PollBegin,
       PollRead, PollMonitor, PollGivesUp, OfflineFlag, OfflineEngine,
       OfflineIrqs, OnlineEngine, OnlineIrqs, Defined, vars
  <2> QED BY <2>1, <2>2
<1>2. CASE UNCHANGED <<irq_on, work, ppc>>
  BY <1>1, <1>2 DEF PathInv
<1>3. ASSUME NEW t \in Sync, SyncStep(t) PROVE UNCHANGED <<irq_on, work, ppc>>
  BY <1>3 DEF SyncStep, SyncCall, SyncLock, Build, SyncQueue, SyncWakePoll,
     SyncWake,
              SyncTimeout, SyncChecked, SyncExpired, irqVars, pollVars
<1>4. ASSUME NEW t \in Aio, AioStep(t) PROVE UNCHANGED <<irq_on, work, ppc>>
  BY <1>4 DEF AioStep, AioSubmit, AioQueue, Build, irqVars, pollVars
<1>5. CASE Hardware
  BY <1>2, <1>5, HwCases DEF irqVars, pollVars
<1>6. CASE Isr \/ ServiceWork
  BY <1>0, <1>1, <1>6 DEF Isr, ServiceWork, PathInv, pollVars
<1>7. CASE Poll
  BY <1>0, <1>1, <1>7 DEF Poll, PollBegin, PollRead, PollMonitor, PollGivesUp,
     PathInv, irqVars
<1>8. CASE Device
  BY <1>0, <1>1, <1>8 DEF Device, OfflineFlag, OfflineEngine, OfflineIrqs,
     OnlineEngine,
                         OnlineIrqs, PathInv, irqVars, pollVars, TypeOK
<1>9. CASE UNCHANGED vars
  BY <1>2, <1>9 DEF vars, irqVars, pollVars
<1> QED
  BY <1>2, <1>3, <1>4, <1>5, <1>6, <1>7, <1>8, <1>9 DEF Next

(* Nothing of a run is touched when these parts of an engine stay.         *)
SameRun(s, u) ==
  /\ u.hw = s.hw /\ u.running = s.running /\ u.list = s.list /\ u.hx = s.hx
  /\ u.hcnt = s.hcnt /\ u.dequeued = s.dequeued /\ u.err = s.err
  /\ u.herr = s.herr /\ u.erred = s.erred /\ u.state = s.state
  /\ u.irq = s.irq /\ u.wb = s.wb /\ u.wberr = s.wberr
  /\ s.list # <<>> => u.dnum[Head(s.list)] = s.dnum[Head(s.list)]

(* Then the invariant of a run holds on.                                   *)
LEMMA SameRunHolds ==
  ASSUME RunInv, PathInv, scenario' = scenario, SameRun(eng, eng'),
         work' = work,
         upset.what \subseteq upset'.what
  PROVE  RunInv'
BY DEF RunInv, SameRun, Runs, Reports

(* Releasing a request does not touch the run.                             *)
LEMMA FreeRun ==
  ASSUME EngineOK(eng), NEW R, eng' = [eng EXCEPT !.freed = @ \cup R]
  PROVE  SameRun(eng, eng')
BY Fields DEF EngineOK, SameRun

(* One descriptor more is counted as it is moved, when the ring is tidy.   *)
LEMMA AdvanceFields ==
  ASSUME NEW s, NEW X, Neat(s, X), NEW u \in Steps(s)
  PROVE  LET n == s.hcnt + 1
         IN /\ \A f \in DOMAIN IdleEngine \ {"hcnt", "moved", "hw", "irq",
                    "wb"} : u[f] = s[f]
            /\ u.hcnt = n /\ n <= s.dnum[s.hx] /\ n <= u.moved[s.hx]
            /\ \A x \in Xfers : s.moved[x] <= u.moved[x]
            /\ u.hw = IF n = s.dnum[s.hx] \/ s.hw = "drain" THEN "idle"
                      ELSE s.hw
            /\ u.irq = (s.irq \/ u.hw = "idle")
            /\ u.wb = IF n = s.dnum[s.hx] /\ scenario.poll THEN n ELSE s.wb
<1> DEFINE n == s.hcnt + 1
           last == n >= s.dnum[s.hx]
           done == last \/ s.hw = "drain"
<1>0. EngineOK(s) /\ s.hw # "idle" /\ s.hx \in Xfers /\ Tidy(s, X)
  BY StepsAre DEF Neat, Good, EngineInv
<1>1. /\ s.hcnt < s.dnum[s.hx] /\ s.hcnt \in Nat /\ s.at[s.hx] \in Nat
      /\ s.dnum[s.hx] \in Nat /\ s.moved[s.hx] \in Nat
  <2>1. s.hcnt < s.dnum[s.hx]
    BY <1>0 DEF Tidy
  <2>2. /\ s.hcnt \in 0 .. DescMax /\ s.dnum[s.hx] \in 0 .. DescMax
        /\ s.moved[s.hx] \in 0 .. DescMax /\ s.at[s.hx] \in 0 .. DescMax - 1
    BY <1>0 DEF EngineOK, Slots
  <2> QED BY <2>1, <2>2, SizesAssumption
<1>2. n <= s.dnum[s.hx] /\ (last <=> n = s.dnum[s.hx])
  BY <1>1
<1>3. /\ \A f \in DOMAIN IdleEngine \ {"hcnt", "moved", "hw", "irq", "wb"} :
           u[f] = s[f]
      /\ u.hcnt = n /\ u.hw = (IF done THEN "idle" ELSE s.hw)
      /\ u.irq = (s.irq \/ done)
      /\ u.wb = IF last /\ scenario.poll THEN n ELSE s.wb
      /\ u.moved = [s.moved EXCEPT ![s.hx] = IF n > @ THEN n ELSE @]
  <2>1. s.at[s.hx] + (s.hcnt + 1) - s.at[s.hx] = s.hcnt + 1
    BY <1>1
  <2>2. u = Advance(s, s.hx)
    BY StepsNeat
  <2> QED BY <1>0, <2>1, <2>2, Fields DEF Advance, EngineOK
<1>4. n <= u.moved[s.hx]
  BY <1>0, <1>1, <1>3 DEF EngineOK
<1>5. \A x \in Xfers : s.moved[x] <= u.moved[x]
  <2> SUFFICES ASSUME NEW x \in Xfers PROVE s.moved[x] <= u.moved[x]
    OBVIOUS
  <2>1. s.moved[x] \in Nat
    <3>1. s.moved[x] \in 0 .. DescMax
      BY <1>0 DEF EngineOK
    <3> QED BY <3>1, SizesAssumption
  <2> QED BY <1>0, <1>1, <1>3, <2>1 DEF EngineOK
<1> QED
  BY <1>0, <1>2, <1>3, <1>4, <1>5

(* What carving a chunk leaves alone.                                      *)
LEMMA BuildFields ==
  ASSUME CoreInv, NEW t \in Tasks, Build(t)
  PROVE  /\ Good(eng) /\ eng.state[Cur(t)] = "new"
         /\ \A f \in DOMAIN IdleEngine \ {"dnum", "at", "ring", "idx"} :
              eng'[f] = eng[f]
         /\ \A y \in Xfers : y # Cur(t) => eng'.dnum[y] = eng.dnum[y]
         /\ scenario' = scenario /\ work' = work
         /\ upset.what \subseteq upset'.what /\ upset'.forged = upset.forged
<1> DEFINE x == Cur(t)
           n == left[t]
<1>1. /\ TypeOK /\ TaskInv(t) /\ Good(eng) /\ pc[t] = "build" /\ ~Dangling
      /\ eng' = Carve(eng, x, n) /\ scenario' = scenario /\ work' = work
      /\ upset' = upset \/ Disturb("overrun")
  BY Alive DEF CoreInv, CallInv, Build, Defined, irqVars
<1>2. x \in Xfers /\ n \in Nat \ {0}
  BY <1>1, TaskTypes DEF TaskInv
<1>3. Unqueued(eng, x) /\ eng.dnum[x] = 0 /\ eng.state[x] = "new"
  <2>1. Uncarved(x) /\ Ahead(x) /\ x[1] = t
    <3>1. chunk[t] \in Nat
      BY <1>1, TaskTypes
    <3> QED BY <1>1, <3>1 DEF Uncarved, Ahead, Pending, Cur
  <2> QED BY <2>1, <1>1, <1>2, UnqueuedCur DEF TaskInv
<1> HIDE DEF x, n
<1>4. CarvedOut(eng, x, n, eng')
  BY <1>1, <1>2, <1>3, CarveKeeps
<1>5. upset.what \subseteq upset'.what /\ upset'.forged = upset.forged
  BY <1>1 DEF Disturb, TypeOK
<1> QED BY <1>1, <1>3, <1>4, <1>5 DEF CarvedOut, x

(* What a call that finds its transfer over changes of the engine.         *)
LEMMA CheckedFields ==
  ASSUME CoreInv, NEW t \in Sync, SyncChecked(t)
  PROVE  /\ \A f \in DOMAIN IdleEngine \ {"ring", "freed"} : eng'[f] = eng[f]
         /\ UNCHANGED <<scenario, work, upset>>
<1>1. Good(eng) /\ UNCHANGED <<scenario, work, upset>>
  BY Alive DEF SyncChecked, Defined, irqVars
<1> DEFINE u == Cleared(t, eng)
<1>2. Good(u) /\ \A f \in DOMAIN IdleEngine \ {"ring"} : u[f] = eng[f]
  BY <1>1, ClearedKeeps
<1>3. eng' = u \/ eng' = [u EXCEPT !.freed = @ \cup {<<t, 1>>}]
  BY DEF SyncChecked, ChunkDone, Finish
<1> HIDE DEF u
<1>4. DOMAIN u = DOMAIN IdleEngine
  BY <1>2 DEF Good, EngineInv, EngineOK
<1> QED BY <1>1, <1>2, <1>3, <1>4

(* Carving a new chunk does not change the size of the head.               *)
LEMMA BuildRuns ==
  ASSUME CoreInv, PathInv, RunInv, NEW t \in Tasks, Build(t) PROVE RunInv'
<1>1. /\ Good(eng) /\ eng.state[Cur(t)] = "new"
      /\ \A f \in DOMAIN IdleEngine \ {"dnum", "at", "ring", "idx"} :
           eng'[f] = eng[f]
      /\ \A y \in Xfers : y # Cur(t) => eng'.dnum[y] = eng.dnum[y]
      /\ scenario' = scenario /\ work' = work
      /\ upset.what \subseteq upset'.what
  BY BuildFields
<1>2. eng.list # <<>> => /\ Head(eng.list) \in Xfers
                         /\ eng.state[Head(eng.list)] = "submitted"
  <2>1. eng.list # <<>> => Head(eng.list) = eng.list[1] /\ 1 \in Places(eng)
                           /\ Head(eng.list) \in Xfers
    BY <1>1 DEF Good, EngineInv, EngineOK, Places
  <2> QED BY <1>1, <2>1 DEF Good, Live
<1>3. eng.list # <<>> => eng'.dnum[Head(eng.list)] = eng.dnum[Head(eng.list)]
  BY <1>1, <1>2
<1>4. SameRun(eng, eng')
  BY <1>1, <1>3, Fields DEF SameRun
<1> QED
  BY <1>1, <1>4, SameRunHolds

(* Queueing a transfer behind a run leaves it, on an engine at rest it     *)
(* starts one.                                                             *)
LEMMA QueueRuns ==
  ASSUME NEW s, Good(s), Runs(s), Reports(s), NEW x \in Xfers,
         Good(Queue(s, x))
  PROVE  /\ Runs(Queue(s, x)) /\ Reports(Queue(s, x))
         /\ (s.running /\ s.hw = "idle" =>
               Queue(s, x).running /\ Queue(s, x).hw = "idle")
<1> DEFINE v == [s EXCEPT !.state[x] = "submitted", !.list = Append(@, x)]
<1>1. EngineOK(s)
  BY DEF Good, EngineInv
<1>2. /\ DOMAIN v = DOMAIN IdleEngine /\ v.list = Append(s.list, x)
      /\ \A f \in DOMAIN IdleEngine \ {"state", "list"} : v[f] = s[f]
      /\ \A y \in Xfers :
           v.state[y] = IF y = x THEN "submitted" ELSE s.state[y]
  BY <1>1, Fields DEF EngineOK
<1>3. EngineOK(v)
  <2>1. v.list \in Seq(Xfers)
    BY <1>1, <1>2 DEF EngineOK
  <2>2. v.state \in [Xfers -> XferStates]
    BY <1>1, Fields DEF EngineOK, XferStates
  <2> HIDE DEF v
  <2> QED BY <1>1, <1>2, <2>1, <2>2, Fields DEF EngineOK
<1>4. Queue(s, x) = Start(v)
  BY DEF Queue
<1> HIDE DEF v
<1>5. CASE s.running
  <2>1. Start(v) = v
    BY <1>2, <1>5, Fields DEF Start
  <2>2. v.list # <<>> /\ Head(v.list) = Head(s.list)
    <3>1. s.list \in Seq(Xfers) /\ s.list # <<>> /\ v.list = Append(s.list, x)
      <4>1. s.list \in Seq(Xfers)
        BY <1>1 DEF EngineOK
      <4>2. s.list # <<>>
        BY <1>5 DEF Runs
      <4> QED BY <4>1, <4>2, <1>2
    <3>2. Append(s.list, x) # <<>> /\ Head(Append(s.list, x)) = Head(s.list)
      BY <3>1
    <3> QED BY <3>1, <3>2
  <2>3. /\ v.hw = s.hw /\ v.running = s.running /\ v.hx = s.hx
        /\ v.hcnt = s.hcnt /\ v.dnum = s.dnum /\ v.dequeued = s.dequeued
        /\ v.err = s.err /\ v.herr = s.herr /\ v.erred = s.erred
        /\ v.irq = s.irq /\ v.wb = s.wb /\ v.wberr = s.wberr
    BY <1>2, Fields
  <2>4. Runs(v)
    BY <1>2, <2>2, <2>3 DEF Runs
  <2>5. Reports(v)
    BY <2>3 DEF Reports
  <2> QED BY <1>4, <2>1, <2>3, <2>4, <2>5
<1>6. CASE ~s.running
  <2>1. s.hw \in {"idle", "busy", "drain"} /\ s.wb \in 0 .. DescMax
    BY <1>1 DEF EngineOK
  <2>2. Rest(v)
    BY <1>2, <1>6, <2>1, Fields DEF Rest, Runs, Reports
  <2> QED BY <1>3, <1>4, <1>6, <2>2, StartRuns
<1> QED
  BY <1>5, <1>6

(* One descriptor more, or an error, while a transfer is run.              *)
LEMMA HwRuns ==
  ASSUME CoreInv, RingInv, PathInv, RunInv, Hardware PROVE RunInv'
<1>1. /\ Good(eng) /\ EngineOK(eng) /\ ~Dangling
      /\ scenario' = scenario /\ work' = work
      /\ \/ HwMove
         \/ eng.hw = "busy" /\ HwFails
         \/ eng.hw = "drain"
  <2>1. ~Dangling
    BY HwCases
  <2>2. Good(eng) /\ EngineOK(eng)
    BY <2>1, Alive DEF Good, EngineInv
  <2> QED BY <2>1, <2>2, HwCases DEF irqVars, EngineOK
<1>2. upset.what \subseteq upset'.what
  <2>1. upset' = upset \/ Disturb("orphan")
    BY HwCases DEF HwFails
  <2> QED BY <2>1 DEF Disturb, CoreInv, TypeOK
<1> SUFFICES ASSUME upset.what = {}
             PROVE  Runs(eng)' /\ Reports(eng)' /\ ~work
  BY <1>1, <1>2 DEF RunInv
<1>3. Neat(eng, Current)
  BY <1>1, RingNeat
<1>4. /\ Runs(eng) /\ Reports(eng) /\ (work => eng.hw = "idle")
      /\ eng.wb \in 0 .. DescMax /\ eng.hw \in {"idle", "busy", "drain"}
  BY <1>1 DEF RunInv, EngineOK
<1>5. ASSUME eng.hw # "idle"
      PROVE  /\ eng.hw = "busy" /\ ~work /\ eng.running /\ ~eng.herr
             /\ eng.wb = 0 /\ ~eng.wberr /\ (eng.irq => scenario.poll)
  BY <1>4, <1>5 DEF Runs, Reports
<1>6. CASE HwMove
  <2> DEFINE n == eng.hcnt + 1
             last == n = eng.dnum[eng.hx]
  <2>1. eng' \in Steps(eng) /\ eng.hw # "idle"
    BY <1>1, <1>6, StepsAre DEF HwMove
  <2>2. /\ \A f \in DOMAIN IdleEngine \ {"hcnt", "moved", "hw", "irq", "wb"} :
             eng'[f] = eng[f]
        /\ eng'.hcnt = n /\ n <= eng.dnum[eng.hx]
        /\ eng'.hw = IF last THEN "idle" ELSE "busy"
        /\ eng'.irq = (eng.irq \/ last)
        /\ eng'.wb = IF last /\ scenario.poll THEN n ELSE 0
    BY <1>3, <1>5, <2>1, AdvanceFields
  <2>3. Runs(eng')
    BY <1>4, <1>5, <2>1, <2>2, Fields DEF Runs
  <2>4. Reports(eng)'
    <3>1. eng'.irq => scenario.poll \/ last
      BY <1>5, <2>1, <2>2
    <3> QED BY <1>1, <1>5, <2>1, <2>2, <3>1, Fields DEF Reports
  <2> QED BY <1>5, <2>1, <2>3, <2>4 DEF Runs
<1>7. CASE eng.hw = "busy" /\ HwFails
  <2>1. /\ \A f \in DOMAIN IdleEngine \ {"hw", "herr", "irq", "wb", "wberr",
               "erred"} : eng'[f] = eng[f]
        /\ eng'.hw = "idle" /\ eng'.herr /\ eng'.irq
        /\ eng'.wb = IF scenario.poll THEN eng.hcnt ELSE 0
        /\ eng'.wberr = scenario.poll /\ eng'.erred = eng.erred \cup {eng.hx}
    BY <1>1, <1>7, Fields DEF HwFails, Fail, EngineOK
  <2>2. Runs(eng')
    BY <1>4, <1>5, <1>7, <2>1, Fields DEF Runs
  <2>3. Reports(eng)'
    BY <1>1, <1>5, <1>7, <2>1, Fields DEF Reports
  <2> QED BY <1>5, <1>7, <2>2, <2>3 DEF Runs
<1>8. CASE eng.hw = "drain"
  BY <1>5, <1>8
<1> QED
  BY <1>1, <1>6, <1>7, <1>8

(* The interrupt and its work item, for a run that has ended.              *)
LEMMA IrqRuns ==
  ASSUME CoreInv, PathInv, RunInv, Isr \/ ServiceWork PROVE RunInv'
<1>1. Good(eng)
  BY Alive DEF CoreInv, Isr, ServiceWork, Defined
<1>2. scenario' = scenario /\ upset' = upset
  BY DEF Isr, ServiceWork, Defined
<1> SUFFICES ASSUME upset.what = {}
             PROVE  /\ Runs(eng)' /\ Reports(eng)'
                    /\ work' => eng'.running /\ eng'.hw = "idle"
  BY <1>2 DEF RunInv
<1>3. Runs(eng) /\ Reports(eng) /\ (work => eng.running /\ eng.hw = "idle")
  BY DEF RunInv
<1>4. CASE Isr
  BY <1>2, <1>3, <1>4 DEF Isr, PathInv, Reports, Runs
<1>5. CASE ServiceWork
  <2>1. ~scenario.poll /\ work /\ work' = FALSE
        /\ eng' \in Service(eng, 0, FALSE)
    BY <1>5 DEF ServiceWork, PathInv
  <2>2. eng.hw = "idle" /\ eng.wb = 0 /\ ~eng.wberr
    BY <1>3, <2>1 DEF Reports
  <2>3. Runs(eng') /\ Reports(eng')
    BY <1>1, <1>3, <2>1, <2>2, ServiceRuns
  <2> QED BY <1>2, <2>1, <2>3 DEF Runs, Reports
<1> QED
  BY <1>4, <1>5

(* The polling thread, which takes the writeback of a run that has ended.  *)
LEMMA PollRuns ==
  ASSUME CoreInv, PathInv, RunInv, Poll PROVE RunInv'
<1>1. Good(eng) /\ EngineOK(eng)
  BY Alive DEF CoreInv, EngineInv, Poll, PollBegin, PollRead, PollMonitor,
     PollGivesUp, Defined
<1>2. /\ scenario' = scenario /\ work' = work
      /\ upset.what \subseteq upset'.what
  <2>1. upset \in [what : SUBSET Disturbances, forged : SUBSET Xfers]
    BY DEF CoreInv, TypeOK
  <2> QED
    BY <2>1 DEF Disturbances, Poll, PollBegin, PollRead, PollMonitor,
       PollGivesUp, Defined, irqVars
<1>3. CASE ~PollMonitor
  <2>1. eng' = eng
    BY <1>3 DEF Poll, PollBegin, PollRead, PollGivesUp
  <2> QED BY <1>2, <2>1, SameRunHolds DEF SameRun
<1>4. CASE PollMonitor
  <2> SUFFICES ASSUME upset.what = {}
               PROVE  Runs(eng)' /\ Reports(eng)' /\ ~work
    BY <1>2, <1>4 DEF RunInv, PollMonitor
  <2> DEFINE s == [eng EXCEPT !.wb = 0, !.wberr = FALSE]
  <2>1. Runs(eng) /\ Reports(eng) /\ scenario.poll /\ ~work
    BY <1>4 DEF RunInv, PollMonitor, PathInv
  <2>2. 0 \in 0 .. DescMax
    BY SizesAssumption
  <2>3. /\ EngineOK(s) /\ Engaged(s) /\ Alike(eng, s) /\ Runs(s)
        /\ s.hw = eng.hw /\ s.herr = eng.herr /\ s.wb = 0 /\ ~s.wberr
        /\ s.hcnt = eng.hcnt /\ s.irq = eng.irq
    BY <1>1, <2>1, <2>2, Fields
    DEF EngineOK, Engaged, Reached, Alike, Good, EngineInv, Runs
  <2>4. Good(s)
    BY <1>1, <2>3, Untouched
  <2>5. \/ eng' \in Service(s, eng.wb, eng.wberr)
        \/ eng' = s /\ ~eng.wberr
    BY <1>4 DEF PollMonitor
  <2> HIDE DEF s
  <2>6. eng.hw = "idle" /\ (eng.wb = 0 \/ eng.wb = eng.hcnt)
        /\ (~eng.wberr => ~eng.herr)
    BY <1>4, <2>1 DEF PollMonitor, Reports, Runs
  <2>7. Runs(eng') /\ Reports(eng')
    <3>1. CASE eng' \in Service(s, eng.wb, eng.wberr)
      BY <3>1, <2>1, <2>3, <2>4, <2>6, ServiceRuns
    <3>2. CASE eng' = s /\ ~eng.wberr
      BY <3>2, <2>1, <2>3, <2>6 DEF Reports
    <3> QED BY <2>5, <3>1, <3>2
  <2> QED BY <1>2, <2>1, <2>7 DEF Runs, Reports
<1> QED
  BY <1>3, <1>4

(* A transfer that is queued.                                              *)
LEMMA QueueStepRuns ==
  ASSUME CoreInv, PathInv, RunInv, ~Dangling, NEW t \in Tasks, pc[t] = "queue",
         eng' = Queue(eng, Cur(t)), UNCHANGED <<scenario, work, upset>>
  PROVE  RunInv'
<1>1. TypeOK /\ Good(eng) /\ Cur(t) \in Xfers
  BY Alive, TaskTypes DEF CoreInv
<1>2. Good(Queue(eng, Cur(t)))
  BY QueueStep
<1> SUFFICES ASSUME upset.what = {}
             PROVE  /\ Runs(eng)' /\ Reports(eng)'
                    /\ work => eng'.running /\ eng'.hw = "idle"
  BY DEF RunInv
<1>3. Runs(eng) /\ Reports(eng) /\ (work => eng.running /\ eng.hw = "idle")
  BY DEF RunInv
<1>4. Runs(eng') /\ Reports(eng') /\ (work => eng'.running /\ eng'.hw = "idle")
  BY <1>1, <1>2, <1>3, QueueRuns
<1> QED
  BY <1>4 DEF Runs, Reports

(* What read() and write() do to a run.                                    *)
LEMMA SyncRuns ==
  ASSUME CoreInv, PathInv, RunInv, NEW t \in Sync, SyncStep(t) PROVE RunInv'
<1>0. /\ EngineOK(eng) /\ t \in Tasks /\ SameRun(eng, eng)
      /\ upset \in [what : SUBSET Disturbances, forged : SUBSET Xfers]
  BY DEF CoreInv, TypeOK, Tasks, SameRun
<1>1. CASE SyncCall(t) \/ SyncLock(t) \/ SyncWakePoll(t) \/ SyncWake(t)
           \/ SyncTimeout(t)
  <2>1. UNCHANGED <<scenario, eng, work, upset>>
    BY <1>1 DEF SyncCall, SyncLock, SyncWakePoll, SyncWake, SyncTimeout,
       Defined, irqVars
  <2> QED BY <1>0, <2>1, SameRunHolds
<1>2. CASE Build(t)
  BY <1>0, <1>2, BuildRuns
<1>3. CASE SyncQueue(t)
  <2>1. UNCHANGED <<scenario, work, upset>> /\ ~Dangling /\ pc[t] = "queue"
    BY <1>3 DEF SyncQueue, Defined, irqVars
  <2>2. CASE Refused
    <3>1. eng' = [eng EXCEPT !.freed = @ \cup {<<t, 1>>}]
      BY <1>3, <2>2 DEF SyncQueue, Finish
    <3> QED BY <1>0, <2>1, <3>1, FreeRun, SameRunHolds
  <2>3. CASE ~Refused
    <3>1. eng' = Queue(eng, Cur(t))
      BY <1>3, <2>3 DEF SyncQueue
    <3> QED BY <1>0, <2>1, <3>1, QueueStepRuns
  <2> QED BY <2>2, <2>3
<1>4. CASE SyncChecked(t)
  <2>1. /\ \A f \in DOMAIN IdleEngine \ {"ring", "freed"} : eng'[f] = eng[f]
        /\ UNCHANGED <<scenario, work, upset>>
    BY <1>4, CheckedFields
  <2>2. SameRun(eng, eng')
    BY <2>1, Fields DEF SameRun
  <2> QED BY <2>1, <2>2, SameRunHolds
<1>5. CASE SyncExpired(t)
  <2>1. "timeout" \in upset'.what
    BY <1>0, <1>5 DEF SyncExpired
  <2> QED BY <2>1 DEF RunInv
<1> QED
  BY <1>1, <1>2, <1>3, <1>4, <1>5 DEF SyncStep

(* What an iocb does to a run.                                             *)
LEMMA AioRuns ==
  ASSUME CoreInv, PathInv, RunInv, NEW t \in Aio, AioStep(t) PROVE RunInv'
<1>0. /\ EngineOK(eng) /\ t \in Tasks /\ SameRun(eng, eng)
      /\ upset \in [what : SUBSET Disturbances, forged : SUBSET Xfers]
  BY DEF CoreInv, TypeOK, Tasks, SameRun
<1>1. CASE AioSubmit(t)
  <2>1. UNCHANGED <<scenario, eng, work, upset>>
    BY <1>1 DEF AioSubmit, Defined, irqVars
  <2> QED BY <1>0, <2>1, SameRunHolds
<1>2. CASE Build(t)
  BY <1>0, <1>2, BuildRuns
<1>3. CASE AioQueue(t)
  <2>1. UNCHANGED <<scenario, work>> /\ ~Dangling /\ pc[t] = "queue"
    BY <1>3 DEF AioQueue, Defined, irqVars
  <2>2. CASE Refused
    <3>1. eng' = [eng EXCEPT !.freed = @ \cup {ReqOf(Cur(t))}]
      BY <1>3, <2>2 DEF AioQueue
    <3>2. upset.what \subseteq upset'.what
      BY <1>0, <1>3, <2>2 DEF AioQueue, Disturb
    <3> QED BY <1>0, <2>1, <3>1, <3>2, FreeRun, SameRunHolds
  <2>3. CASE ~Refused
    <3>1. eng' = Queue(eng, Cur(t)) /\ upset' = upset
      BY <1>3, <2>3 DEF AioQueue
    <3> QED BY <1>0, <2>1, <3>1, QueueStepRuns
  <2> QED BY <2>2, <2>3
<1> QED
  BY <1>1, <1>2, <1>3 DEF AioStep

(* Only the flag is set before a run is disturbed.                         *)
LEMMA DeviceRuns ==
  ASSUME CoreInv, PathInv, RunInv, Device PROVE RunInv'
<1>0. /\ OfflineInv /\ SameRun(eng, eng)
      /\ upset \in [what : SUBSET Disturbances, forged : SUBSET Xfers]
  BY DEF CoreInv, TypeOK, SameRun
<1>1. CASE OfflineFlag
  <2>1. UNCHANGED <<scenario, eng, work, upset>>
    BY <1>1 DEF OfflineFlag, Defined, irqVars
  <2> QED BY <1>0, <2>1, SameRunHolds
<1>2. CASE ~OfflineFlag
  <2>1. "offline" \in upset'.what
    BY <1>0, <1>2 DEF Device, OfflineEngine, OfflineIrqs, OnlineEngine,
       OnlineIrqs,
                      Disturb, OfflineInv
  <2> QED BY <2>1 DEF RunInv
<1> QED
  BY <1>1, <1>2

(* The invariant of a run is kept by every step.                           *)
LEMMA RunSteps ==
  CoreInv /\ RingInv /\ PathInv /\ RunInv /\ [Next]_vars => RunInv'
<1> SUFFICES ASSUME CoreInv, RingInv, PathInv, RunInv, [Next]_vars
             PROVE  RunInv'
  OBVIOUS
<1>1. CASE UNCHANGED vars
  BY <1>1, SameRunHolds DEF SameRun, vars, irqVars
<1>2. CASE Next
  BY <1>2, SyncRuns, AioRuns, HwRuns, IrqRuns, PollRuns, DeviceRuns DEF Next
<1> QED
  BY <1>1, <1>2

(* It holds at the start, when nothing runs.                               *)
LEMMA RunStarts == Init => PathInv /\ RunInv
<1> SUFFICES ASSUME Init PROVE PathInv /\ RunInv
  OBVIOUS
<1>1. PathInv
  BY DEF Init, PathInv
<1>2. eng = IdleEngine /\ ~work
  BY DEF Init
<1> QED
  BY <1>1, <1>2 DEF RunInv, Runs, Reports, IdleEngine

(* The invariant of a run holds always.                                    *)
THEOREM EngineRuns == Spec => [](PathInv /\ RunInv)
<1>1. CoreInv /\ RingInv /\ (PathInv /\ RunInv) /\ [Next]_vars
        => (PathInv /\ RunInv)'
  BY PathHolds, RunSteps
<1> QED
  BY <1>1, RunStarts, EngineCore, EngineRing, PTL DEF Spec

(* The head of the list is in the ring as it was written.                  *)
LEMMA HeadWhole ==
  ASSUME NEW s, NEW X, Neat(s, X), s.list # <<>>
  PROVE  Whole(s, Head(s.list))
<1> DEFINE x == Head(s.list)
<1>1. EngineOK(s) /\ Good(s)
  BY DEF Neat, Good, EngineInv
<1>2. x \in Xfers /\ x = s.list[1] /\ 1 \in Places(s)
  BY <1>1 DEF EngineOK, Places
<1>3. s.state[x] = "submitted" /\ ReqOf(x) \notin s.freed /\ x \in X
  BY <1>1, <1>2 DEF Good, Live, Neat
<1>4. s.dnum[x] > 0
  <2>1. s.dnum[x] >= 1 /\ s.dnum[x] \in 0 .. DescMax
    BY <1>1, <1>2, <1>3 DEF Good, EngineInv, Carved, EngineOK
  <2> QED BY <2>1, SizesAssumption
<1> QED BY <1>3, <1>4 DEF Neat, Tidy

(* As long as no wait expired, the device was not taken offline and the    *)
(* ring was not run over, the hardware works on the head of the list only, *)
(* on that transfer's own descriptors (HardwareRunsHead).                  *)
THEOREM EngineRunsHead == Spec => []HardwareRunsHead
<1>1. CoreInv /\ RingInv /\ RunInv => HardwareRunsHead
  <2> SUFFICES ASSUME CoreInv, RingInv, RunInv,
                      upset.what = {}, eng.hw # "idle"
               PROVE  /\ eng.list # <<>> /\ eng.hx = Head(eng.list)
                      /\ \A p \in SlotsOf(eng, eng.hx) : eng.ring[p] = eng.hx
    BY DEF HardwareRunsHead
  <2>1. eng.hw = "busy"
    BY DEF CoreInv, TypeOK, EngineOK, RunInv, Runs
  <2>2. eng.list # <<>> /\ eng.hx = Head(eng.list)
    BY <2>1 DEF RunInv, Runs
  <2>3. Neat(eng, Current)
    BY RingNeat DEF CoreInv, StrandInv
  <2>4. Whole(eng, eng.hx)
    BY <2>2, <2>3, HeadWhole
  <2> QED BY <2>2, <2>4 DEF Whole
<1> QED
  BY <1>1, EngineCore, EngineRing, EngineRuns, PTL

(* And a transfer fails only if the hardware reported an error on that     *)
(* transfer (FailedMeansError).                                            *)
THEOREM EngineFailsForCause == Spec => []FailedMeansError
<1>1. RunInv => FailedMeansError
  BY DEF RunInv, Runs, FailedMeansError
<1> QED
  BY <1>1, EngineRuns, PTL

-----------------------------------------------------------------------------
(* The counts of a run: what a service leaves of them.                     *)

(* An engine that was stopped, with no writeback left for the polling      *)
(* thread.                                                                 *)
Calm(s) ==
  /\ ~s.running /\ s.hw # "busy" /\ (s.hw = "drain" => ~scenario.poll)
  /\ s.wb = 0 /\ ~s.wberr

(* What an engine that serves has at the head of its list.                 *)
LEMMA HeadLive ==
  ASSUME NEW s, Good(s), s.list # <<>>
  PROVE  /\ Head(s.list) \in Xfers /\ s.state[Head(s.list)] = "submitted"
         /\ s.dnum[Head(s.list)] \in 1 .. DescMax
<1> DEFINE x == Head(s.list)
<1>1. EngineOK(s) /\ s.list \in Seq(Xfers)
  BY DEF Good, EngineInv, EngineOK
<1>2. x = s.list[1] /\ 1 \in Places(s) /\ x \in Xfers
  BY <1>1 DEF Places
<1>3. s.state[x] = "submitted"
  BY <1>2 DEF Good, Live
<1>4. s.dnum[x] >= 1 /\ s.dnum[x] \in 0 .. DescMax
  BY <1>1, <1>2, <1>3 DEF Good, EngineInv, Carved, EngineOK
<1> QED
  BY <1>2, <1>3, <1>4

(* Its next run is of the head of the list, from the first descriptor on.  *)
LEMMA StartGoes ==
  ASSUME NEW s, EngineOK(s), Calm(s),
         s.list # <<>> => s.state[Head(s.list)] # "new"
  PROVE  /\ Going(Start(s)) /\ (Start(s).running => Fresh(Start(s)))
         /\ Start(s).moved = s.moved
<1>1. CASE s.list = <<>>
  BY <1>1 DEF Start, Calm, Going
<1>2. CASE s.list # <<>>
  <2> DEFINE u == Start(s)
             x == Head(s.list)
  <2>1. s.list \in Seq(Xfers)
    BY DEF EngineOK
  <2>2. x \in Xfers /\ s.state[x] # "new"
    BY <1>2, <2>1
  <2>3. 0 <= s.dnum[x] /\ 0 <= s.moved[x]
    <3>1. s.dnum[x] \in 0 .. DescMax /\ s.moved[x] \in 0 .. DescMax
      BY <2>2 DEF EngineOK
    <3> QED BY <3>1, SizesAssumption
  <2>4. /\ u.list = s.list /\ u.hx = x /\ u.hcnt = 0 /\ u.dnum = s.dnum
        /\ u.moved = s.moved /\ u.dequeued = 0 /\ u.hw = "busy"
        /\ u.running = TRUE /\ u.wb = s.wb /\ u.wberr = s.wberr
        /\ u.state = s.state
    BY <1>2, <2>1, Fields DEF Start, Calm, EngineOK
  <2> HIDE DEF u, x
  <2>5. Fresh(u)
    BY <2>4 DEF Fresh, x
  <2>6. Going(u)
    BY <1>2, <2>2, <2>3, <2>4, <2>5 DEF Going, Calm
  <2> QED BY <2>4, <2>5, <2>6 DEF u
<1> QED
  BY <1>1, <1>2

(* Retiring transfers does not set it going.                               *)
LEMMA RetireCalm ==
  ASSUME NEW s, EngineOK(s), Calm(s), NEW m, NEW r
  PROVE  Calm(Retire(s, m, r)) /\ Retire(s, m, r).moved = s.moved
<1> DEFINE u == Retire(s, m, r)
<1>1. Retired(s, m, r, u)
  BY RetireFields
<1> HIDE DEF u
<1>2. /\ u.running = s.running /\ u.hw = s.hw /\ u.wb = s.wb
      /\ u.wberr = s.wberr /\ u.moved = s.moved
  BY <1>1, Fields DEF Retired, Untold, Told
<1> QED
  BY <1>2 DEF Calm, u

(* The service of a stopped engine leaves it stopped, or starts a run.     *)
LEMMA CalmServiced ==
  ASSUME NEW s, Good(s), Calm(s), NEW n, NEW u \in Serviced(s, n)
  PROVE  Going(u) /\ (u.running => Fresh(u)) /\ u.moved = s.moved
<1>1. CASE n = 0
  BY <1>1 DEF Serviced, Calm, Going
<1>2. CASE n # 0
  <2> DEFINE c == (n - s.dequeued) % Word
             m == Cardinality({j \in 1 .. Len(s.list) : Sums(s)[j] < c})
             v == [s EXCEPT !.dequeued = (@ + Sums(s)[m]) % Word]
             p == ServiceList(s, c)
             f == ServiceFinal(p.s, p.n)
  <2>1. u = Resume(f)
    BY <1>2 DEF Serviced
  <2>2. Good(p.s) /\ Good(f)
    BY ServiceListKeeps, ServiceFinalKeeps
  <2>3. p.s = Retire(v, m, "completed")
    BY DEF ServiceList
  <2>4. EngineOK(v) /\ Calm(v) /\ v.moved = s.moved
    <3>1. Sums(s)[m] \in Nat
      BY ListCount, SumsFacts DEF Good, EngineInv
    <3> HIDE DEF m
    <3>2. Good(v)
      BY <3>1, DequeueKeeps
    <3>3. Calm(v) /\ v.moved = s.moved
      BY Fields DEF Calm, Good, EngineInv, EngineOK
    <3> QED BY <3>2, <3>3 DEF Good, EngineInv
  <2>5. Calm(p.s) /\ p.s.moved = s.moved
    <3> HIDE DEF v, m, p
    <3> QED BY <2>3, <2>4, RetireCalm
  <2> HIDE DEF p
  <2>6. EngineOK(p.s) /\ DOMAIN p.s = DOMAIN IdleEngine
    BY <2>2 DEF Good, EngineInv, EngineOK
  <2>7. Calm(f) /\ f.moved = p.s.moved
    <3>1. CASE p.s.list = <<>>
      BY <3>1, <2>5 DEF ServiceFinal
    <3>2. CASE p.s.list # <<>> /\ p.s.err
      <4>1. f = Retire(Stop(p.s), 1, "failed")
        BY <3>2 DEF ServiceFinal
      <4>2. /\ EngineOK(Stop(p.s)) /\ Calm(Stop(p.s))
            /\ Stop(p.s).moved = p.s.moved
        BY <2>2, <2>5, <2>6, StopKeeps, Fields
        DEF Stop, Calm, Good, EngineInv
      <4> QED BY <4>1, <4>2, RetireCalm
    <3>3. CASE p.s.list # <<>> /\ ~p.s.err
      <4> DEFINE d == p.s.dnum[Head(p.s.list)]
                 w == [p.s EXCEPT !.dequeued = (@ + d) % Word]
                 r == IF p.n < d THEN "failed" ELSE "completed"
      <4>1. f = Retire(w, 1, r)
        BY <3>3 DEF ServiceFinal
      <4>2. EngineOK(w) /\ Calm(w) /\ w.moved = p.s.moved
        <5>1. d \in Nat
          BY <2>2, <3>3, HeadLive, SizesAssumption
        <5> HIDE DEF d
        <5>2. Good(w)
          BY <2>2, <5>1, DequeueKeeps
        <5>3. Calm(w) /\ w.moved = p.s.moved
          BY <2>5, <2>6, Fields DEF Calm
        <5> QED BY <5>2, <5>3 DEF Good, EngineInv
      <4> HIDE DEF w, r
      <4> QED BY <4>1, <4>2, RetireCalm
    <3> QED BY <3>1, <3>2, <3>3
  <2> HIDE DEF f
  <2>8. u = Start(f)
    BY <2>1, <2>7 DEF Resume, Calm
  <2>9. EngineOK(f) /\ (f.list # <<>> => f.state[Head(f.list)] # "new")
    BY <2>2, HeadLive DEF Good, EngineInv
  <2> QED BY <2>5, <2>7, <2>8, <2>9, StartGoes
<1> QED
  BY <1>1, <1>2

(* What is left when the count was of the head of the list and of nothing  *)
(* behind it: the head is over, the engine stopped by an error if any.     *)
HeadOver(s, n, f) ==
  LET x == Head(s.list)
  IN /\ f.list = Tail(s.list)
     /\ \A y \in Xfers \ {x} : f.state[y] = s.state[y]
     /\ f.state[x] = IF s.err \/ n < s.dnum[x] THEN "failed" ELSE "completed"
     /\ f.hx = s.hx /\ f.hcnt = s.hcnt /\ f.moved = s.moved /\ f.dnum = s.dnum
     /\ f.irq = s.irq /\ f.wb = s.wb /\ f.wberr = s.wberr
     /\ s.err => ~f.running /\ f.hw = IF s.hw = "busy" THEN "drain" ELSE s.hw
     /\ ~s.err => /\ f.running = s.running /\ f.hw = s.hw
                  /\ f.dequeued = (s.dequeued + s.dnum[x]) % Word

(* engine_service_final_transfer does that.                                *)
LEMMA FinalFields ==
  ASSUME NEW s, Good(s), s.list # <<>>, NEW n
  PROVE  HeadOver(s, n, ServiceFinal(s, n))
<1> DEFINE x == Head(s.list)
           r == IF s.err \/ n < s.dnum[x] THEN "failed" ELSE "completed"
           w == [s EXCEPT !.dequeued = (@ + s.dnum[x]) % Word]
           v == IF s.err THEN Stop(s) ELSE w
           f == Retire(v, 1, r)
<1>1. EngineOK(s) /\ s.list \in Seq(Xfers) /\ x = s.list[1]
  BY DEF Good, EngineInv, EngineOK
<1>2. ServiceFinal(s, n) = f
  BY DEF ServiceFinal
<1>3. /\ DOMAIN v = DOMAIN IdleEngine /\ v.list = s.list /\ v.state = s.state
      /\ v.hx = s.hx /\ v.hcnt = s.hcnt /\ v.moved = s.moved
      /\ v.dnum = s.dnum /\ v.irq = s.irq /\ v.wb = s.wb /\ v.wberr = s.wberr
      /\ s.err => ~v.running /\ v.hw = IF s.hw = "busy" THEN "drain" ELSE s.hw
      /\ ~s.err => /\ v.running = s.running /\ v.hw = s.hw
                   /\ v.dequeued = (s.dequeued + s.dnum[x]) % Word
  <2>1. CASE s.err
    BY <2>1, <1>1, Fields DEF Stop, EngineOK
  <2>2. CASE ~s.err
    <3>1. v = w
      BY <2>2
    <3> HIDE DEF v, x
    <3> QED BY <2>2, <3>1, <1>1, Fields DEF EngineOK
  <2> QED BY <2>1, <2>2
<1> HIDE DEF v
<1>4. Retired(v, 1, r, f)
  <2>1. s.dnum[x] \in Nat
    BY HeadLive, SizesAssumption
  <2>2. Good(v)
    BY <2>1, StopKeeps, DequeueKeeps DEF v
  <2> QED BY <2>2, RetireFields DEF Good, EngineInv
<1> HIDE DEF f, r
<1>5. Gone(v, 1) = {x}
  BY <1>1, <1>3 DEF Gone
<1>6. f.list = Tail(s.list)
  <2>1. f.list = SubSeq(s.list, 2, Len(s.list))
    BY <1>3, <1>4 DEF Retired
  <2> QED BY <1>1, <2>1
<1>7. \A y \in Xfers : f.state[y] = IF y = x THEN r ELSE s.state[y]
  BY <1>3, <1>4, <1>5 DEF Retired
<1>8. x \in Xfers
  BY <1>1
<1>9. /\ f.hx = v.hx /\ f.hcnt = v.hcnt /\ f.moved = v.moved
      /\ f.dnum = v.dnum /\ f.irq = v.irq /\ f.wb = v.wb /\ f.wberr = v.wberr
      /\ f.running = v.running /\ f.hw = v.hw /\ f.dequeued = v.dequeued
  BY <1>4, Fields DEF Retired, Untold, Told
<1>10. f.state[x] = IF s.err \/ n < s.dnum[x] THEN "failed" ELSE "completed"
  BY <1>7, <1>8 DEF r
<1>11. \A y \in Xfers \ {x} : f.state[y] = s.state[y]
  BY <1>7
<1> HIDE DEF w
<1> QED
  BY <1>2, <1>3, <1>6, <1>9, <1>10, <1>11, Zenon DEF HeadOver, x

(* So does engine_service, before it goes on with the next transfer.       *)
LEMMA HeadServiced ==
  ASSUME NEW s, Good(s), s.list # <<>>, NEW n, n # 0,
         NEW k \in Nat, k = (n - s.dequeued) % Word, k <= s.dnum[Head(s.list)],
         NEW u \in Serviced(s, n)
  PROVE  \E f : Good(f) /\ HeadOver(s, k, f) /\ u = Resume(f)
<1> DEFINE p == ServiceList(s, k)
           f == ServiceFinal(p.s, p.n)
<1>1. u = Resume(f)
  BY DEF Serviced
<1>2. /\ p.n = k /\ p.s.list = s.list /\ p.s.state = s.state
      /\ DOMAIN p.s = DOMAIN IdleEngine /\ p.s.dequeued = s.dequeued
      /\ \A g \in DOMAIN IdleEngine \ (Untold \cup {"dequeued"}) :
           p.s[g] = s[g]
  BY CountAtHead
<1>3. Good(p.s)
  BY ServiceListKeeps
<1> HIDE DEF p
<1>4. Good(f) /\ HeadOver(p.s, k, f)
  BY <1>2, <1>3, ServiceFinalKeeps, FinalFields
<1>5. /\ p.s.hx = s.hx /\ p.s.hcnt = s.hcnt /\ p.s.moved = s.moved
      /\ p.s.dnum = s.dnum /\ p.s.irq = s.irq /\ p.s.wb = s.wb
      /\ p.s.wberr = s.wberr /\ p.s.running = s.running /\ p.s.hw = s.hw
      /\ p.s.err = s.err
  BY <1>2, Fields DEF Untold, Told
<1> HIDE DEF f
<1>6. HeadOver(s, k, f)
  BY <1>2, <1>4, <1>5 DEF HeadOver
<1> QED
  BY <1>1, <1>4, <1>6

(* Going on says nothing of what was moved.                                *)
LEMMA ResumeFields ==
  ASSUME NEW s, DOMAIN s = DOMAIN IdleEngine
  PROVE  /\ Resume(s).state = s.state /\ Resume(s).dnum = s.dnum
         /\ Resume(s).moved = s.moved
BY Fields DEF Resume, Stop, Start

(* A head that completes was counted whole; if a count is of what was      *)
(* moved, so is what completes.                                            *)
LEMMA CreditServiced ==
  ASSUME NEW s, Good(s), s.list # <<>>, NEW n,
         NEW k \in Nat, k = (n - s.dequeued) % Word, k <= s.dnum[Head(s.list)],
         k = s.dnum[Head(s.list)] => k <= s.moved[Head(s.list)],
         NEW F, Credit(s, F), NEW u \in Serviced(s, n)
  PROVE  Credit(u, F)
<1>1. CASE n = 0
  BY <1>1 DEF Serviced
<1>2. CASE n # 0
  <2>1. PICK f : Good(f) /\ HeadOver(s, k, f) /\ u = Resume(f)
    BY <1>2, HeadServiced
  <2>2. /\ u.state = f.state /\ u.dnum = f.dnum /\ u.moved = f.moved
    BY <2>1, ResumeFields DEF Good, EngineInv, EngineOK
  <2>3. s.dnum[Head(s.list)] \in Nat
    BY HeadLive, SizesAssumption
  <2>4. f.dnum = s.dnum /\ f.moved = s.moved
    BY <2>1 DEF HeadOver
  <2>5. ASSUME NEW x \in Xfers, f.state[x] = "completed"
        PROVE  x \in F \/ s.dnum[x] <= s.moved[x]
    <3>1. CASE x = Head(s.list)
      <4>1. ~(k < s.dnum[Head(s.list)])
        BY <2>1, <2>5, <3>1 DEF HeadOver
      <4> QED BY <4>1, <2>3, <3>1
    <3>2. CASE x # Head(s.list)
      BY <2>1, <2>5, <3>2 DEF HeadOver, Credit
    <3> QED BY <3>1, <3>2
  <2> QED BY <2>2, <2>4, <2>5 DEF Credit
<1> QED
  BY <1>1, <1>2

(* The interrupt of an earlier run is serviced while the hardware works on *)
(* the head: if it has moved anything the head is over, and unless the     *)
(* engine is stopped the run is of no listed transfer any more.            *)
LEMMA BusyServiced ==
  ASSUME NEW s, Good(s), s.list # <<>>, s.running, ~scenario.poll,
         s.hw # "drain", s.hx = Head(s.list), s.dequeued = 0,
         s.hw = "busy" => ~s.irq, s.hw = "idle" => s.hcnt = s.dnum[s.hx],
         s.hcnt <= s.dnum[s.hx], s.hcnt <= s.moved[s.hx],
         s.wb = 0, ~s.wberr, NEW u \in Serviced(s, s.hcnt)
  PROVE  Going(u)
<1>1. /\ EngineOK(s) /\ s.list \in Seq(Xfers) /\ s.hcnt \in Nat
      /\ s.hcnt \in 0 .. DescMax
  <2>1. EngineOK(s)
    BY DEF Good, EngineInv
  <2>2. s.list \in Seq(Xfers) /\ s.hcnt \in 0 .. DescMax
    BY <2>1 DEF EngineOK
  <2> QED BY <2>1, <2>2, SizesAssumption
<1>2. /\ s.hx \in Xfers /\ s.state[s.hx] = "submitted"
      /\ s.dnum[s.hx] \in 1 .. DescMax
  BY HeadLive
<1>3. (s.hcnt - s.dequeued) % Word = s.hcnt
  <2>1. s.hcnt - s.dequeued = s.hcnt /\ s.hcnt < Word /\ Word \in Nat
    BY <1>1, SizesAssumption
  <2> QED BY <1>1, <2>1
<1>4. CASE s.hcnt = 0
  <2>1. u = s
    BY <1>4 DEF Serviced
  <2> QED BY <1>2, <2>1 DEF Going, Fresh
<1>5. CASE s.hcnt # 0
  <2>1. PICK f : Good(f) /\ HeadOver(s, s.hcnt, f) /\ u = Resume(f)
    BY <1>1, <1>3, <1>5, HeadServiced
  <2>2. /\ f.hx = s.hx /\ f.hcnt = s.hcnt /\ f.moved = s.moved
        /\ f.dnum = s.dnum /\ f.irq = s.irq /\ f.wb = 0 /\ ~f.wberr
        /\ f.state[s.hx] \in Over
    BY <2>1 DEF HeadOver, Over
  <2>3. EngineOK(f)
    BY <2>1 DEF Good, EngineInv
  <2>4. CASE s.err
    <3>1. Calm(f)
      BY <2>1, <2>2, <2>4 DEF HeadOver, Calm
    <3>2. u = Start(f)
      BY <2>1, <3>1 DEF Resume, Calm
    <3>3. f.list # <<>> => f.state[Head(f.list)] # "new"
      BY <2>1, HeadLive
    <3> QED BY <2>3, <3>1, <3>2, <3>3, StartGoes
  <2>5. CASE ~s.err
    <3>1. /\ f.running /\ f.hw = s.hw
          /\ f.dequeued = (s.dequeued + s.dnum[s.hx]) % Word
      BY <2>1, <2>5 DEF HeadOver
    <3>2. CASE f.list = <<>>
      <4>1. u = Stop(f)
        BY <2>1, <3>1, <3>2 DEF Resume
      <4>2. ~u.running /\ u.hw # "busy" /\ u.wb = 0 /\ ~u.wberr
        BY <2>2, <2>3, <4>1, Fields DEF Stop, EngineOK
      <4> QED BY <4>2 DEF Going
    <3>3. CASE f.list # <<>>
      <4>1. u = f
        BY <2>1, <3>1, <3>3 DEF Resume
      <4>2. f.state[Head(f.list)] = "submitted"
        BY <2>1, <3>3, HeadLive
      <4>3. f.hx # Head(f.list)
        BY <2>2, <4>2 DEF Over
      <4>4. f.dequeued = s.dnum[s.hx]
        <5>1. s.dequeued + s.dnum[s.hx] = s.dnum[s.hx]
              /\ s.dnum[s.hx] < Word /\ Word \in Nat
              /\ s.dnum[s.hx] \in Nat
          BY <1>2, SizesAssumption
        <5>2. s.dnum[s.hx] % Word = s.dnum[s.hx]
          BY <5>1
        <5> QED BY <3>1, <5>1, <5>2
      <4>5. Orphaned(f)
        BY <2>2, <3>1, <4>3, <4>4 DEF Orphaned
      <4>6. f.state[f.hx] # "new"
        BY <2>2 DEF Over
      <4> HIDE DEF Orphaned
      <4> QED BY <1>2, <2>2, <3>1, <3>3, <4>1, <4>5, <4>6 DEF Going
    <3> QED BY <3>2, <3>3
  <2> QED BY <2>4, <2>5
<1> QED
  BY <1>4, <1>5

(* The service of a run that has ended.                                    *)
LEMMA EndServiced ==
  ASSUME NEW s, Good(s), Going(s), s.running, s.hw = "idle",
         s.wb = 0, ~s.wberr, NEW c, NEW werr, c = 0 \/ c = s.hcnt,
         NEW F, Credit(s, F), NEW u \in Service(s, c, werr)
  PROVE  Going(u) /\ Credit(u, F) /\ (u.running => Fresh(u))
<1> DEFINE g == IF c = 0 \/ werr THEN ReadStatus(s) ELSE s
           h == Halted(s, c, werr)
<1>1. EngineOK(s) /\ s.list \in Seq(Xfers)
  BY DEF Good, EngineInv, EngineOK
<1>2. /\ DOMAIN g = DOMAIN IdleEngine /\ g.hw = "idle" /\ (c = 0 => ~g.busy)
      /\ \A f \in {"list", "dnum", "state", "moved", "hcnt", "dequeued", "hx",
             "wb", "wberr"} : g[f] = s[f]
  <2>1. CASE c = 0 \/ werr
    <3>1. g = ReadStatus(s)
      BY <2>1
    <3> HIDE DEF g
    <3> QED BY <3>1, <1>1, Fields DEF ReadStatus, EngineOK
  <2>2. CASE ~(c = 0 \/ werr)
    <3>1. g = s
      BY <2>2
    <3> HIDE DEF g
    <3> QED BY <2>2, <3>1, <1>1 DEF EngineOK
  <2> QED BY <2>1, <2>2
<1>3. h = Stop(g)
  BY <1>2 DEF Halted
<1> HIDE DEF g
<1>4. /\ ~h.running /\ h.hw = "idle"
      /\ \A f \in {"list", "dnum", "state", "moved", "hcnt", "dequeued", "hx",
             "wb", "wberr"} : h[f] = s[f]
  <2> HIDE DEF h
  <2> QED BY <1>2, <1>3, Fields DEF Stop
<1>5. Good(h)
  BY HaltedKeeps
<1>6. u \in Serviced(h, s.hcnt)
  <2>1. CASE c # 0
    BY <2>1 DEF Service
  <2>2. CASE c = 0
    <3>1. u \in UNION {Serviced(k, k.hcnt) : k \in
                         UNION {{q} \cup Steps(q) : q \in {h}}}
      BY <2>2 DEF Service
    <3>2. Steps(h) = {}
      BY <1>4 DEF Steps
    <3> HIDE DEF h
    <3> QED BY <3>1, <3>2, <1>4
  <2> QED BY <2>1, <2>2
<1> HIDE DEF h
<1>7. Calm(h) /\ h.list # <<>>
  BY <1>4 DEF Calm, Going
<1>8. Credit(h, F)
  BY <1>4 DEF Credit
<1>9. s.dnum[Head(s.list)] \in 1 .. DescMax
  BY <1>4, <1>7, HeadLive
<1>10. s.hcnt \in 0 .. DescMax /\ DescMax \in Nat /\ DescMax < Word
       /\ Word \in Nat
  BY <1>1, SizesAssumption DEF EngineOK
<1>11. CASE Fresh(s)
  <2>1. s.dequeued = 0 /\ s.hx = Head(s.list)
    BY <1>11 DEF Fresh
  <2>2. (s.hcnt - h.dequeued) % Word = s.hcnt /\ s.hcnt \in Nat
    <3>1. s.hcnt - h.dequeued = s.hcnt /\ s.hcnt \in Nat /\ s.hcnt < Word
      BY <1>4, <1>10, <2>1
    <3> QED BY <1>10, <3>1
  <2>3. s.hcnt <= h.dnum[Head(h.list)] /\ s.hcnt <= h.moved[Head(h.list)]
    BY <1>4, <2>1 DEF Going
  <2>4. Credit(u, F)
    BY <1>5, <1>6, <1>7, <1>8, <2>2, <2>3, CreditServiced
  <2> QED BY <1>5, <1>6, <1>7, <2>4, CalmServiced
<1>12. CASE Orphaned(s)
  <2>1. s.hcnt = s.dequeued
    BY <1>12 DEF Orphaned
  <2>2. (s.hcnt - h.dequeued) % Word = 0
    <3>1. s.hcnt - h.dequeued = 0
      BY <1>4, <1>10, <2>1
    <3> QED BY <1>10, <3>1
  <2>3. 0 <= h.dnum[Head(h.list)] /\ 0 # h.dnum[Head(h.list)]
    BY <1>4, <1>9, <1>10
  <2>4. Credit(u, F)
    <3>1. 0 \in Nat
      OBVIOUS
    <3> QED BY <1>5, <1>6, <1>7, <1>8, <2>2, <2>3, <3>1, CreditServiced
  <2> QED BY <1>5, <1>6, <1>7, <2>4, CalmServiced
<1> QED
  BY <1>11, <1>12 DEF Going

(* The service, by a late interrupt, of a run that goes on.                *)
LEMMA LateServiced ==
  ASSUME NEW s, Good(s), Going(s), s.running, s.hw = "busy", Fresh(s),
         ~scenario.poll, NEW F, Credit(s, F), NEW X, Neat(s, X),
         NEW u \in Service(s, 0, FALSE)
  PROVE  Going(u) /\ Credit(u, F)
<1> DEFINE g == ReadStatus(s)
<1>1. EngineOK(s) /\ s.list \in Seq(Xfers)
  BY DEF Good, EngineInv, EngineOK
<1>2. /\ g.busy /\ g.hw = "busy" /\ ~g.irq /\ g.running
      /\ \A f \in {"list", "dnum", "state", "moved", "hcnt", "dequeued", "hx",
             "wb", "wberr"} : g[f] = s[f]
  BY <1>1, Fields DEF ReadStatus, EngineOK
<1>3. Halted(s, 0, FALSE) = g
  BY <1>2 DEF Halted
<1>4. Neat(g, X) /\ Good(g) /\ \A q \in Steps(g) : Good(q)
  BY ReadNeat, StepsNeat DEF Neat
<1>5. PICK k \in {g} \cup Steps(g) : u \in Serviced(k, k.hcnt)
  <2>1. u \in UNION {Serviced(k, k.hcnt) : k \in
                       UNION {{q} \cup Steps(q) : q \in {g}}}
    BY <1>3 DEF Service
  <2> HIDE DEF g
  <2> QED BY <2>1
<1> HIDE DEF g
<1>6. /\ Good(k) /\ k.list = s.list /\ k.dnum = s.dnum /\ k.state = s.state
      /\ k.dequeued = 0 /\ k.hx = s.hx /\ k.hx = Head(s.list) /\ k.running
      /\ k.wb = 0 /\ ~k.wberr /\ k.hw # "drain" /\ (k.hw = "busy" => ~k.irq)
      /\ (k.hw = "idle" => k.hcnt = k.dnum[k.hx])
      /\ k.hcnt <= k.dnum[k.hx] /\ k.hcnt <= k.moved[k.hx]
      /\ \A x \in Xfers : s.moved[x] <= k.moved[x]
  <2>1. /\ s.dequeued = 0 /\ s.hx = Head(s.list) /\ s.wb = 0 /\ ~s.wberr
        /\ s.hcnt <= s.dnum[s.hx] /\ s.hcnt <= s.moved[s.hx]
    BY DEF Fresh, Going
  <2>2. CASE k = g
    <3>1. \A x \in Xfers : s.moved[x] <= s.moved[x]
      <4>1. \A x \in Xfers : s.moved[x] \in 0 .. DescMax
        BY <1>1 DEF EngineOK
      <4> QED BY <4>1, SizesAssumption
    <3> QED BY <1>2, <1>4, <2>1, <2>2, <3>1
  <2>3. CASE k \in Steps(g)
    <3>2. /\ \A f \in DOMAIN IdleEngine \ {"hcnt", "moved", "hw", "irq",
                    "wb"} : k[f] = g[f]
          /\ k.hcnt = g.hcnt + 1 /\ k.hcnt <= g.dnum[g.hx]
          /\ k.hcnt <= k.moved[g.hx]
          /\ \A x \in Xfers : g.moved[x] <= k.moved[x]
          /\ k.hw = (IF k.hcnt = g.dnum[g.hx] THEN "idle" ELSE "busy")
          /\ k.irq = (g.irq \/ k.hw = "idle")
          /\ k.wb = g.wb
      BY <1>2, <1>4, <2>3, AdvanceFields
    <3>3. /\ k.list = g.list /\ k.dnum = g.dnum /\ k.state = g.state
          /\ k.dequeued = g.dequeued /\ k.hx = g.hx /\ k.running = g.running
          /\ k.wberr = g.wberr
      BY <3>2, Fields
    <3> QED BY <1>2, <1>4, <2>1, <2>3, <3>2, <3>3
  <2> QED BY <2>2, <2>3
<1>7. s.list # <<>> /\ k.hx \in Xfers
  BY <1>6 DEF Going
<1>8. k.hcnt \in Nat /\ (k.hcnt - k.dequeued) % Word = k.hcnt
  <2>1. k.hcnt \in 0 .. DescMax
    BY <1>6 DEF Good, EngineInv, EngineOK
  <2>2. k.hcnt - k.dequeued = k.hcnt /\ k.hcnt \in Nat /\ k.hcnt < Word
        /\ Word \in Nat
    BY <1>6, <2>1, SizesAssumption
  <2> QED BY <2>2
<1>9. Credit(k, F)
  <2> SUFFICES ASSUME NEW x \in Xfers, k.state[x] = "completed"
               PROVE  x \in F \/ k.dnum[x] <= k.moved[x]
    BY DEF Credit
  <2>1. x \in F \/ s.dnum[x] <= s.moved[x]
    BY <1>6 DEF Credit
  <2>2. s.dnum[x] \in 0 .. DescMax /\ s.moved[x] \in 0 .. DescMax
        /\ k.moved[x] \in 0 .. DescMax
    BY <1>1, <1>6 DEF Good, EngineInv, EngineOK
  <2> QED BY <1>6, <2>1, <2>2, SizesAssumption
<1>10. Credit(u, F)
  BY <1>5, <1>6, <1>7, <1>8, <1>9, CreditServiced
<1>11. Going(u)
  BY <1>5, <1>6, <1>7, BusyServiced
<1> QED
  BY <1>10, <1>11

(* engine_service for an interrupt, or for the writeback of a run.         *)
LEMMA ServiceMoves ==
  ASSUME NEW s, Good(s), Going(s), s.wb = 0, ~s.wberr,
         NEW c, NEW werr, c = 0 \/ (s.hw = "idle" /\ c = s.hcnt),
         s.hw = "busy" => Fresh(s) /\ ~scenario.poll /\ ~werr,
         werr \in BOOLEAN, NEW F, Credit(s, F),
         NEW X, Neat(s, X), NEW u \in Service(s, c, werr)
  PROVE  Going(u) /\ Credit(u, F)
<1>1. EngineOK(s)
  BY DEF Good, EngineInv
<1>2. CASE ~s.running
  <2>1. u = ReadStatus(s)
    BY <1>2 DEF Service
  <2>2. /\ u.running = s.running /\ u.hw = s.hw /\ u.wb = s.wb
        /\ u.wberr = s.wberr /\ u.state = s.state /\ u.dnum = s.dnum
        /\ u.moved = s.moved
    BY <2>1, <1>1, Fields DEF ReadStatus, EngineOK
  <2> QED BY <1>2, <2>2 DEF Going, Credit
<1>3. CASE s.running /\ s.hw = "idle"
  BY <1>3, EndServiced
<1>4. CASE s.running /\ s.hw = "busy"
  <2>1. c = 0 /\ werr = FALSE
    BY <1>4
  <2> QED BY <1>4, <2>1, LateServiced
<1> QED
  BY <1>1, <1>2, <1>3, <1>4 DEF EngineOK, Going

(* engine_service for an expired wait: a run that goes on is stopped.      *)
LEMMA ForcedMoves ==
  ASSUME NEW s, Good(s), Going(s), ~scenario.poll, NEW c, c # 0,
         NEW u \in Service(s, c, FALSE)
  PROVE  Going(u) /\ (u.running => Fresh(u)) /\ u.moved = s.moved
<1>1. EngineOK(s)
  BY DEF Good, EngineInv
<1>2. CASE ~s.running
  <2>1. u = ReadStatus(s)
    BY <1>2 DEF Service
  <2>2. /\ u.running = s.running /\ u.hw = s.hw /\ u.wb = s.wb
        /\ u.wberr = s.wberr /\ u.moved = s.moved
    BY <2>1, <1>1, Fields DEF ReadStatus, EngineOK
  <2> QED BY <1>2, <2>2 DEF Going
<1>3. CASE s.running
  <2>1. Halted(s, c, FALSE) = Stop(s)
    BY DEF Halted
  <2>2. u \in Serviced(Stop(s), c)
    BY <1>3, <2>1 DEF Service
  <2>3. Good(Stop(s))
    BY StopKeeps
  <2>4. Calm(Stop(s)) /\ Stop(s).moved = s.moved
    BY <1>1, Fields DEF Stop, Calm, Going, EngineOK
  <2> QED BY <2>2, <2>3, <2>4, CalmServiced
<1> QED
  BY <1>2, <1>3

-----------------------------------------------------------------------------
(* The actions, as long as the counts can be trusted.                      *)

(* What is trusted now was before: no disturbance is forgotten.            *)
LEMMA StillTrusted ==
  ASSUME Trusted', upset.what \subseteq upset'.what, scenario' = scenario
  PROVE  Trusted
BY DEF Trusted

(* Nothing that is counted is touched when these parts of an engine stay.  *)
SameMoves(s, u) ==
  /\ u.hw = s.hw /\ u.running = s.running /\ u.list = s.list /\ u.hx = s.hx
  /\ u.hcnt = s.hcnt /\ u.dequeued = s.dequeued /\ u.irq = s.irq
  /\ u.wb = s.wb /\ u.wberr = s.wberr /\ u.state = s.state
  /\ u.moved = s.moved
  /\ \A x \in Xfers : s.state[x] # "new" => u.dnum[x] = s.dnum[x]

(* Then the run and the credit of transfers are what they were.            *)
LEMMA SameMovesKept ==
  ASSUME NEW s, NEW u, SameMoves(s, u)
  PROVE  /\ Going(s) => Going(u)
         /\ \A F : Credit(s, F) => Credit(u, F)
         /\ Fresh(s) => Fresh(u)
<1>1. Fresh(s) => Fresh(u)
  BY DEF SameMoves, Fresh
<1>2. ASSUME NEW F, Credit(s, F) PROVE Credit(u, F)
  BY <1>2 DEF SameMoves, Credit
<1>3. ASSUME Going(s) PROVE Going(u)
  <2>1. s.running => u.dnum[s.hx] = s.dnum[s.hx]
    BY <1>3 DEF Going, SameMoves
  <2>2. s.running /\ Orphaned(s) => Orphaned(u)
    BY <2>1 DEF Orphaned, SameMoves
  <2> QED BY <1>1, <1>3, <2>1, <2>2 DEF Going, SameMoves
<1> QED
  BY <1>1, <1>2, <1>3

(* And the invariant holds on.                                             *)
LEMMA SameMovesHold ==
  ASSUME MoveInv, scenario' = scenario, SameMoves(eng, eng'), work' = work,
         upset.what \subseteq upset'.what, upset'.forged = upset.forged
  PROVE  MoveInv'
<1> SUFFICES ASSUME Trusted'
             PROVE  /\ Credit(eng', upset'.forged) /\ Going(eng)'
                    /\ work /\ eng.running /\ eng.hw = "busy" => Fresh(eng')
  BY DEF MoveInv, SameMoves
<1>1. Trusted
  BY StillTrusted
<1>2. Going(eng')
  BY <1>1, SameMovesKept DEF MoveInv
<1>3. Going(eng)'
  BY <1>2 DEF Going
<1> QED
  BY <1>1, <1>3, SameMovesKept DEF MoveInv

(* Releasing a request does not touch what is counted.                     *)
LEMMA FreeMoves ==
  ASSUME NEW s, DOMAIN s = DOMAIN IdleEngine, NEW R
  PROVE  SameMoves(s, [s EXCEPT !.freed = @ \cup R])
BY Fields DEF SameMoves

(* Nor does carving a new chunk.                                           *)
LEMMA BuildMoves ==
  ASSUME CoreInv, MoveInv, NEW t \in Tasks, Build(t) PROVE MoveInv'
<1>1. /\ eng.state[Cur(t)] = "new"
      /\ \A f \in DOMAIN IdleEngine \ {"dnum", "at", "ring", "idx"} :
           eng'[f] = eng[f]
      /\ \A y \in Xfers : y # Cur(t) => eng'.dnum[y] = eng.dnum[y]
      /\ scenario' = scenario /\ work' = work
      /\ upset.what \subseteq upset'.what /\ upset'.forged = upset.forged
  BY BuildFields
<1>2. SameMoves(eng, eng')
  BY <1>1, Fields DEF SameMoves
<1> QED
  BY <1>1, <1>2, SameMovesHold

(* Queueing a transfer behind a run leaves it, on a stopped engine it      *)
(* starts one.                                                             *)
LEMMA QueueMoves ==
  ASSUME NEW s, Good(s), Going(s), NEW x \in Xfers, NEW F, Credit(s, F)
  PROVE  LET u == Queue(s, x)
         IN /\ Going(u) /\ Credit(u, F)
            /\ u.running => Fresh(u) \/ (s.running /\ u.hw = s.hw)
            /\ s.running /\ Fresh(s) => Fresh(u)
<1> DEFINE v == [s EXCEPT !.state[x] = "submitted", !.list = Append(@, x)]
<1>1. EngineOK(s) /\ s.list \in Seq(Xfers)
  BY DEF Good, EngineInv, EngineOK
<1>2. /\ DOMAIN v = DOMAIN IdleEngine /\ v.list = Append(s.list, x)
      /\ \A f \in DOMAIN IdleEngine \ {"state", "list"} : v[f] = s[f]
      /\ \A y \in Xfers :
           v.state[y] = IF y = x THEN "submitted" ELSE s.state[y]
  BY <1>1, Fields DEF EngineOK
<1>3. EngineOK(v)
  <2>1. v.list \in Seq(Xfers)
    BY <1>1, <1>2
  <2>2. v.state \in [Xfers -> XferStates]
    BY <1>1, Fields DEF EngineOK, XferStates
  <2> HIDE DEF v
  <2> QED BY <1>1, <1>2, <2>1, <2>2, Fields DEF EngineOK
<1>4. Queue(s, x) = Start(v)
  BY DEF Queue
<1> HIDE DEF v
<1>5. v.list # <<>> /\ Head(v.list) \in Xfers
      /\ (s.list # <<>> => Head(v.list) = Head(s.list))
      /\ (s.list = <<>> => Head(v.list) = x)
  <2> DEFINE l == s.list
  <2>1. l \in Seq(Xfers) /\ v.list = Append(l, x)
    BY <1>1, <1>2
  <2> HIDE DEF l
  <2>2. Append(l, x) # <<>> /\ Head(Append(l, x)) \in Xfers
    BY <2>1
  <2>3. l # <<>> => Head(Append(l, x)) = Head(l)
    BY <2>1
  <2>4. l = <<>> => Head(Append(l, x)) = x
    OBVIOUS
  <2> QED BY <2>1, <2>2, <2>3, <2>4 DEF l
<1>6. v.state[Head(v.list)] # "new"
  <2>1. s.list # <<>> => s.state[Head(s.list)] = "submitted"
    BY HeadLive
  <2> QED BY <1>2, <1>5, <2>1
<1>7. /\ v.hw = s.hw /\ v.running = s.running /\ v.hx = s.hx
      /\ v.hcnt = s.hcnt /\ v.dnum = s.dnum /\ v.dequeued = s.dequeued
      /\ v.irq = s.irq /\ v.wb = s.wb /\ v.wberr = s.wberr
      /\ v.moved = s.moved
  BY <1>2, Fields
<1>8. Credit(v, F)
  BY <1>2, <1>7 DEF Credit
<1>9. CASE s.running
  <2>1. Start(v) = v
    BY <1>7, <1>9 DEF Start
  <2>2. s.list # <<>> /\ Head(v.list) = Head(s.list)
    BY <1>5, <1>9 DEF Going
  <2>3. (Fresh(s) => Fresh(v)) /\ (Orphaned(s) => Orphaned(v))
    BY <1>7, <2>2 DEF Fresh, Orphaned
  <2>4. v.state[v.hx] # "new"
    BY <1>2, <1>7, <1>9 DEF Going
  <2>5. Going(v)
    BY <1>5, <1>7, <1>9, <2>3, <2>4 DEF Going
  <2> QED BY <1>4, <1>7, <1>8, <1>9, <2>1, <2>3, <2>5
<1>10. CASE ~s.running
  <2>1. Calm(v)
    BY <1>7, <1>10 DEF Calm, Going
  <2>2. /\ Going(Start(v)) /\ (Start(v).running => Fresh(Start(v)))
        /\ Start(v).moved = v.moved
    BY <1>3, <1>6, <2>1, StartGoes
  <2>3. Start(v).state = v.state /\ Start(v).dnum = v.dnum
    BY <1>2, Fields DEF Start
  <2>4. Credit(Start(v), F)
    BY <1>8, <2>2, <2>3 DEF Credit
  <2> QED BY <1>4, <1>10, <2>2, <2>4
<1> QED
  BY <1>9, <1>10

(* A transfer that is queued.                                              *)
LEMMA QueueStepMoves ==
  ASSUME CoreInv, MoveInv, ~Dangling, NEW t \in Tasks,
         eng' = Queue(eng, Cur(t)), UNCHANGED <<scenario, work, upset>>
  PROVE  MoveInv'
<1>1. Good(eng) /\ Cur(t) \in Xfers
  BY Alive, TaskTypes DEF CoreInv
<1> SUFFICES ASSUME Trusted'
             PROVE  /\ Credit(eng', upset.forged) /\ Going(eng)'
                    /\ work /\ eng'.running /\ eng'.hw = "busy" => Fresh(eng')
  BY DEF MoveInv
<1>2. /\ Going(eng) /\ Credit(eng, upset.forged)
      /\ work /\ eng.running /\ eng.hw = "busy" => Fresh(eng)
  BY StillTrusted DEF MoveInv
<1> DEFINE u == Queue(eng, Cur(t))
<1>3. /\ Going(u) /\ Credit(u, upset.forged)
      /\ u.running => Fresh(u) \/ (eng.running /\ u.hw = eng.hw)
      /\ eng.running /\ Fresh(eng) => Fresh(u)
  BY <1>1, <1>2, QueueMoves
<1> HIDE DEF u
<1>4. eng' = u
  BY DEF u
<1>5. Going(eng)'
  BY <1>3, <1>4 DEF Going
<1> QED
  BY <1>2, <1>3, <1>4, <1>5

(* One descriptor more, or an error.                                       *)
LEMMA HwMoves ==
  ASSUME CoreInv, RingInv, MoveInv, Hardware PROVE MoveInv'
<1>0. ~Dangling /\ Good(eng) /\ EngineOK(eng) /\ TypeOK
  <2>1. ~Dangling
    BY HwCases
  <2> QED BY <2>1, Alive DEF Good, EngineInv, CoreInv
<1>2. scenario' = scenario /\ work' = work /\ upset.what \subseteq upset'.what
      /\ upset'.forged = upset.forged
  <2>1. upset' = upset \/ Disturb("orphan")
    BY HwCases DEF HwFails
  <2>2. /\ upset.what \subseteq upset'.what /\ upset'.forged = upset.forged
    BY <1>0, <2>1 DEF Disturb, TypeOK
  <2> QED BY <2>2, HwCases DEF irqVars
<1> SUFFICES ASSUME Trusted'
             PROVE  /\ Credit(eng', upset.forged) /\ Going(eng)'
                    /\ work /\ eng'.running /\ eng'.hw = "busy" => Fresh(eng')
  BY <1>2 DEF MoveInv
<1>1. Good(eng) /\ EngineOK(eng) /\ Neat(eng, Current)
  BY <1>0, <1>2, StillTrusted, RingNeat DEF Trusted
<1>3. /\ Going(eng) /\ Credit(eng, upset.forged)
      /\ work /\ eng.running /\ eng.hw = "busy" => Fresh(eng)
  BY <1>2, StillTrusted DEF MoveInv
<1>9. \/ HwMove
      \/ eng.hw = "busy" /\ HwFails
      \/ eng.hw = "drain" /\ eng' = [eng EXCEPT !.hw = "idle", !.irq = TRUE]
  BY <1>1, HwCases DEF EngineOK
<1>4. /\ eng.hw \in {"busy", "drain"} /\ eng.wb = 0 /\ ~eng.wberr
      /\ eng.hw = "busy" <=> eng.running
  <2>1. eng.hw # "idle"
    BY <1>1, <1>9, StepsAre DEF HwMove
  <2> QED BY <1>1, <1>3, <2>1 DEF EngineOK, Going
<1>5. CASE HwMove
  <2>1. eng' \in Steps(eng) /\ eng.hw # "idle" /\ Neat(eng, Current)
    BY <1>1, <1>4, <1>5 DEF HwMove
  <2>2. /\ \A f \in DOMAIN IdleEngine \ {"hcnt", "moved", "hw", "irq", "wb"} :
             eng'[f] = eng[f]
        /\ eng'.hcnt = eng.hcnt + 1 /\ eng'.hcnt <= eng.dnum[eng.hx]
        /\ eng'.hcnt <= eng'.moved[eng.hx]
        /\ \A x \in Xfers : eng.moved[x] <= eng'.moved[x]
        /\ eng'.hw = (IF eng'.hcnt = eng.dnum[eng.hx] \/ eng.hw = "drain"
                      THEN "idle" ELSE eng.hw)
        /\ eng'.irq = (eng.irq \/ eng'.hw = "idle")
        /\ eng'.wb = (IF eng'.hcnt = eng.dnum[eng.hx] /\ scenario.poll
                      THEN eng'.hcnt ELSE eng.wb)
    BY <2>1, AdvanceFields
  <2>3. /\ eng'.list = eng.list /\ eng'.dnum = eng.dnum
        /\ eng'.state = eng.state /\ eng'.dequeued = eng.dequeued
        /\ eng'.hx = eng.hx /\ eng'.running = eng.running
        /\ eng'.wberr = eng.wberr
    BY <2>2, Fields
  <2>4. Credit(eng', upset.forged)
    <3> SUFFICES ASSUME NEW x \in Xfers, eng'.state[x] = "completed"
                 PROVE  x \in upset.forged \/ eng'.dnum[x] <= eng'.moved[x]
      BY DEF Credit
    <3>1. x \in upset.forged \/ eng.dnum[x] <= eng.moved[x]
      BY <1>3, <2>3 DEF Credit
    <3>2. EngineOK(eng')
      BY <1>1, <2>1, AdvanceKeeps DEF Good, EngineInv
    <3>3. eng.dnum[x] \in 0 .. DescMax /\ eng.moved[x] \in 0 .. DescMax
          /\ eng'.moved[x] \in 0 .. DescMax
      BY <1>1, <3>2 DEF EngineOK
    <3> QED BY <2>2, <2>3, <3>1, <3>3, SizesAssumption
  <2>5. Fresh(eng) => Fresh(eng')
    BY <2>3 DEF Fresh
  <2>6. eng.running /\ Orphaned(eng) => Orphaned(eng')
    BY <1>4, <2>2, <2>3 DEF Orphaned
  <2>7. Going(eng)'
    <3>1. eng'.hw \in {"idle", "busy"} /\ (eng'.hw = "busy" => eng.hw = "busy")
      BY <1>4, <2>2
    <3>2. eng'.wb # 0 =>
            scenario.poll /\ eng'.hw = "idle" /\ eng'.wb = eng'.hcnt
      BY <1>4, <2>2
    <3>3. scenario.poll => eng.running
      BY <1>3, <1>4 DEF Going
    <3>4. eng'.running =>
            /\ eng'.list # <<>>
            /\ eng'.hx \in Xfers /\ eng'.state[eng'.hx] # "new"
            /\ eng'.hcnt <= eng'.dnum[eng'.hx]
            /\ eng'.hcnt <= eng'.moved[eng'.hx]
            /\ Fresh(eng') \/ (~scenario.poll /\ Orphaned(eng'))
      BY <1>3, <2>2, <2>3, <2>5, <2>6 DEF Going
    <3> QED
      BY <1>2, <1>4, <2>3, <3>1, <3>2, <3>3, <3>4 DEF Going
  <2> QED BY <1>3, <1>4, <2>2, <2>3, <2>4, <2>5, <2>7
<1>6. CASE eng.hw = "busy" /\ HwFails
  <2>1. eng.hw = "busy" /\ eng.running
    BY <1>4, <1>6
  <2>2. eng.hx = Head(eng.list)
    <3>1. "orphan" \notin upset'.what
      BY DEF Trusted
    <3>2. upset \in [what : SUBSET Disturbances, forged : SUBSET Xfers]
      BY <1>0 DEF TypeOK
    <3> QED BY <1>6, <3>1, <3>2 DEF HwFails, Disturb
  <2>3. Fresh(eng)
    BY <1>3, <2>1, <2>2 DEF Going, Orphaned
  <2>4. /\ \A f \in DOMAIN IdleEngine \ {"hw", "herr", "irq", "wb", "wberr",
               "erred"} : eng'[f] = eng[f]
        /\ eng'.hw = "idle"
        /\ eng'.wb = IF scenario.poll THEN eng.hcnt ELSE 0
        /\ eng'.wberr = scenario.poll
    BY <1>1, <1>6, Fields DEF HwFails, Fail, EngineOK
  <2>5. /\ eng'.list = eng.list /\ eng'.dnum = eng.dnum
        /\ eng'.state = eng.state /\ eng'.dequeued = eng.dequeued
        /\ eng'.hx = eng.hx /\ eng'.running = eng.running
        /\ eng'.moved = eng.moved /\ eng'.hcnt = eng.hcnt
    BY <2>4, Fields
  <2>6. Fresh(eng') /\ Credit(eng', upset.forged)
    BY <1>3, <2>3, <2>5 DEF Fresh, Credit
  <2>7. Going(eng)'
    BY <1>2, <1>3, <2>1, <2>4, <2>5, <2>6 DEF Going
  <2> QED BY <2>6, <2>7
<1>7. CASE /\ eng.hw = "drain"
           /\ eng' = [eng EXCEPT !.hw = "idle", !.irq = TRUE]
  <2>1. /\ eng'.list = eng.list /\ eng'.dnum = eng.dnum
        /\ eng'.state = eng.state /\ eng'.running = eng.running
        /\ eng'.moved = eng.moved /\ eng'.hw = "idle"
        /\ eng'.wb = eng.wb /\ eng'.wberr = eng.wberr
    BY <1>1, <1>7, Fields DEF EngineOK
  <2>2. ~eng'.running /\ Credit(eng', upset.forged)
    BY <1>3, <1>4, <1>7, <2>1 DEF Credit
  <2>3. Going(eng)'
    BY <1>4, <2>1, <2>2 DEF Going
  <2> QED BY <2>2, <2>3
<1> QED
  BY <1>5, <1>6, <1>7, <1>9

(* The interrupt and its work item.                                        *)
LEMMA IrqMoves ==
  ASSUME CoreInv, RingInv, PathInv, MoveInv, Isr \/ ServiceWork PROVE MoveInv'
<1>1. Good(eng) /\ EngineOK(eng)
  BY Alive DEF CoreInv, EngineInv, Isr, ServiceWork, Defined
<1>2. scenario' = scenario /\ upset' = upset
  BY DEF Isr, ServiceWork, Defined
<1> SUFFICES ASSUME Trusted'
             PROVE  /\ Credit(eng', upset.forged) /\ Going(eng)'
                    /\ work' /\ eng'.running /\ eng'.hw = "busy" => Fresh(eng')
  BY <1>2 DEF MoveInv
<1>3. /\ Going(eng) /\ Credit(eng, upset.forged)
      /\ work /\ eng.running /\ eng.hw = "busy" => Fresh(eng)
  BY <1>2, StillTrusted DEF MoveInv
<1>4. CASE Isr
  <2>1. eng' = eng /\ eng.irq
    BY <1>4 DEF Isr
  <2>2. eng.running /\ eng.hw = "busy" => Fresh(eng)
    BY <1>3, <2>1 DEF Going, Orphaned
  <2> QED BY <1>2, <1>3, <2>1, <2>2 DEF Going
<1>5. CASE ServiceWork
  <2>1. /\ ~scenario.poll /\ work /\ work' = FALSE
        /\ eng' \in Service(eng, 0, FALSE)
    BY <1>5 DEF ServiceWork, PathInv
  <2>2. eng.wb = 0 /\ ~eng.wberr /\ (eng.hw = "busy" => Fresh(eng))
    BY <1>3, <2>1 DEF Going
  <2>3. Going(eng') /\ Credit(eng', upset.forged)
    <3>1. eng.hw = "busy" => Fresh(eng) /\ ~scenario.poll /\ ~FALSE
      BY <2>1, <2>2
    <3>2. Neat(eng, Current)
      BY <1>2, <1>5, StillTrusted, RingNeat DEF Trusted, ServiceWork, Defined
    <3> QED BY <1>1, <1>3, <2>1, <2>2, <3>1, <3>2, ServiceMoves
  <2>4. Going(eng)'
    BY <1>2, <2>3 DEF Going
  <2> QED BY <2>1, <2>3, <2>4
<1> QED
  BY <1>4, <1>5

(* The polling thread.                                                     *)
LEMMA PollMoves ==
  ASSUME CoreInv, RingInv, PathInv, MoveInv, Poll PROVE MoveInv'
<1>1. Good(eng) /\ EngineOK(eng)
  BY Alive DEF CoreInv, EngineInv, Poll, PollBegin, PollRead, PollMonitor,
     PollGivesUp, Defined
<1>2. /\ scenario' = scenario /\ work' = work
      /\ upset.what \subseteq upset'.what /\ upset'.forged = upset.forged
  <2>1. upset \in [what : SUBSET Disturbances, forged : SUBSET Xfers]
    BY DEF CoreInv, TypeOK
  <2> QED
    BY <2>1 DEF Disturbances, Poll, PollBegin, PollRead, PollMonitor,
       PollGivesUp, Defined, irqVars
<1>3. CASE ~PollMonitor
  <2>1. eng' = eng
    BY <1>3 DEF Poll, PollBegin, PollRead, PollGivesUp
  <2> QED BY <1>2, <2>1, SameMovesHold DEF SameMoves
<1>4. CASE PollMonitor
  <2> SUFFICES ASSUME Trusted'
               PROVE  Credit(eng', upset.forged) /\ Going(eng)' /\ ~work
    BY <1>2 DEF MoveInv
  <2>1. Going(eng) /\ Credit(eng, upset.forged)
    BY <1>2, StillTrusted DEF MoveInv
  <2>2. eng.wb # 0 \/ eng.wberr
    BY <1>4 DEF PollMonitor
  <2>3. /\ scenario.poll /\ eng.running /\ eng.hw = "idle"
        /\ (eng.wb = 0 \/ eng.wb = eng.hcnt) /\ ~work
    BY <2>1, <2>2 DEF Going, PathInv
  <2> DEFINE s == [eng EXCEPT !.wb = 0, !.wberr = FALSE]
  <2>4. 0 \in 0 .. DescMax
    BY SizesAssumption
  <2>5. EngineOK(s) /\ Engaged(s) /\ Alike(eng, s)
    BY <1>1, <2>4, Fields
    DEF EngineOK, Engaged, Reached, Alike, Good, EngineInv
  <2>6. Good(s)
    BY <1>1, <2>5, Untouched
  <2>7. /\ \A f \in DOMAIN IdleEngine \ {"wb", "wberr"} : s[f] = eng[f]
        /\ s.wb = 0 /\ ~s.wberr
    BY <1>1, Fields DEF EngineOK
  <2>8. \/ eng' \in Service(s, eng.wb, eng.wberr)
        \/ eng' = s
    BY <1>4 DEF PollMonitor
  <2> HIDE DEF s
  <2>9. /\ s.list = eng.list /\ s.dnum = eng.dnum /\ s.moved = eng.moved
        /\ s.state = eng.state /\ s.dequeued = eng.dequeued /\ s.hx = eng.hx
        /\ s.running = eng.running /\ s.hw = eng.hw /\ s.hcnt = eng.hcnt
    BY <2>7, Fields
  <2>10. Going(s) /\ Credit(s, upset.forged)
    <3>1. Fresh(s)
      BY <2>1, <2>3, <2>9 DEF Going, Fresh
    <3> QED BY <2>1, <2>3, <2>7, <2>9, <3>1 DEF Going, Credit
  <2>11. Going(eng') /\ Credit(eng', upset.forged)
    <3>1. CASE eng' \in Service(s, eng.wb, eng.wberr)
      <4>1. eng.wberr \in BOOLEAN
        BY <1>1 DEF EngineOK
      <4>2. eng.wb = 0 \/ (s.hw = "idle" /\ eng.wb = s.hcnt)
        BY <2>3, <2>9
      <4>3. s.hw # "busy"
        BY <2>3, <2>9
      <4>4. Neat(s, Current)
        <5>1. Neat(eng, Current)
          BY <1>2, <1>4, StillTrusted, RingNeat
          DEF Trusted, PollMonitor, Defined
        <5> QED BY <2>5, <2>6, <2>9, <5>1, AlikeNeat DEF Follows
      <4> QED BY <2>6, <2>7, <2>10, <3>1, <4>1, <4>2, <4>3, <4>4,
                 ServiceMoves
    <3>2. CASE eng' = s
      BY <2>10, <3>2
    <3> QED BY <2>8, <3>1, <3>2
  <2>12. Going(eng)'
    BY <1>2, <2>11 DEF Going
  <2> QED BY <2>3, <2>11, <2>12
<1> QED
  BY <1>3, <1>4

(* An expired wait: what it completes is written off, and where it does    *)
(* not complete its own transfer the engine is stopped.                    *)
LEMMA ExpiredMoves ==
  ASSUME CoreInv, MoveInv, NEW t \in Sync, SyncExpired(t) PROVE MoveInv'
<1> DEFINE x == Cur(t)
<1>1. /\ Good(eng) /\ EngineOK(eng) /\ x \in Xfers /\ TypeOK
      /\ eng.state[x] = "submitted"
  BY Alive, TaskTypes DEF CoreInv, SyncExpired, Defined, TypeOK, Tasks
<1>2. PICK s \in {Cleared(t, f) : f \in Service(eng, eng.dnum[x], FALSE)} :
        /\ upset' = [upset EXCEPT
             !.what = @ \cup {"timeout"} \cup
                      IF \E i \in 2 .. Len(s.list) : s.list[i] = x
                      THEN {"stranded"} ELSE {},
             !.forged = @ \cup {y \in Xfers : /\ eng.state[y] = "submitted"
                                              /\ s.state[y] = "completed"}]
        /\ \/ eng' = s
           \/ \E R : eng' = [s EXCEPT !.freed = @ \cup R]
           \/ \E R : eng' = [Stop(Abort(PeekStatus(s), x))
                               EXCEPT !.freed = @ \cup R]
  <2>1. PICK s \in {Cleared(t, f) :
                      f \in Service(eng, eng.dnum[x], FALSE)} :
        /\ upset' = [upset EXCEPT
             !.what = @ \cup {"timeout"} \cup
                      IF \E i \in 2 .. Len(s.list) : s.list[i] = x
                      THEN {"stranded"} ELSE {},
             !.forged = @ \cup {y \in Xfers : /\ eng.state[y] = "submitted"
                                              /\ s.state[y] = "completed"}]
        /\ CASE s.state[x] = "completed" -> ChunkDone(t, s)
             [] s.state[x] = "failed" -> Finish(t, s, got[t], "error")
             [] OTHER ->
                  Finish(t, Stop(Abort(PeekStatus(s), x)), got[t], "restart")
    BY DEF SyncExpired
  <2>2. \/ ChunkDone(t, s)
        \/ Finish(t, s, got[t], "error")
        \/ Finish(t, Stop(Abort(PeekStatus(s), x)), got[t], "restart")
    BY <2>1
  <2>3. \/ eng' = s
        \/ \E R : eng' = [s EXCEPT !.freed = @ \cup R]
        \/ \E R : eng' = [Stop(Abort(PeekStatus(s), x))
                               EXCEPT !.freed = @ \cup R]
    BY <2>2 DEF ChunkDone, Finish
  <2> QED BY <2>1, <2>3
<1>14. PICK f \in Service(eng, eng.dnum[x], FALSE) : s = Cleared(t, f)
  BY <1>2
<1>13. /\ Good(f) /\ Serves(eng, f)
       /\ Good(s) /\ \A k \in DOMAIN IdleEngine \ {"ring"} : s[k] = f[k]
  <2>1. Good(f) /\ Serves(eng, f)
    BY <1>1, ServiceKeeps
  <2>2. /\ Good(Cleared(t, f))
        /\ \A k \in DOMAIN IdleEngine \ {"ring"} : Cleared(t, f)[k] = f[k]
    BY <2>1, ClearedKeeps
  <2> QED BY <1>14, <2>1, <2>2
<1> HIDE DEF x
<1>3. /\ scenario' = scenario /\ upset.what \subseteq upset'.what
      /\ "timeout" \in upset'.what
      /\ upset'.forged = upset.forged \cup
           {y \in Xfers : /\ eng.state[y] = "submitted"
                          /\ s.state[y] = "completed"}
  BY <1>1, <1>2 DEF SyncExpired, Defined, TypeOK
<1> SUFFICES ASSUME Trusted'
             PROVE  /\ Credit(eng', upset'.forged) /\ Going(eng)'
                    /\ eng'.running /\ eng'.hw = "busy" => Fresh(eng')
  BY DEF MoveInv
<1>4. /\ Going(eng) /\ Credit(eng, upset.forged)
  BY <1>3, StillTrusted DEF MoveInv
<1>5. ~scenario.poll
  BY <1>3 DEF Trusted
<1>6. eng.dnum[x] # 0
  <2>1. eng.dnum[x] >= 1
    BY <1>1 DEF Good, EngineInv, Carved
  <2> QED BY <2>1
<1>7. SameMoves(f, s)
  BY <1>13, Fields DEF SameMoves
<1>8. Going(s) /\ (s.running => Fresh(s)) /\ s.moved = eng.moved
  <2>1. Going(f) /\ (f.running => Fresh(f)) /\ f.moved = eng.moved
    BY <1>1, <1>4, <1>5, <1>6, ForcedMoves
  <2> QED BY <1>7, <2>1, SameMovesKept DEF SameMoves
<1>9. Credit(s, upset'.forged)
  <2> SUFFICES ASSUME NEW y \in Xfers, s.state[y] = "completed"
               PROVE  y \in upset'.forged \/ s.dnum[y] <= s.moved[y]
    BY DEF Credit
  <2>1. CASE eng.state[y] = "submitted"
    BY <1>3, <2>1
  <2>2. CASE eng.state[y] # "submitted"
    <3>1. s.state = f.state /\ s.dnum = f.dnum
      BY <1>13, Fields
    <3> QED BY <1>3, <1>4, <1>8, <1>13, <2>2, <3>1 DEF Serves, Credit
  <2> QED BY <2>1, <2>2
<1>10. DOMAIN s = DOMAIN IdleEngine
  BY <1>13 DEF Good, EngineInv, EngineOK
<1>11. CASE eng' = s \/ \E R : eng' = [s EXCEPT !.freed = @ \cup R]
  <2>1. SameMoves(s, eng')
    <3>1. CASE eng' = s
      BY <3>1 DEF SameMoves
    <3>2. CASE \E R : eng' = [s EXCEPT !.freed = @ \cup R]
      BY <1>10, <3>2, FreeMoves
    <3> QED BY <1>11, <3>1, <3>2
  <2>2. Going(eng') /\ Credit(eng', upset'.forged)
        /\ (eng'.running => Fresh(eng'))
    BY <1>8, <1>9, <2>1, SameMovesKept DEF SameMoves
  <2> QED BY <1>3, <2>2 DEF Going
<1>12. CASE \E R : eng' = [Stop(Abort(PeekStatus(s), x))
                             EXCEPT !.freed = @ \cup R]
  <2>0. PICK R : eng' = [Stop(Abort(PeekStatus(s), x))
                             EXCEPT !.freed = @ \cup R]
    BY <1>12
  <2>1. /\ eng'.running = FALSE
        /\ eng'.hw = IF s.hw = "busy" THEN "drain" ELSE s.hw
        /\ eng'.wb = s.wb /\ eng'.wberr = s.wberr /\ eng'.dnum = s.dnum
        /\ eng'.moved = s.moved
        /\ eng'.state = [s.state EXCEPT ![x] = "aborted"]
    BY <1>10, <2>0, Fields DEF Stop, Abort, PeekStatus
  <2>2. s.state \in [Xfers -> XferStates]
    BY <1>13 DEF Good, EngineInv, EngineOK
  <2>3. Credit(eng', upset'.forged)
    BY <1>9, <2>1, <2>2 DEF Credit
  <2>4. Going(eng')
    BY <1>5, <1>8, <2>1 DEF Going
  <2> QED BY <1>3, <2>1, <2>3, <2>4 DEF Going
<1> QED
  BY <1>2, <1>11, <1>12

(* What read() and write() do to the counts.                               *)
LEMMA SyncMoves ==
  ASSUME CoreInv, MoveInv, NEW t \in Sync, SyncStep(t) PROVE MoveInv'
<1>0. /\ EngineOK(eng) /\ DOMAIN eng = DOMAIN IdleEngine /\ t \in Tasks
      /\ SameMoves(eng, eng)
  BY DEF CoreInv, TypeOK, EngineOK, Tasks, SameMoves
<1>1. CASE SyncCall(t) \/ SyncLock(t) \/ SyncWakePoll(t) \/ SyncWake(t)
           \/ SyncTimeout(t)
  <2>1. UNCHANGED <<scenario, eng, work, upset>>
    BY <1>1 DEF SyncCall, SyncLock, SyncWakePoll, SyncWake, SyncTimeout,
       Defined, irqVars
  <2> QED BY <1>0, <2>1, SameMovesHold
<1>2. CASE Build(t)
  BY <1>0, <1>2, BuildMoves
<1>3. CASE SyncQueue(t)
  <2>1. UNCHANGED <<scenario, work, upset>> /\ ~Dangling
    BY <1>3 DEF SyncQueue, Defined, irqVars
  <2>2. CASE Refused
    <3>1. eng' = [eng EXCEPT !.freed = @ \cup {<<t, 1>>}]
      BY <1>3, <2>2 DEF SyncQueue, Finish
    <3> QED BY <1>0, <2>1, <3>1, FreeMoves, SameMovesHold
  <2>3. CASE ~Refused
    <3>1. eng' = Queue(eng, Cur(t))
      BY <1>3, <2>3 DEF SyncQueue
    <3> QED BY <1>0, <2>1, <3>1, QueueStepMoves
  <2> QED BY <2>2, <2>3
<1>4. CASE SyncChecked(t)
  <2>1. /\ \A f \in DOMAIN IdleEngine \ {"ring", "freed"} : eng'[f] = eng[f]
        /\ UNCHANGED <<scenario, work, upset>>
    BY <1>4, CheckedFields
  <2>2. SameMoves(eng, eng')
    BY <2>1, Fields DEF SameMoves
  <2> QED BY <2>1, <2>2, SameMovesHold
<1>5. CASE SyncExpired(t)
  BY <1>5, ExpiredMoves
<1> QED
  BY <1>1, <1>2, <1>3, <1>4, <1>5 DEF SyncStep

(* What an iocb does to them.                                              *)
LEMMA AioMoves ==
  ASSUME CoreInv, MoveInv, NEW t \in Aio, AioStep(t) PROVE MoveInv'
<1>0. /\ EngineOK(eng) /\ DOMAIN eng = DOMAIN IdleEngine /\ t \in Tasks
      /\ SameMoves(eng, eng)
      /\ upset \in [what : SUBSET Disturbances, forged : SUBSET Xfers]
  BY DEF CoreInv, TypeOK, EngineOK, Tasks, SameMoves
<1>1. CASE AioSubmit(t)
  <2>1. UNCHANGED <<scenario, eng, work, upset>>
    BY <1>1 DEF AioSubmit, Defined, irqVars
  <2> QED BY <1>0, <2>1, SameMovesHold
<1>2. CASE Build(t)
  BY <1>0, <1>2, BuildMoves
<1>3. CASE AioQueue(t)
  <2>1. UNCHANGED <<scenario, work>> /\ ~Dangling
    BY <1>3 DEF AioQueue, Defined, irqVars
  <2>2. CASE Refused
    <3>1. eng' = [eng EXCEPT !.freed = @ \cup {ReqOf(Cur(t))}]
      BY <1>3, <2>2 DEF AioQueue
    <3>2. upset.what \subseteq upset'.what /\ upset'.forged = upset.forged
      BY <1>0, <1>3, <2>2 DEF AioQueue, Disturb
    <3> QED BY <1>0, <2>1, <3>1, <3>2, FreeMoves, SameMovesHold
  <2>3. CASE ~Refused
    <3>1. eng' = Queue(eng, Cur(t)) /\ upset' = upset
      BY <1>3, <2>3 DEF AioQueue
    <3> QED BY <1>0, <2>1, <3>1, QueueStepMoves
  <2> QED BY <2>2, <2>3
<1> QED
  BY <1>1, <1>2, <1>3 DEF AioStep

(* Only the flag is set before the counts are given up.                    *)
LEMMA DeviceMoves ==
  ASSUME CoreInv, MoveInv, Device PROVE MoveInv'
<1>0. /\ OfflineInv /\ SameMoves(eng, eng)
      /\ upset \in [what : SUBSET Disturbances, forged : SUBSET Xfers]
  BY DEF CoreInv, TypeOK, SameMoves
<1>1. CASE OfflineFlag
  <2>1. UNCHANGED <<scenario, eng, work, upset>>
    BY <1>1 DEF OfflineFlag, Defined, irqVars
  <2> QED BY <1>0, <2>1, SameMovesHold
<1>2. CASE ~OfflineFlag
  <2>1. "offline" \in upset'.what
    BY <1>0, <1>2 DEF Device, OfflineEngine, OfflineIrqs, OnlineEngine,
       OnlineIrqs, Disturb, OfflineInv
  <2> QED BY <2>1 DEF MoveInv, Trusted
<1> QED
  BY <1>1, <1>2

(* The invariant of the counts is kept by every step.                      *)
LEMMA MoveSteps ==
  CoreInv /\ RingInv /\ PathInv /\ MoveInv /\ [Next]_vars => MoveInv'
<1> SUFFICES ASSUME CoreInv, RingInv, PathInv, MoveInv, [Next]_vars
             PROVE  MoveInv'
  OBVIOUS
<1>1. CASE UNCHANGED vars
  BY <1>1, SameMovesHold DEF SameMoves, vars, irqVars
<1>2. CASE Next
  BY <1>2, SyncMoves, AioMoves, HwMoves, IrqMoves, PollMoves, DeviceMoves
  DEF Next
<1> QED
  BY <1>1, <1>2

(* It holds at the start, when nothing was moved.                          *)
LEMMA MoveStarts == Init => MoveInv
<1> SUFFICES ASSUME Init PROVE MoveInv
  OBVIOUS
<1>1. eng = IdleEngine /\ ~work
  BY DEF Init
<1> QED
  BY <1>1 DEF MoveInv, Credit, Going, IdleEngine

(* As long as the counts can be trusted, a run is of the head of the list  *)
(* from its first descriptor on or its transfer was failed by a late       *)
(* interrupt, and what is completed was moved or written off.              *)
THEOREM EngineMoves == Spec => []MoveInv
BY MoveStarts, MoveSteps, EngineCore, EngineRing, EngineRuns, PTL DEF Spec

(* What completed transfers were cut into is no more than was moved.       *)
LEMMA ToldMoved ==
  ASSUME CoreInv, MoveInv, Trusted, NEW t \in Tasks,
         \A x \in upset.forged : x[1] # t,
         NEW X \in SUBSET XfersOf(t),
         \A x \in X : eng.state[x] = "completed"
  PROVE  Cardinality(Descs(X, eng.dnum)) <= SumMoved(t)
<1>1. EngineOK(eng) /\ XfersOf(t) \subseteq Xfers
  BY DEF CoreInv, TypeOK, XfersOf
<1>2. /\ \A x \in X : eng.dnum[x] \in Nat
      /\ \A x \in XfersOf(t) : eng.moved[x] \in 0 .. DescMax
  <2>1. \A x \in Xfers : eng.dnum[x] \in 0 .. DescMax
                         /\ eng.moved[x] \in 0 .. DescMax
    BY <1>1 DEF EngineOK
  <2> QED BY <1>1, <2>1, SizesAssumption
<1>3. \A x \in X : eng.dnum[x] <= eng.moved[x]
  BY <1>1 DEF MoveInv, Credit, XfersOf
<1> QED
  BY <1>2, <1>3, DescsMore DEF SumMoved

(* Nobody is told that more was moved than the hardware moved              *)
(* (ReportedMoved).                                                        *)
THEOREM EngineReportsMoved == Spec => []ReportedMoved
<1>1. CoreInv /\ MoveInv => ReportedMoved
  <2> SUFFICES ASSUME CoreInv, MoveInv, Trusted, NEW t \in Tasks,
                      \A x \in upset.forged : x[1] # t
               PROVE  (IF t \in Sync THEN got[t] ELSE eng.res[t])
                        <= SumMoved(t)
    BY DEF ReportedMoved
  <2> DEFINE d == eng.dnum
             m == SumMoved(t)
  <2>0. m \in Nat
    <3>1. \A x \in XfersOf(t) : eng.moved[x] \in 0 .. DescMax
      BY DEF CoreInv, TypeOK, EngineOK, XfersOf
    <3> QED BY <3>1, DescsFinite DEF SumMoved
  <2>1. CASE t \in Sync
    <3> DEFINE X == CallTold(t)
    <3>1. got[t] <= Cardinality(Descs(X, d)) /\ got[t] \in Nat
      <4>1. TaskInv(t)
        BY DEF CoreInv, CallInv
      <4> QED BY <2>1, <4>1 DEF TaskInv, SyncPlace, CoreInv, TypeOK
    <3>2. X \in SUBSET XfersOf(t) /\ \A x \in X : eng.state[x] = "completed"
      BY DEF CallTold
    <3> HIDE DEF X, d, m
    <3>3. Cardinality(Descs(X, d)) <= m
      BY <3>2, ToldMoved DEF d, m
    <3>4. Cardinality(Descs(X, d)) \in Nat
      <4>1. \A x \in X : d[x] \in 0 .. DescMax
        BY <3>2 DEF CoreInv, TypeOK, EngineOK, XfersOf, d
      <4> QED BY <3>2, <4>1, DescsFinite
    <3>5. got[t] <= m
      BY <2>0, <3>1, <3>3, <3>4
    <3> QED BY <2>1, <3>5 DEF m
  <2>2. CASE t \in Aio
    <3> DEFINE X == IocbTold(eng, t)
    <3>1. eng.res[t] <= Cardinality(Descs(X, d)) /\ eng.res[t] \in Nat
      BY <2>2 DEF CoreInv, EngineInv, Tallied, EngineOK
    <3>2. X \in SUBSET XfersOf(t) /\ \A x \in X : eng.state[x] = "completed"
      BY DEF IocbTold
    <3> HIDE DEF X, d, m
    <3>3. Cardinality(Descs(X, d)) <= m
      BY <3>2, ToldMoved DEF d, m
    <3>4. Cardinality(Descs(X, d)) \in Nat
      <4>1. \A x \in X : d[x] \in 0 .. DescMax
        BY <3>2 DEF CoreInv, TypeOK, EngineOK, XfersOf, d
      <4> QED BY <3>2, <4>1, DescsFinite
    <3>5. eng.res[t] <= m
      BY <2>0, <3>1, <3>3, <3>4
    <3> QED BY <2>2, <3>5, TasksAssumption DEF m
  <2> QED BY <2>1, <2>2 DEF Tasks
<1> QED
  BY <1>1, EngineCore, EngineMoves, PTL
=============================================================================
