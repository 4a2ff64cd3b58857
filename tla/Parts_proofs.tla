---------------------------- MODULE Parts_proofs ----------------------------
(***************************************************************************)
(* Five small parts, for every value of their constants: the ready queues   *)
(* of the scheduler, the replay window as a component of its own, the       *)
(* promise of the relay's durable accounting, the dampening of parent       *)
(* switches and the reader of endpoint events.                              *)
(***************************************************************************)
EXTENDS ReadyQueue, ReplayWindow, ExposureWindow, FlapDampening, EndpointEvents,
        OwnerEpochs_proofs, FiniteSetTheorems, SequenceTheorems

\* The provers for a step that names none, in the order in which they are tried.
USE SMTT(10), Zenon, SMTT(30)

-----------------------------------------------------------------------------
(* The cut-in debt bounds how long any owner waits in a ready queue, for     *)
(* every set of owners and every choice of the local ones.  The potential of *)
(* a waiting owner, the pops it has seen plus two for each position still    *)
(* ahead of it less the outstanding debt, never grows: a pop moves it one    *)
(* position forward and repays at most one, a cut-in moves it one position   *)
(* back and borrows two.                                                     *)

\* The inductive invariant: the bound is on the potential, of which the pops are a part.
QueueInv == QueueTypeOK /\ NoDuplicates /\ PotentialBound

\* A queue without duplicates that misses x leaves room for x: its length is
\* smaller than the number of items.
LEMMA RoomForOneMore ==
  ASSUME NEW q \in Seq(Items), NEW x \in Items,
         \A i, j \in 1 .. Len(q) : q[i] = q[j] => i = j,
         \A i \in 1 .. Len(q) : q[i] # x
  PROVE  /\ Cardinality(Items) \in Nat
         /\ Len(q) + 1 <= Cardinality(Items)
<1>1. IsFiniteSet(Items) /\ Cardinality(Items) \in Nat
    BY ItemsAssumption, FS_CardinalityType
<1>2. IsFiniteSet(Items \ {x}) /\ Cardinality(Items \ {x}) = Cardinality(Items) - 1
    BY <1>1, FS_RemoveElement
<1>3. Len(q) \in Nat /\ \A i \in 1 .. Len(q) : q[i] \in Items \ {x}
    OBVIOUS
<1>4. IsFiniteSet(1 .. Len(q)) /\ Cardinality(1 .. Len(q)) = Len(q)
    <2>1. IsFiniteSet(1 .. Len(q))
          /\ Cardinality(1 .. Len(q)) = IF 1 > Len(q) THEN 0 ELSE Len(q) - 1 + 1
        BY <1>3, FS_Interval, SMTT(20), SMTT(30)
    <2> QED BY <2>1, <1>3
<1>5. Cardinality(1 .. Len(q)) <= Cardinality(Items \ {x})
    <2> SUFFICES ASSUME ~(Cardinality(1 .. Len(q)) <= Cardinality(Items \ {x}))
                 PROVE  FALSE
        OBVIOUS
    <2> DEFINE f == [i \in 1 .. Len(q) |-> q[i]]
    <2>1. f \in [1 .. Len(q) -> Items \ {x}]
        BY <1>3
    <2>2. Cardinality(Items \ {x}) < Cardinality(1 .. Len(q))
        BY <1>1, <1>2, <1>3, <1>4
    <2>3. \E i, j \in 1 .. Len(q) : i # j /\ f[i] = f[j]
        BY <2>1, <2>2, <1>2, <1>4, FS_PigeonHole
    <2> QED BY <2>3
<1> QED BY <1>1, <1>2, <1>3, <1>4, <1>5

\* An empty queue.
LEMMA QueueInitEstablishes == QueueInit => QueueInv
<1> SUFFICES ASSUME QueueInit PROVE QueueInv
    OBVIOUS
<1>1. ready.queue = <<>> /\ ready.debt = 0 /\ Len(ready.queue) = 0
    BY DEF QueueInit, EmptyReady
<1> QED BY <1>1 DEF QueueInit, EmptyReady, QueueInv, QueueTypeOK, NoDuplicates, PotentialBound, IsReady

\* Marking: a new item goes to the back, behind fewer items than there are, or
\* to the front when nothing is owed, pushing the others back by the debt.
LEMMA MarkPreserves ==
  ASSUME QueueInv, NEW x \in Items, Mark(x)
  PROVE  QueueInv'
<1> DEFINE q == ready.queue
           N == Cardinality(Items)
<1>t. /\ q \in Seq(Items) /\ Len(q) \in Nat /\ ready.debt \in 0 .. 2
      /\ ready = [queue |-> q, debt |-> ready.debt]
      /\ waited \in [Items -> Nat] /\ waited' = waited
    BY DEF QueueInv, QueueTypeOK, Mark
<1>n. \A i, j \in 1 .. Len(q) : q[i] = q[j] => i = j
    BY DEF QueueInv, NoDuplicates
<1>p. /\ \A i \in 1 .. Len(q) : waited[q[i]] + 2 * i <= 2 * N + ready.debt
      /\ \A y \in Items : ~IsReady(ready, y) => waited[y] = 0
    BY DEF QueueInv, PotentialBound
<1>1. CASE IsReady(ready, x)
    <2>1. ready' = ready
        BY <1>1 DEF Mark, mark
    <2> QED BY <2>1, <1>t DEF QueueInv, QueueTypeOK, NoDuplicates, PotentialBound, IsReady
<1>2. CASE ~IsReady(ready, x)
    <2>1. \A i \in 1 .. Len(q) : q[i] # x
        BY <1>2 DEF IsReady
    <2>2. N \in Nat /\ Len(q) + 1 <= N
        BY <1>t, <1>n, <2>1, RoomForOneMore, SMTT(20), SMTT(30)
    <2>3. waited[x] = 0
        BY <1>2, <1>p
    <2>4. CASE x \in Local /\ q # <<>> /\ ready.debt = 0
        <3> DEFINE r == <<x>> \o q
        <3>1. ready' = [queue |-> r, debt |-> 2]
            BY <1>2, <2>4 DEF Mark, mark
        <3>2. /\ r \in Seq(Items) /\ Len(r) = Len(q) + 1 /\ r[1] = x
              /\ \A i \in 2 .. Len(r) : i - 1 \in 1 .. Len(q) /\ r[i] = q[i - 1]
            BY <1>t
        <3>3. QueueTypeOK'
            BY <3>1, <3>2, <1>t DEF QueueTypeOK
        <3>4. NoDuplicates'
            <4> SUFFICES ASSUME NEW i \in 1 .. Len(r), NEW j \in 1 .. Len(r), r[i] = r[j]
                         PROVE  i = j
                BY <3>1 DEF NoDuplicates
            <4>1. CASE i = 1 \/ j = 1
                BY <4>1, <3>2, <2>1, <1>t
            <4>2. CASE i # 1 /\ j # 1
                <5>1. i \in 2 .. Len(r) /\ j \in 2 .. Len(r)
                    BY <4>2, <3>2, <1>t
                <5>2. i - 1 = j - 1
                    BY <5>1, <3>2, <1>n
                <5> QED BY <5>1, <5>2, <1>t
            <4> QED BY <4>1, <4>2
        <3>5. PotentialBound'
            <4>1. ASSUME NEW i \in 1 .. Len(r)
                  PROVE  waited[r[i]] + 2 * i <= 2 * N + 2
                <5>1. CASE i = 1
                    BY <5>1, <3>2, <2>2, <2>3
                <5>2. CASE i # 1
                    <6>1. i \in 2 .. Len(r) /\ i - 1 \in 1 .. Len(q) /\ r[i] = q[i - 1]
                        BY <5>2, <3>2, <1>t
                    <6>2. waited[q[i - 1]] + 2 * (i - 1) <= 2 * N
                        BY <6>1, <1>p, <2>4, <2>2
                    <6>3. waited[q[i - 1]] \in Nat
                        BY <6>1, <1>t
                    <6> QED BY <6>1, <6>2, <6>3, <2>2
                <5> QED BY <5>1, <5>2
            <4>2. ASSUME NEW y \in Items, ~IsReady(ready, y)' PROVE waited[y] = 0
                <5>1. ~IsReady(ready, y)
                    <6> SUFFICES ASSUME NEW i \in 1 .. Len(q), q[i] = y PROVE FALSE
                        BY DEF IsReady
                    <6>1. i + 1 \in 1 .. Len(r) /\ i + 1 \in 2 .. Len(r) /\ r[i + 1] = q[i]
                        BY <3>2, <1>t
                    <6> QED BY <6>1, <4>2, <3>1 DEF IsReady
                <5> QED BY <5>1, <1>p
            <4> QED BY <4>1, <4>2, <3>1, <1>t, SMTT(20), SMTT(30) DEF PotentialBound, IsReady
        <3> QED BY <3>3, <3>4, <3>5 DEF QueueInv
    <2>5. CASE ~(x \in Local /\ q # <<>> /\ ready.debt = 0)
        <3> DEFINE r == Append(q, x)
        <3>1. ready' = [queue |-> r, debt |-> ready.debt]
            BY <1>2, <2>5, <1>t, Zenon DEF Mark, mark
        <3>2. /\ r \in Seq(Items) /\ Len(r) = Len(q) + 1 /\ r[Len(r)] = x
              /\ \A i \in 1 .. Len(q) : r[i] = q[i]
            BY <1>t
        <3>3. QueueTypeOK'
            BY <3>1, <3>2, <1>t DEF QueueTypeOK
        <3>4. NoDuplicates'
            <4> SUFFICES ASSUME NEW i \in 1 .. Len(r), NEW j \in 1 .. Len(r), r[i] = r[j]
                         PROVE  i = j
                BY <3>1 DEF NoDuplicates
            <4>1. CASE i = Len(r) \/ j = Len(r)
                BY <4>1, <3>2, <2>1, <1>t
            <4>2. CASE i # Len(r) /\ j # Len(r)
                <5>1. i \in 1 .. Len(q) /\ j \in 1 .. Len(q)
                    BY <4>2, <3>2, <1>t
                <5> QED BY <5>1, <3>2, <1>n
            <4> QED BY <4>1, <4>2
        <3>5. PotentialBound'
            <4>1. ASSUME NEW i \in 1 .. Len(r)
                  PROVE  waited[r[i]] + 2 * i <= 2 * N + ready.debt
                <5>1. CASE i = Len(r)
                    BY <5>1, <3>2, <2>2, <2>3, <1>t
                <5>2. CASE i # Len(r)
                    <6>1. i \in 1 .. Len(q) /\ r[i] = q[i]
                        BY <5>2, <3>2, <1>t
                    <6> QED BY <6>1, <1>p
                <5> QED BY <5>1, <5>2
            <4>2. ASSUME NEW y \in Items, ~IsReady(ready, y)' PROVE waited[y] = 0
                <5>1. ~IsReady(ready, y)
                    <6> SUFFICES ASSUME NEW i \in 1 .. Len(q), q[i] = y PROVE FALSE
                        BY DEF IsReady
                    <6>1. i \in 1 .. Len(r) /\ r[i] = q[i]
                        BY <3>2, <1>t
                    <6> QED BY <6>1, <4>2, <3>1 DEF IsReady
                <5> QED BY <5>1, <1>p
            <4> QED BY <4>1, <4>2, <3>1, <1>t DEF PotentialBound, IsReady
        <3> QED BY <3>3, <3>4, <3>5 DEF QueueInv
    <2> QED BY <2>4, <2>5
<1> QED BY <1>1, <1>2

\* What is left of a queue after its head is popped.
LEMMA AfterPop ==
  ASSUME NEW S, NEW q \in Seq(S), q # <<>>, NEW r, r = SubSeq(q, 2, Len(q))
  PROVE  /\ r \in Seq(S) /\ Len(r) \in Nat /\ Len(q) \in Nat /\ Len(r) = Len(q) - 1
         /\ \A i \in 1 .. Len(r) : i + 1 \in 1 .. Len(q) /\ r[i] = q[i + 1] /\ r[i] \in S
<1>1. r = Tail(q)
    BY TailIsSubSeq
<1>2. r \in Seq(S) /\ Len(r) = Len(q) - 1 /\ \A i \in 1 .. Len(r) : r[i] = q[i + 1]
    BY <1>1, HeadTailProperties, Zenon
<1>3. Len(r) \in Nat /\ Len(q) \in Nat /\ \A i \in 1 .. Len(r) : r[i] \in S
    BY <1>2
<1> QED BY <1>2, <1>3

\* Popping: every other item moves one position forward, has waited for one
\* more pop, and at most one of the debt is repaid.
LEMMA PopPreserves ==
  ASSUME QueueInv, Pop
  PROVE  QueueInv'
<1> DEFINE q == ready.queue
           N == Cardinality(Items)
           r == SubSeq(q, 2, Len(q))
           d == IF ready.debt > 1 THEN ready.debt - 1 ELSE 0
<1>t. /\ q \in Seq(Items) /\ Len(q) \in Nat /\ ready.debt \in 0 .. 2
      /\ waited \in [Items -> Nat] /\ q # <<>>
    BY DEF QueueInv, QueueTypeOK, Pop
<1>c. N \in Nat
    BY ItemsAssumption, FS_CardinalityType
<1>n. \A i, j \in 1 .. Len(q) : q[i] = q[j] => i = j
    BY DEF QueueInv, NoDuplicates
<1>p. \A i \in 1 .. Len(q) : waited[q[i]] + 2 * i <= 2 * N + ready.debt
    BY DEF QueueInv, PotentialBound
<1>1. ready' = [queue |-> r, debt |-> d]
    BY DEF Pop, pop
<1>2. /\ r \in Seq(Items) /\ Len(r) \in Nat /\ Len(q) \in Nat
      /\ \A i \in 1 .. Len(r) : i + 1 \in 1 .. Len(q) /\ r[i] = q[i + 1] /\ r[i] \in Items
    BY <1>t, AfterPop
<1>3. d \in 0 .. 2 /\ ready.debt <= d + 1
    BY <1>t
<1> HIDE DEF q, r, d, N
<1>4. \A y \in Items : OneMore(waited[y]) \in Nat /\ OneMore(waited[y]) <= waited[y] + 1
    BY <1>t, <1>c DEF OneMore, N
<1>5. waited' = [y \in Items |-> IF IsReady(ready', y) THEN OneMore(waited[y]) ELSE 0]
    BY DEF Pop
<1>6. QueueTypeOK'
    BY <1>1, <1>2, <1>3, <1>4, <1>5 DEF QueueTypeOK
<1>7. NoDuplicates'
    <2> SUFFICES ASSUME NEW i \in 1 .. Len(r), NEW j \in 1 .. Len(r), r[i] = r[j]
                 PROVE  i = j
        BY <1>1 DEF NoDuplicates
    <2>1. i + 1 = j + 1
        BY <1>2, <1>n
    <2> QED BY <2>1, <1>2, <1>t
<1>8. PotentialBound'
    <2>1. ASSUME NEW i \in 1 .. Len(r)
          PROVE  waited'[r[i]] + 2 * i <= 2 * N + d
        <3>1. IsReady(ready', r[i])
            BY <1>1 DEF IsReady
        <3>2. r[i] \in Items /\ r[i] = q[i + 1] /\ i + 1 \in 1 .. Len(q) /\ i \in Int
            BY <1>2
        <3>3. waited'[r[i]] = OneMore(waited[q[i + 1]])
            BY <3>1, <3>2, <1>5
        <3>4. waited[q[i + 1]] \in Nat /\ OneMore(waited[q[i + 1]]) \in Nat
              /\ OneMore(waited[q[i + 1]]) <= waited[q[i + 1]] + 1
            BY <3>2, <1>4, <1>t, Zenon
        <3>5. waited[q[i + 1]] + 2 * (i + 1) <= 2 * N + ready.debt
            BY <3>2, <1>p
        <3> DEFINE w == waited[q[i + 1]]
                   v == OneMore(w)
        <3>6. /\ w \in Nat /\ v \in Nat /\ v <= w + 1 /\ w + 2 * (i + 1) <= 2 * N + ready.debt
              /\ d \in Int /\ N \in Int /\ ready.debt \in Int /\ ready.debt <= d + 1 /\ i \in Int
            BY <3>2, <3>4, <3>5, <1>3, <1>c, <1>t, SMTT(20), SMTT(30)
        <3>7. ASSUME NEW dd \in Int, NEW NN \in Int, NEW ww \in Int, NEW vv \in Int,
                     NEW rd \in Int, NEW ii \in Int,
                     vv <= ww + 1, ww + 2 * (ii + 1) <= 2 * NN + rd, rd <= dd + 1
              PROVE  vv + 2 * ii <= 2 * NN + dd
            BY <3>7
        <3>8. v + 2 * i <= 2 * N + d
            <4> HIDE DEF w, v
            <4> QED BY <3>6, <3>7
        <3> QED BY <3>3, <3>8
    <2>2. \A y \in Items : ~IsReady(ready', y) => waited'[y] = 0
        BY <1>5
    <2> QED BY <2>1, <2>2, <1>1 DEF PotentialBound, IsReady, N
<1> QED BY <1>6, <1>7, <1>8 DEF QueueInv

\* Marking and popping, of any owner.
LEMMA QueueStepPreserves == QueueInv /\ [QueueNext]_qvars => QueueInv'
<1> SUFFICES ASSUME QueueInv, [QueueNext]_qvars PROVE QueueInv'
    OBVIOUS
<1>1. CASE UNCHANGED qvars
    BY <1>1, Zenon DEF qvars, QueueInv, QueueTypeOK, NoDuplicates, PotentialBound, IsReady
<1> QED BY <1>1, MarkPreserves, PopPreserves DEF QueueNext

\* The potential bound holds in every reachable state.
THEOREM QueueInvHolds == QueueSpec => []QueueInv
BY QueueInitEstablishes, QueueStepPreserves, PTL DEF QueueSpec

\* An owner or shard is never queued twice (push_ready's contains check and
\* ReadyShardQueue's ready flags).
THEOREM NeverQueuedTwice == QueueSpec => []NoDuplicates
<1>1. QueueInv => NoDuplicates
    BY DEF QueueInv
<1> QED BY <1>1, QueueInvHolds, PTL

\* However the local owners cut in, every ready owner is popped after at most
\* two pops per owner (push_ready and pop_ready_front).
THEOREM CutInIsBounded == QueueSpec => []BoundedOvertaking
<1>1. ASSUME QueueInv, NEW x \in Items, IsReady(ready, x)
      PROVE  waited[x] <= 2 * Cardinality(Items)
    <2>1. PICK i \in 1 .. Len(ready.queue) : ready.queue[i] = x
        BY <1>1 DEF IsReady
    <2>2. Cardinality(Items) \in Nat
        BY ItemsAssumption, FS_CardinalityType
    <2>3. waited[x] + 2 * i <= 2 * Cardinality(Items) + ready.debt
        BY <1>1, <2>1 DEF QueueInv, PotentialBound
    <2>4. waited[x] \in Nat /\ ready.debt \in 0 .. 2 /\ i \in Nat /\ i >= 1
        BY <1>1, <2>1 DEF QueueInv, QueueTypeOK
    <2> QED BY <2>2, <2>3, <2>4
<1>2. QueueInv => BoundedOvertaking
    BY <1>1 DEF BoundedOvertaking
<1> QED BY <1>2, QueueInvHolds, PTL

-----------------------------------------------------------------------------
(* The ring of dataplane/owner_replay.rs implements the set-based guard, for *)
(* every block width, ring length and counter range: each accept keeps the   *)
(* ring equal to the history (OwnerEpochs_proofs), so its verdict is the one *)
(* the guard gives from the history alone.                                   *)

\* The inductive invariant: the window stands for the history.
RingInv == WindowTypeOK /\ RingMatchesHistory

\* ReplayWindow::default() stands for the empty history.
LEMMA RingInitEstablishes == WindowInit => RingInv
<1> SUFFICES ASSUME WindowInit PROVE RingInv
    OBVIOUS
<1>1. MaxCounter \in Counters
    BY RingAssumption DEF Counters
<1> QED BY <1>1, EmptyRemembers DEF WindowInit, RingInv, WindowTypeOK, RingMatchesHistory

\* One accept, of any counter, keeps the window equal to the history.
LEMMA RingStepPreserves == RingInv /\ [WindowNext]_wvars => RingInv'
<1> SUFFICES ASSUME RingInv, [WindowNext]_wvars PROVE RingInv'
    OBVIOUS
<1>1. ASSUME NEW c \in Counters, Accept(c) PROVE RingInv'
    BY <1>1, AcceptRemembers DEF RingInv, WindowTypeOK, RingMatchesHistory, Accept
<1>2. CASE UNCHANGED wvars
    BY <1>2, SMTT(20), SMTT(30) DEF wvars, RingInv, WindowTypeOK, RingMatchesHistory
<1> QED BY <1>1, <1>2 DEF WindowNext

\* The window stands for the history in every reachable state.
THEOREM RingInvHolds == WindowSpec => []RingInv
BY RingInitEstablishes, RingStepPreserves, PTL DEF WindowSpec

\* Every field of a window keeps its type: no index or bit leaves the ring.
THEOREM TypeCorrect == WindowSpec => []WindowTypeOK
<1>1. RingInv => WindowTypeOK
    BY DEF RingInv
<1> QED BY <1>1, RingInvHolds, PTL

\* The ring always stands for the set of counters accepted so far: a block is
\* cleared before it is reused and never while one of its counters is in the
\* window (ReplayWindow::advance).
THEOREM RingCorrect == WindowSpec => []RingMatchesHistory
<1>1. RingInv => RingMatchesHistory
    BY DEF RingInv
<1> QED BY <1>1, RingInvHolds, PTL

\* ReplayWindow::can_accept and ReplayWindow::accept agree in every state.
THEOREM CheckIsExact == WindowSpec => []CheckPredictsAccept
<1>1. RingInv => CheckPredictsAccept
    BY AcceptRemembers, CanAcceptIsFresh, Zenon
       DEF RingInv, WindowTypeOK, RingMatchesHistory, CheckPredictsAccept
<1> QED BY <1>1, RingInvHolds, PTL

\* The ring implements the set-based guard for every ring size: each counter
\* is accepted at most once, and none inside the window is refused unseen.
THEOREM RingImplementsGuard == WindowSpec => ImplementsGuard
<1>1. WindowInit => Guard!Init
    BY DEF WindowInit, Guard!Init
<1>2. RingInv /\ [WindowNext]_wvars => [Guard!Next]_(Guard!vars)
    <2> SUFFICES ASSUME RingInv, [WindowNext]_wvars PROVE [Guard!Next]_(Guard!vars)
        OBVIOUS
    <2>1. ASSUME NEW c \in Counters, Accept(c) PROVE Guard!Next
        <3>1. AcceptResult(window, c).ok <=> Guard!Fresh(c)
            BY AcceptRemembers, Zenon
               DEF RingInv, WindowTypeOK, RingMatchesHistory, FreshFor, Guard!Fresh
        <3>2. AcceptResult(window, c).ok \in BOOLEAN /\ Guard!Fresh(c) \in BOOLEAN
            BY AcceptRemembers, Zenon DEF RingInv, WindowTypeOK, RingMatchesHistory, Guard!Fresh
        <3>3. AcceptResult(window, c).ok = Guard!Fresh(c)
            BY <3>1, <3>2
        <3>4. Guard!Offer(c)
            BY <2>1, <3>3 DEF Accept, Guard!Offer
        <3> QED BY <3>4 DEF Guard!Next, Guard!Counters, Counters
    <2>2. CASE UNCHANGED wvars
        BY <2>2 DEF wvars, Guard!vars
    <2> QED BY <2>1, <2>2 DEF WindowNext
<1> QED BY <1>1, <1>2, RingInvHolds, PTL DEF WindowSpec, ImplementsGuard, Guard!Spec

-----------------------------------------------------------------------------
(* ExposureWindow keeps its promise, for every amount and any number of      *)
(* journals.  With the refinement that PaidChannel is checked for, this is   *)
(* why no restart of the relay forgets exposure.                             *)

\* What is granted lies between what was served and what every journal
\* charges.  Covered alone is not inductive: Serve may go up to what is granted.
Window == /\ served \in Nat /\ granted \in Nat
          /\ images # {} /\ images \subseteq Nat
          /\ served <= granted
          /\ \A i \in images : granted <= i

\* A window spans from the exposure served to the smallest journal.
LEMMA WindowCovers == Window => Covered
  <1> SUFFICES ASSUME Window, NEW i \in images PROVE served <= i
    BY DEF Covered
  <1>1. served \in Nat /\ granted \in Nat /\ i \in Nat
    BY DEF Window
  <1>2. served <= granted /\ granted <= i
    BY DEF Window
  <1> QED BY <1>1, <1>2

\* No step of the abstract relay leaves the window: neither serving, nor a
\* journal that appears, nor a grant after the write, nor a restart.
LEMMA WindowStep == Window /\ [Next]_exposure => Window'
  <1> SUFFICES ASSUME Window, [Next]_exposure PROVE Window'
    OBVIOUS
  <1>1. CASE Serve
    BY <1>1 DEF Window, Serve
  <1>2. CASE Revoke
    <2>1. granted' \in Nat /\ served <= granted' /\ granted' <= granted
      BY <1>2 DEF Revoke
    <2>2. \A i \in images : granted' <= i
      <3> TAKE i \in images
      <3>1. i \in Nat /\ granted \in Nat /\ granted <= i
        BY DEF Window
      <3> QED BY <2>1, <3>1
    <2> QED BY <1>2, <2>1, <2>2 DEF Window, Revoke
  <1>3. ASSUME NEW i \in images', Record(i) PROVE Window'
    BY <1>3 DEF Window, Record
  <1>4. ASSUME NEW i \in images, Grant(i) PROVE Window'
    <2>1. images' = {i} /\ i \in Nat
      BY <1>4 DEF Grant, Window
    <2> QED BY <1>4, <2>1 DEF Window, Grant
  <1>5. ASSUME NEW i \in images, Restart(i) PROVE Window'
    <2>1. images' # {} /\ images' \subseteq images
      BY <1>5 DEF Restart, Window
    <2>2. \A j \in images : served <= j
      BY WindowCovers DEF Covered
    <2> QED BY <1>5, <2>1, <2>2 DEF Window, Restart
  <1>6. CASE UNCHANGED exposure
    BY <1>6 DEF Window, exposure
  <1> QED BY <1>1, <1>2, <1>3, <1>4, <1>5, <1>6, SMTT(20), SMTT(30) DEF Next

\* Whichever journal a restart finds, it charges at least everything the relay
\* ever admitted (persist_next grants only what the journal it has just synced
\* allows, and recover_windows charges the whole window).
THEOREM AlwaysCovered == Spec => []Covered
  <1>1. Init => Window
    BY DEF Init, Window
  <1>2. Window /\ [Next]_exposure => Window'
    BY WindowStep
  <1>3. Window => Covered
    BY WindowCovers
  <1> QED BY <1>1, <1>2, <1>3, PTL DEF Spec

-----------------------------------------------------------------------------
(* Flap dampening, for every setting of its timers.                          *)

Recorded == [at : Nat, kind : {"mandatory", "optional", "update"}]

\* The times of the switches, and of the timers, are in the past; a node that has had a
\* parent has a window and a last switch no earlier than the last one recorded.
FlapInv ==
    /\ now \in Nat /\ flap_count \in Nat
    /\ switches \in Seq(Recorded)
    /\ last_parent_switch \in Nat \cup {Never} /\ last_parent_switch <= now
    /\ flap_window_start \in Nat \cup {Never} /\ flap_window_start <= now
    /\ flap_dampening_until \in Nat \cup {Never}
    /\ \A i \in 1 .. Len(switches) : switches[i].at <= now
    /\ parent # Self => Len(switches) > 0
    /\ Len(switches) > 0 => /\ flap_window_start # Never /\ last_parent_switch # Never
                            /\ switches[Len(switches)].at <= last_parent_switch
    /\ SwitchesAreCounted

\* What is appended to the history of switches, and what is not.
LEMMA SwitchAppended ==
    ASSUME FlapInv, NEW e, e \in Recorded,
           switches' = Append(switches, e)
    PROVE  /\ switches' \in Seq(Recorded)
           /\ Len(switches) \in Nat /\ Len(switches') = Len(switches) + 1
           /\ switches'[Len(switches')] = e
           /\ \A i \in 1 .. Len(switches) : switches'[i] = switches[i] /\ switches[i].at \in Nat
<1>1. switches \in Seq(Recorded)
  BY DEF FlapInv
<1>2. /\ switches' \in Seq(Recorded)
      /\ Len(switches) \in Nat /\ Len(switches') = Len(switches) + 1
      /\ switches'[Len(switches')] = e
      /\ \A i \in 1 .. Len(switches) : switches'[i] = switches[i] /\ switches[i] \in Recorded
  BY <1>1
<1>3. \A x \in Recorded : x.at \in Nat
  BY DEF Recorded
<1>4. QED
  BY <1>2, <1>3

\* record_parent_switch counts the switch it is called for.
LEMMA SwitchIsCounted ==
    ASSUME FlapInv, NEW kind \in {"mandatory", "optional", "update"}, record_parent_switch,
           switches' = Append(switches, [at |-> now, kind |-> kind])
    PROVE  /\ flap_window_start' \in Nat /\ flap_window_start' <= now /\ flap_count' \in Nat
           /\ CountIsExact'
<1> DEFINE e == [at |-> now, kind |-> kind]
           n == Len(switches)
           Since(t) == {i \in 1 .. n : switches[i].at >= t}
<1>1. now \in Nat /\ e \in Recorded /\ e.at = now
  BY DEF FlapInv, Recorded
<1>2. /\ n \in Nat /\ Len(switches') = n + 1 /\ switches'[n + 1] = e
      /\ \A i \in 1 .. n : switches'[i] = switches[i] /\ switches[i].at \in Nat /\ switches[i].at <= now
  BY <1>1, SwitchAppended DEF FlapInv
<1> HIDE DEF e
<1>3. \A i \in 1 .. n + 1 : i = n + 1 \/ i \in 1 .. n
  BY <1>2
<1>4. /\ flap_window_start' = (IF InWindow THEN flap_window_start ELSE now)
      /\ flap_count' = (IF InWindow THEN flap_count + 1 ELSE 1)
  BY DEF record_parent_switch
<1>5. CASE InWindow
  <2>1. /\ flap_window_start \in Nat /\ flap_window_start <= now /\ now - flap_window_start < flap_window
        /\ flap_window_start # Never
    BY <1>5 DEF InWindow, FlapInv, Never
  <2>2. flap_window_start' = flap_window_start /\ flap_count' = flap_count + 1 /\ flap_count \in Nat
    BY <1>4, <1>5 DEF FlapInv
  <2>3. flap_count = Cardinality(Since(flap_window_start))
    BY <2>1 DEF FlapInv, SwitchesAreCounted, CountIsExact, SwitchesSince
  <2>4. SwitchesSince(flap_window_start)' = Since(flap_window_start) \cup {n + 1}
    BY <1>1, <1>2, <1>3, <2>1, <2>2 DEF SwitchesSince
  <2>5. IsFiniteSet(Since(flap_window_start)) /\ n + 1 \notin Since(flap_window_start)
    <3>1. IsFiniteSet(1 .. n)
      BY <1>2, FS_Interval
    <3>2. Since(flap_window_start) \in SUBSET (1 .. n)
      OBVIOUS
    <3>3. QED
      BY <1>2, <3>1, <3>2, FS_Subset
  <2>6. Cardinality(SwitchesSince(flap_window_start)') = flap_count + 1
    BY <2>3, <2>4, <2>5, FS_AddElement, Zenon
  <2>7. ASSUME NEW i \in 1 .. n + 1, switches'[i].at >= flap_window_start
        PROVE  switches'[i].at - flap_window_start < flap_window
    <3>1. CASE i = n + 1
      BY <1>1, <1>2, <2>1, <3>1
    <3>2. CASE i \in 1 .. n
      BY <1>2, <2>1, <2>7, <3>2 DEF FlapInv, SwitchesAreCounted, CountIsExact
    <3>3. QED
      BY <1>3, <3>1, <3>2
  <2>8. QED
    BY <1>2, <2>1, <2>2, <2>6, <2>7 DEF CountIsExact
<1>6. CASE ~InWindow
  <2>1. flap_window_start' = now /\ flap_count' = 1 /\ now # Never
    BY <1>1, <1>4, <1>6 DEF Never
  <2>2. \A i \in 1 .. n : switches[i].at < now
    <3> SUFFICES ASSUME NEW i \in 1 .. n PROVE switches[i].at < now
      OBVIOUS
    <3>1. /\ flap_window_start \in Nat /\ flap_window_start # Never
          /\ now - flap_window_start >= flap_window
      <4>1. n > 0
        BY <1>2
      <4>2. flap_window_start # Never /\ flap_window_start \in Nat
        BY <4>1 DEF FlapInv
      <4>3. QED
        BY <1>1, <1>6, <4>2, FlapAssumption DEF InWindow
    <3>2. switches[i].at >= flap_window_start => switches[i].at - flap_window_start < flap_window
      BY <3>1 DEF FlapInv, SwitchesAreCounted, CountIsExact
    <3>3. QED
      BY <1>1, <1>2, <3>1, <3>2, FlapAssumption, SMTT(20), SMTT(30)
  <2>3. SwitchesSince(flap_window_start)' = {n + 1}
    BY <1>1, <1>2, <1>3, <2>1, <2>2 DEF SwitchesSince
  <2>4. Cardinality(SwitchesSince(flap_window_start)') = 1
    BY <2>3, FS_Singleton, Zenon
  <2>5. ASSUME NEW i \in 1 .. n + 1, switches'[i].at >= now
        PROVE  switches'[i].at - now < flap_window
    BY <1>1, <1>2, <1>3, <2>2, <2>5, FlapAssumption
  <2>6. QED
    BY <1>1, <1>2, <2>1, <2>4, <2>5 DEF CountIsExact
<1>7. QED
  BY <1>5, <1>6

\* A change of parent keeps the invariant; an optional one was neither held down nor
\* dampened.
LEMMA SwitchKeeps ==
    ASSUME FlapInv, NEW p, p # parent, NEW kind \in {"mandatory", "optional"}, set_parent(p, kind),
           kind = "optional" => parent # Self /\ ~HeldDown /\ ~is_flap_dampened
    PROVE  FlapInv'
<1> DEFINE e == [at |-> now, kind |-> kind]
           n == Len(switches)
<1>1. /\ now' = now /\ last_parent_switch' = now /\ record_parent_switch
      /\ switches' = Append(switches, e)
  BY DEF set_parent
<1>2. now \in Nat /\ e \in Recorded
      /\ e.at = now /\ e.kind = kind
  BY DEF FlapInv, Recorded
<1>3. /\ switches' \in Seq(Recorded)
      /\ n \in Nat /\ Len(switches') = n + 1 /\ switches'[n + 1] = e
      /\ \A i \in 1 .. n : switches'[i] = switches[i] /\ switches[i].at \in Nat /\ switches[i].at <= now
  BY <1>1, <1>2, SwitchAppended DEF FlapInv
<1>4. /\ flap_window_start' \in Nat /\ flap_window_start' <= now /\ flap_count' \in Nat
      /\ CountIsExact'
  BY <1>1, SwitchIsCounted
<1> HIDE DEF e
<1>5. flap_dampening_until' = (IF flap_count' >= flap_threshold /\ flap_dampening_until = Never
                               THEN now + flap_dampening ELSE flap_dampening_until)
  BY <1>1 DEF record_parent_switch
<1>6. flap_dampening_until' \in Nat \cup {Never}
  BY <1>2, <1>5, FlapAssumption DEF FlapInv
<1>7. OptionalSwitchesAreRare'
  <2> SUFFICES ASSUME NEW i \in 1 .. n + 1, switches'[i].kind = "optional"
               PROVE  /\ i > 1 /\ switches'[i].at - switches'[i - 1].at >= hold_down
                      /\ flap_dampening_until' # Never =>
                           \/ switches'[i].at >= flap_dampening_until'
                           \/ switches'[i].at <= flap_dampening_until' - flap_dampening
    BY <1>3 DEF OptionalSwitchesAreRare
  <2>1. CASE i = n + 1
    <3>1. kind = "optional"
      BY <1>2, <1>3, <2>1
    <3>2. n > 0 /\ last_parent_switch \in Nat /\ last_parent_switch # Never
          /\ switches[n].at <= last_parent_switch
      BY <1>3, <3>1 DEF FlapInv
    <3>3. now - last_parent_switch >= hold_down
      BY <1>2, <3>1, <3>2, FlapAssumption DEF HeldDown
    <3>4. i > 1 /\ i - 1 = n /\ n \in 1 .. n
      BY <1>3, <2>1, <3>2
    <3>5. switches'[i].at - switches'[i - 1].at >= hold_down
      <4>1. switches'[i].at = now /\ switches'[i - 1].at = switches[n].at /\ switches[n].at \in Nat
        BY <1>2, <1>3, <2>1, <3>4
      <4>2. now - switches[n].at >= hold_down
        <5> DEFINE t == switches[n].at
        <5>1. t \in Nat /\ t <= last_parent_switch
          BY <3>2, <4>1
        <5> HIDE DEF t
        <5>2. now - t >= hold_down
          BY <1>2, <3>2, <3>3, <5>1, FlapAssumption
        <5>3. QED
          BY <5>2 DEF t
      <4>3. QED
        BY <4>1, <4>2
    <3>6. flap_dampening_until' # Never => \/ now >= flap_dampening_until'
                                          \/ now <= flap_dampening_until' - flap_dampening
      <4>1. CASE flap_dampening_until = Never
        BY <1>2, <1>5, <4>1, FlapAssumption
      <4>2. CASE flap_dampening_until # Never
        <5>1. flap_dampening_until \in Nat /\ flap_dampening_until' = flap_dampening_until
          BY <1>5, <4>2 DEF FlapInv
        <5>2. QED
          BY <1>2, <3>1, <4>2, <5>1 DEF is_flap_dampened
      <4>3. QED
        BY <4>1, <4>2
    <3>7. QED
      BY <1>2, <1>3, <2>1, <3>4, <3>5, <3>6
  <2>2. CASE i \in 1 .. n
    <3>1. switches[i].kind = "optional" /\ switches'[i] = switches[i]
      BY <1>3, <2>2
    <3>2. /\ i > 1 /\ switches[i].at - switches[i - 1].at >= hold_down
          /\ flap_dampening_until # Never =>
               \/ switches[i].at >= flap_dampening_until
               \/ switches[i].at <= flap_dampening_until - flap_dampening
      BY <2>2, <3>1 DEF FlapInv, SwitchesAreCounted, OptionalSwitchesAreRare
    <3>3. i - 1 \in 1 .. n /\ switches'[i - 1] = switches[i - 1]
      BY <1>3, <2>2, <3>2
    <3>4. flap_dampening_until' # Never =>
               \/ switches[i].at >= flap_dampening_until'
               \/ switches[i].at <= flap_dampening_until' - flap_dampening
      <4>1. CASE flap_dampening_until' = flap_dampening_until
        BY <3>2, <4>1
      <4>2. CASE flap_dampening_until' = now + flap_dampening
        <5>1. switches[i].at \in Nat /\ switches[i].at <= now
          BY <1>3, <2>2
        <5>2. flap_dampening \in Nat
          BY FlapAssumption
        <5>3. QED
          BY <1>2, <4>2, <5>1, <5>2
      <4>3. QED
        BY <1>5, <4>1, <4>2
    <3>5. QED
      BY <3>1, <3>2, <3>3, <3>4
  <2>3. QED
    BY <1>3, <2>1, <2>2
<1>8. \A i \in 1 .. n + 1 : switches'[i].at <= now
  BY <1>2, <1>3
<1>9. QED
  BY <1>1, <1>2, <1>3, <1>4, <1>6, <1>7, <1>8 DEF FlapInv, SwitchesAreCounted, Never

\* Nothing else changes what was counted.
LEMMA QuietStepKeeps ==
    ASSUME FlapInv, UNCHANGED <<flap_count, flap_window_start, flap_dampening_until, switches>>,
           now' \in Nat, now' >= now, last_parent_switch' \in {last_parent_switch, now},
           parent' # Self => parent # Self
    PROVE  FlapInv'
<1>1. CountIsExact' /\ OptionalSwitchesAreRare'
  BY Zenon DEF FlapInv, SwitchesAreCounted, CountIsExact, OptionalSwitchesAreRare, SwitchesSince
<1>2. /\ switches \in Seq(Recorded) /\ now \in Nat
      /\ last_parent_switch \in Nat \cup {Never} /\ last_parent_switch <= now
      /\ flap_window_start \in Nat \cup {Never} /\ flap_window_start <= now
      /\ \A i \in 1 .. Len(switches) : switches[i].at <= now
  BY DEF FlapInv
<1>3. /\ Len(switches) \in Nat
      /\ \A i \in 1 .. Len(switches) : switches[i] \in Recorded
  BY <1>2
<1>4. \A i \in 1 .. Len(switches) : switches[i].at \in Nat /\ switches[i].at <= now'
  <2>1. \A x \in Recorded : x.at \in Nat
    BY DEF Recorded
  <2>2. QED
    BY <1>2, <1>3, <2>1
<1>5. /\ last_parent_switch' \in Nat \cup {Never} /\ last_parent_switch' <= now'
      /\ last_parent_switch <= last_parent_switch'
      /\ last_parent_switch # Never => last_parent_switch' # Never
      /\ flap_window_start' \in Nat \cup {Never} /\ flap_window_start' <= now'
  BY <1>2 DEF Never
<1>6. Len(switches) > 0 => switches[Len(switches)].at <= last_parent_switch'
  <2> HAVE Len(switches) > 0
  <2>1. /\ switches[Len(switches)].at \in Nat
        /\ switches[Len(switches)].at <= last_parent_switch
    BY <1>3, <1>4 DEF FlapInv
  <2>2. QED
    BY <1>2, <1>5, <2>1 DEF Never
<1>7. QED
  BY <1>1, <1>4, <1>5, <1>6 DEF FlapInv, SwitchesAreCounted

\* For every hold-down, threshold, window and dampening time: flap_count is the number of
\* switches of the current window, and no cost comparison (evaluate_parent) moves the
\* node during a hold-down or while the dampening of record_parent_switch lasts.
THEOREM SwitchesCounted == FlapSpec => []SwitchesAreCounted
<1>1. FlapInit => FlapInv
  BY DEF FlapInit, FlapInv, SwitchesAreCounted, CountIsExact, OptionalSwitchesAreRare, Never
<1>2. FlapInv /\ [FlapNext]_fvars => FlapInv'
  <2> SUFFICES ASSUME FlapInv, [FlapNext]_fvars PROVE FlapInv'
    OBVIOUS
  <2>1. ASSUME NEW p, MandatorySwitch(p) PROVE FlapInv'
    BY <2>1, SwitchKeeps DEF MandatorySwitch
  <2>2. ASSUME NEW p, OptionalSwitch(p) PROVE FlapInv'
    BY <2>2, SwitchKeeps DEF OptionalSwitch
  <2>3. CASE ParentUpdated
    BY <2>3, QuietStepKeeps DEF ParentUpdated, set_parent, FlapInv
  <2>4. CASE BecomeRoot
    BY <2>4, QuietStepKeeps DEF BecomeRoot, FlapInv
  <2>5. CASE Second
    BY <2>5, QuietStepKeeps DEF Second, FlapInv
  <2>6. CASE UNCHANGED fvars
    BY <2>6, QuietStepKeeps DEF fvars, FlapInv
  <2>7. QED
    BY <2>1, <2>2, <2>3, <2>4, <2>5, <2>6 DEF FlapNext
<1>3. FlapInv => SwitchesAreCounted
  BY DEF FlapInv
<1>4. QED
  BY <1>1, <1>2, <1>3, PTL DEF FlapSpec

-----------------------------------------------------------------------------
(* The wake-up of the endpoint's reader, for every set of senders.           *)

SenderFields == {"pc", "work", "made"}
ReaderFields == {"pc", "max", "given", "event", "observed"}

\* The number a sleeping thread compares with is not ahead of the current one, and a
\* sender that is about to notify has a batch it notifies for.
WakeInv ==
    /\ sequence \in Nat
    /\ DOMAIN reader = ReaderFields
    /\ reader.pc \in {"Look", "Wait"} => reader.observed \in Nat /\ reader.observed <= sequence
    /\ DOMAIN sender = Senders
    /\ \A s \in Senders :
        /\ DOMAIN sender[s] = SenderFields
        /\ sender[s].pc \in {"Reserve", "Send", "Notify"} => sender[s].work # <<>>
    /\ SleeperIsWoken

\* The senders, one of which has moved on.
SendersOK(t) ==
    /\ DOMAIN t = Senders
    /\ \A s \in Senders :
        /\ DOMAIN t[s] = SenderFields
        /\ t[s].pc \in {"Reserve", "Send", "Notify"} => t[s].work # <<>>

\* A call goes on with the batches it has yet to send, or ends.
LEMMA GoneOn ==
    ASSUME WakeInv, NEW s \in Senders, NEW pc \in {"Reserve", "Send", "Notify"}, NEW work,
           Goto(s, pc, work)
    PROVE  /\ SendersOK(sender')
           /\ work # <<>> => sender'[s].pc = pc
           /\ \A q \in Senders : q # s => sender'[q] = sender[q]
<1>1. /\ DOMAIN sender = Senders /\ DOMAIN sender[s] = SenderFields
      /\ \A q \in Senders : /\ DOMAIN sender[q] = SenderFields
                            /\ sender[q].pc \in {"Reserve", "Send", "Notify"} => sender[q].work # <<>>
  BY DEF WakeInv
<1>2. /\ DOMAIN sender' = Senders /\ DOMAIN sender'[s] = SenderFields
      /\ sender'[s].pc = (IF work = <<>> THEN "Idle" ELSE pc) /\ sender'[s].work = work
      /\ \A q \in Senders : q # s => sender'[q] = sender[q]
  BY <1>1 DEF Goto, SenderFields
<1>3. QED
  BY <1>1, <1>2 DEF SendersOK

\* A step that neither fills the channel nor puts the reader to sleep keeps the invariant
\* unless it takes the notification away.
LEMMA StaysAwake ==
    ASSUME WakeInv, SendersOK(sender'), UNCHANGED reader, sequence' \in Nat,
           \/ sequence' > sequence
           \/ /\ sequence' = sequence
              /\ \/ \E s \in Senders : sender'[s].pc = "Notify"
                 \/ /\ channel' = channel
                    /\ \A s \in Senders : sender[s].pc = "Notify" => sender'[s].pc = "Notify"
    PROVE  WakeInv'
<1>1. /\ sequence \in Nat /\ DOMAIN reader' = ReaderFields
      /\ reader.pc \in {"Look", "Wait"} => reader.observed \in Nat /\ reader.observed <= sequence
  BY DEF WakeInv
<1>2. reader'.pc \in {"Look", "Wait"} => reader'.observed \in Nat /\ reader'.observed <= sequence'
  BY <1>1
<1>3. SleeperIsWoken'
  <2>1. CASE sequence' > sequence
    BY <1>1, <2>1 DEF SleeperIsWoken, Reader
  <2>2. CASE sequence' = sequence /\ \E s \in Senders : sender'[s].pc = "Notify"
    BY <2>2 DEF SleeperIsWoken
  <2>3. CASE /\ sequence' = sequence /\ channel' = channel
             /\ \A s \in Senders : sender[s].pc = "Notify" => sender'[s].pc = "Notify"
    BY <2>3 DEF SleeperIsWoken, Reader, WakeInv
  <2>4. QED
    BY <2>1, <2>2, <2>3
<1>4. QED
  BY <1>1, <1>2, <1>3 DEF WakeInv, SendersOK

\* A step of the reader that does not fill the channel keeps the invariant if it falls
\* asleep on an empty channel only.
LEMMA ReadsOn ==
    ASSUME WakeInv, UNCHANGED <<sequence, sender>>, DOMAIN reader' = ReaderFields,
           reader'.pc \in {"Look", "Wait"} =>
               reader'.observed = sequence \/ (reader.pc \in {"Look", "Wait"} /\ reader'.observed = reader.observed),
           reader'.pc = "Wait" => channel' = <<>>
    PROVE  WakeInv'
  BY DEF WakeInv, SleeperIsWoken, Reader

\* A step of a sender.
LEMMA SendingKeeps ==
    ASSUME WakeInv, NEW s \in Senders, Sending(s)
    PROVE  WakeInv'
<1>1. /\ sequence \in Nat /\ DOMAIN sender = Senders /\ DOMAIN sender[s] = SenderFields
      /\ \A q \in Senders : /\ DOMAIN sender[q] = SenderFields
                            /\ sender[q].pc \in {"Reserve", "Send", "Notify"} => sender[q].work # <<>>
  BY DEF WakeInv
<1>2. ASSUME NEW n, send(s, n) PROVE WakeInv'
  <2>1. /\ DOMAIN sender' = Senders /\ DOMAIN sender'[s] = SenderFields
        /\ sender'[s].pc = "Reserve" /\ sender'[s].work = <<Batch(s, sender[s].made + 1, n)>>
        /\ \A q \in Senders : q # s => sender'[q] = sender[q]
    BY <1>1, <1>2 DEF send, SenderFields
  <2>2. SendersOK(sender') /\ sender[s].pc = "Idle"
    BY <1>1, <1>2, <2>1 DEF SendersOK, send
  <2>3. UNCHANGED <<reader, sequence, channel>>
    BY <1>2 DEF send
  <2>4. \A q \in Senders : sender[q].pc = "Notify" => sender'[q].pc = "Notify"
    BY <2>1, <2>2
  <2>5. QED
    BY <1>1, <2>2, <2>3, <2>4, StaysAwake
<1>3. CASE Reserve(s)
  <2>1. sender[s].pc = "Reserve" /\ UNCHANGED <<reader, sequence, channel>>
    BY <1>3 DEF Reserve
  <2>2. \E pc \in {"Reserve", "Send", "Notify"} : \E work : Goto(s, pc, work)
    BY <1>3 DEF Reserve
  <2>3. SendersOK(sender') /\ \A q \in Senders : q # s => sender'[q] = sender[q]
    BY <2>2, GoneOn
  <2>4. \A q \in Senders : sender[q].pc = "Notify" => sender'[q].pc = "Notify"
    BY <2>1, <2>3
  <2>5. QED
    BY <1>1, <2>1, <2>3, <2>4, StaysAwake
<1>4. CASE TrySend(s)
  <2>1. sender[s].pc = "Send" /\ Goto(s, "Notify", sender[s].work) /\ UNCHANGED <<reader, sequence>>
    BY <1>4 DEF TrySend
  <2>2. SendersOK(sender') /\ sender'[s].pc = "Notify"
    BY <1>1, <2>1, GoneOn
  <2>3. QED
    BY <1>1, <2>1, <2>2, StaysAwake
<1>5. CASE note_send_rejected(s)
  <2>1. sender[s].pc = "Send" /\ UNCHANGED <<reader, sequence, channel>>
    BY <1>5 DEF note_send_rejected
  <2>2. PICK work : Goto(s, "Notify", work)
    BY <1>5 DEF note_send_rejected
  <2>3. SendersOK(sender') /\ \A q \in Senders : q # s => sender'[q] = sender[q]
    BY <2>2, GoneOn
  <2>4. \A q \in Senders : sender[q].pc = "Notify" => sender'[q].pc = "Notify"
    BY <2>1, <2>3
  <2>5. QED
    BY <1>1, <2>1, <2>3, <2>4, StaysAwake
<1>6. CASE Notify(s)
  <2>1. sequence' = sequence + 1 /\ Goto(s, "Reserve", Tail(sender[s].work)) /\ UNCHANGED reader
    BY <1>6 DEF Notify, notify
  <2>2. SendersOK(sender')
    BY <2>1, GoneOn
  <2>3. QED
    BY <1>1, <2>1, <2>2, StaysAwake
<1>7. CASE DropSender(s) \/ DropTx(s)
  <2>1. /\ sender[s].pc # "Notify" /\ UNCHANGED <<reader, channel>>
        /\ sequence' = sequence \/ sequence' = sequence + 1
        /\ \E pc \in {"Dropping", "Gone"} : sender' = [sender EXCEPT ![s].pc = pc]
    BY <1>7 DEF DropSender, DropTx, notify
  <2>2. /\ SendersOK(sender') /\ \A q \in Senders : q # s => sender'[q] = sender[q]
    BY <1>1, <2>1 DEF SendersOK, SenderFields
  <2>3. QED
    BY <1>1, <2>1, <2>2, StaysAwake
<1>8. QED
  BY <1>2, <1>3, <1>4, <1>5, <1>6, <1>7 DEF Sending

\* A step of the reader.
LEMMA ReceivingKeeps ==
    ASSUME WakeInv, Receiving
    PROVE  WakeInv'
<1>1. sequence \in Nat /\ DOMAIN reader = ReaderFields
  BY DEF WakeInv
<1>2. ASSUME NEW ms, NEW kept, NEW given, NEW max, NEW pc \in {"More", "First"},
             Give(ms, kept, given, max, pc), UNCHANGED <<sequence, sender>>
      PROVE  WakeInv'
  <2>1. DOMAIN reader' = ReaderFields /\ reader'.pc \in {"Idle", pc}
    BY <1>1, <1>2 DEF Give, ReaderFields
  <2>2. QED
    BY <1>2, <2>1, ReadsOn
<1>3. ASSUME NEW max, Call(max) PROVE WakeInv'
  BY <1>2, <1>3 DEF Call, drain_pending_into
<1>4. CASE Wait
  <2>1. UNCHANGED <<sequence, sender>> /\ (recv \/ snapshot)
    BY <1>4 DEF Wait
  <2>2. /\ DOMAIN reader' = ReaderFields /\ reader'.pc \in {"Await", "Look"}
        /\ reader'.pc = "Look" => reader'.observed = sequence
    BY <1>1, <2>1, Zenon DEF recv, snapshot, ReaderFields
  <2>3. QED
    BY <2>1, <2>2, ReadsOn
<1>5. CASE try_recv
  <2>1. UNCHANGED <<sequence, sender>> /\ DOMAIN reader' = ReaderFields /\ reader'.pc = "Push"
    BY <1>1, <1>5 DEF try_recv, ReaderFields
  <2>2. QED
    BY <2>1, ReadsOn
<1>6. CASE push_event_into
  BY <1>2, <1>6 DEF push_event_into
<1>7. CASE EmptyChannel
  <2>1. /\ UNCHANGED <<sequence, sender, channel>> /\ channel = <<>>
        /\ \E pc \in {"Idle", "Ended", "Wait"} :
              reader' = [reader EXCEPT !.pc = pc] /\ (pc = "Wait" => reader.pc = "Look")
    BY <1>7 DEF EmptyChannel, Reader
  <2>2. /\ DOMAIN reader' = ReaderFields /\ reader'.observed = reader.observed
        /\ reader'.pc \in {"Idle", "Ended", "Wait"} /\ (reader'.pc = "Wait" => reader.pc = "Look")
    BY <1>1, <2>1 DEF ReaderFields
  <2>3. QED
    BY <2>1, <2>2, ReadsOn
<1>8. CASE wait_for_change
  <2>1. /\ UNCHANGED <<sequence, sender>> /\ DOMAIN reader' = ReaderFields /\ reader'.pc = "Look"
        /\ reader'.observed = sequence
    BY <1>1, <1>8 DEF wait_for_change, ReaderFields
  <2>2. QED
    BY <2>1, ReadsOn
<1>9. CASE DropReceiver
  <2>1. /\ sequence' = sequence + 1 /\ UNCHANGED sender
        /\ DOMAIN reader' = ReaderFields /\ reader'.pc = "Dropping"
    BY <1>1, <1>9 DEF DropReceiver, notify, ReaderFields
  <2>2. QED
    BY <1>1, <2>1 DEF WakeInv, SleeperIsWoken, Reader
<1>10. CASE DropRx
  <2>1. /\ UNCHANGED <<sequence, sender>> /\ DOMAIN reader' = ReaderFields /\ reader'.pc = "Gone"
    BY <1>1, <1>10 DEF DropRx, ReaderFields
  <2>2. QED
    BY <2>1, ReadsOn
<1>11. QED
  BY <1>3, <1>4, <1>5, <1>6, <1>7, <1>8, <1>9, <1>10 DEF Receiving

\* For any number of senders, batches and calls: no wake-up is lost between the look into
\* the channel and the sleep of blocking_recv, because snapshot reads the number first and
\* notify raises it after the send.
THEOREM NoWakeUpIsLost == EventsSpec => []SleeperIsWoken
<1>1. EventsInit => WakeInv
  BY DEF EventsInit, WakeInv, SleeperIsWoken, Reader, ReaderFields, SenderFields
<1>2. WakeInv /\ [EventsNext]_evars => WakeInv'
  <2> SUFFICES ASSUME WakeInv, [EventsNext]_evars PROVE WakeInv'
    OBVIOUS
  <2>1. CASE UNCHANGED evars
    BY <2>1 DEF evars, WakeInv, SleeperIsWoken, Reader
  <2>2. QED
    BY <2>1, SendingKeeps, ReceivingKeeps DEF EventsNext
<1>3. WakeInv => SleeperIsWoken
  BY DEF WakeInv
<1>4. QED
  BY <1>1, <1>2, <1>3, PTL DEF EventsSpec

=============================================================================
