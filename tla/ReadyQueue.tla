----------------------------- MODULE ReadyQueue -----------------------------
(***************************************************************************)
(* The ready queue of the dataplane scheduler: a queue without duplicates  *)
(* in which a locally terminating bulk owner may cut in at the front, but  *)
(* only when no debt from an earlier cut-in is outstanding.                *)
(*                                                                         *)
(* The same algorithm is written twice in the source: for the owners of a  *)
(* shard (OwnerAdmissionQueues::push_ready / pop_ready_front, with one     *)
(* debt shared by the lanes, which only the bulk lane uses) and for the    *)
(* shards of the dataplane (ReadyShardQueue::mark / pop).                  *)
(***************************************************************************)
EXTENDS Naturals, Sequences, FiniteSets

CONSTANTS
  Items,    \* what can be ready: the owners of a shard, or the shards
  Local     \* the items that ask for the front (local bulk work)

ASSUME ItemsAssumption == IsFiniteSet(Items) /\ Local \subseteq Items

(***************************************************************************)
(* The operators on a ready queue rq = [queue, debt].                      *)
(***************************************************************************)
EmptyReady == [queue |-> <<>>, debt |-> 0]

IsReady(rq, x) == \E i \in 1 .. Len(rq.queue) : rq.queue[i] = x

\* Mutant: the debt is forgotten, every local item may cut in.
mark_without_debt(rq, x, front) ==
  IF IsReady(rq, x) THEN rq
  ELSE IF front /\ rq.queue # <<>>
  THEN [queue |-> <<x>> \o rq.queue, debt |-> 2]
  ELSE [rq EXCEPT !.queue = Append(@, x)]

mark(rq, x, front) ==
  IF IsReady(rq, x) THEN rq
  ELSE IF front /\ rq.queue # <<>> /\ rq.debt = 0
  THEN [queue |-> <<x>> \o rq.queue, debt |-> 2]
  ELSE [rq EXCEPT !.queue = Append(@, x)]

\* Drop the first n entries: one debt is repaid per entry.
pop(rq, n) ==
  [queue |-> SubSeq(rq.queue, n + 1, Len(rq.queue)),
   debt  |-> IF rq.debt > n THEN rq.debt - n ELSE 0]

-----------------------------------------------------------------------------
(***************************************************************************)
(* The queue under every sequence of marks and pops, with the number of    *)
(* pops each waiting item has seen.                                        *)
(***************************************************************************)
VARIABLES
  ready,    \* the ready queue
  waited    \* item -> pops since it became ready

qvars == <<ready, waited>>

QueueTypeOK ==
  /\ ready \in [queue : Seq(Items), debt : 0 .. 2]
  /\ waited \in [Items -> Nat]

QueueInit ==
  /\ ready = EmptyReady
  /\ waited = [x \in Items |-> 0]

Mark(x) ==
  /\ ready' = mark(ready, x, x \in Local)
  /\ UNCHANGED waited

\* The history stops counting once the bound it is compared with is exceeded.
OneMore(w) == IF w > 2 * Cardinality(Items) THEN w ELSE w + 1

Pop ==
  /\ ready.queue # <<>>
  /\ ready' = pop(ready, 1)
  /\ waited' = [x \in Items |-> IF IsReady(ready', x) THEN OneMore(waited[x]) ELSE 0]

QueueNext == Pop \/ \E x \in Items : Mark(x)

QueueSpec == QueueInit /\ [][QueueNext]_qvars

-----------------------------------------------------------------------------
\* An owner (or shard) is queued at most once, so no owner is served twice for
\* one turn: both versions of the code refuse to mark what is already ready.
NoDuplicates ==
  \A i, j \in 1 .. Len(ready.queue) : ready.queue[i] = ready.queue[j] => i = j

\* However often local owners ask for the front, an item that became ready is
\* popped after at most two pops per item that can be queued: the debt of two
\* lets at most one owner overtake for every waiting owner served.
BoundedOvertaking ==
  \A x \in Items : IsReady(ready, x) => waited[x] <= 2 * Cardinality(Items)

\* The strengthening that makes the bound inductive: the pops already waited
\* for, plus two for every position still to go, less the debt outstanding.
PotentialBound ==
  /\ \A i \in 1 .. Len(ready.queue) :
       waited[ready.queue[i]] + 2 * i <= 2 * Cardinality(Items) + ready.debt
  /\ \A x \in Items : ~IsReady(ready, x) => waited[x] = 0
=============================================================================
