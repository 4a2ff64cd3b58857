--------------------------- MODULE AdmissionQueues ---------------------------
(***************************************************************************)
(* OwnerAdmissionQueues of dataplane/admission.rs: the packets one shard   *)
(* has admitted in one direction, per owner and lane, with a ready queue   *)
(* of owners per lane and a cached length per lane.  An owner whose lane   *)
(* is blocked keeps its packets but leaves the ready queue until it is     *)
(* woken.                                                                  *)
(*                                                                         *)
(* qs = [queue : owner -> lane -> packets, len : lane -> Nat,              *)
(*       ready : lane -> ready queue].  The code's single bulk_cut_in_debt *)
(* is the debt of the bulk ready queue: no other lane asks for the front.  *)
(***************************************************************************)
EXTENDS Naturals, Sequences, FiniteSets

CONSTANTS
  FmpOwners,   \* owners of link (FMP) sessions
  FspOwners    \* owners of end-to-end (FSP) sessions

Owners == FmpOwners \cup FspOwners

Lanes == {"Priority", "Bulk", "Background"}

RQ == INSTANCE ReadyQueue WITH
        Items <- Owners, Local <- FspOwners, ready <- <<>>, waited <- <<>>

dataplane_local_bulk(o, lane) == lane = "Bulk" /\ o \in FspOwners

EmptyQueues ==
  [queue |-> [o \in Owners |-> [l \in Lanes |-> <<>>]],
   len   |-> [l \in Lanes |-> 0],
   ready |-> [l \in Lanes |-> RQ!EmptyReady]]

push_ready(qs, lane, o, front) ==
  [qs EXCEPT !.ready[lane] = RQ!mark(@, o, front)]

\* Returns the queues; the owner's lane became ready iff it was empty.
push_run_back(qs, o, lane, items) ==
  LET pushed == [qs EXCEPT !.queue[o][lane] = @ \o items, !.len[lane] = @ + Len(items)]
  IN  IF items # <<>> /\ qs.queue[o][lane] = <<>>
      THEN push_ready(pushed, lane, o, dataplane_local_bulk(o, lane))
      ELSE pushed

becomes_ready(qs, o, lane) == qs.queue[o][lane] = <<>>

\* The position in the ready queue of the first owner with a packet in the lane.
FirstServable(qs, lane) ==
  LET q == qs.ready[lane].queue
      S == {i \in 1 .. Len(q) : qs.queue[q[i]][lane] # <<>>}
  IN  IF S = {} THEN 0 ELSE CHOOSE i \in S : \A j \in S : i <= j

CanPop(qs, lane) == FirstServable(qs, lane) # 0

\* The first n packets of owner o, at position i of the ready queue, are popped.
Popped(qs, lane, i, o, n) ==
  [owner |-> o, items |-> SubSeq(qs.queue[o][lane], 1, n),
   owner_has_more |-> Len(qs.queue[o][lane]) > n,
   qs |-> [qs EXCEPT !.queue[o][lane] = SubSeq(@, n + 1, Len(@)),
                     !.len[lane] = @ - n,
                     !.ready[lane] = RQ!pop(@, i)]]

\* Pop a run of at most limit packets of the first servable owner.
PopFrom(qs, lane, limit, i, o) ==
  Popped(qs, lane, i, o,
         IF Len(qs.queue[o][lane]) < limit THEN Len(qs.queue[o][lane]) ELSE limit)

PopAt(qs, lane, limit, i) == PopFrom(qs, lane, limit, i, qs.ready[lane].queue[i])

pop_next_run_into(qs, lane, limit) == PopAt(qs, lane, limit, FirstServable(qs, lane))

continue_owner_lane(qs, lane, o, more) ==
  IF more THEN push_ready(qs, lane, o, FALSE) ELSE qs

\* Mutant: a blocked run goes to the back of its lane.
defer_to_back(qs, lane, o, items) ==
  [qs EXCEPT !.queue[o][lane] = @ \o items, !.len[lane] = @ + Len(items)]

\* Mutant: the cached length of the lane is not restored.
defer_uncounted(qs, lane, o, items) ==
  [qs EXCEPT !.queue[o][lane] = items \o @]

\* A blocked run goes back to the front of its lane, the owner stays unready.
defer_owner_run(qs, lane, o, items) ==
  [qs EXCEPT !.queue[o][lane] = items \o @, !.len[lane] = @ + Len(items)]

\* Mutant: the background lane is forgotten.
wake_paid_lanes(qs, o) ==
  [qs EXCEPT !.ready = [l \in Lanes |->
     IF qs.queue[o][l] = <<>> \/ l = "Background" THEN @[l]
     ELSE RQ!mark(@[l], o, dataplane_local_bulk(o, l))]]

wake_owner(qs, o) ==
  [qs EXCEPT !.ready = [l \in Lanes |->
     IF qs.queue[o][l] = <<>> THEN @[l]
     ELSE RQ!mark(@[l], o, dataplane_local_bulk(o, l))]]
=============================================================================
