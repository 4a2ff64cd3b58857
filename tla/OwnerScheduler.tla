--------------------------- MODULE OwnerScheduler ---------------------------
(***************************************************************************)
(* The scheduler of the owner-affine dataplane: admission per lane, the    *)
(* ready queues of owners and of shards, dispatch into crypto runs under   *)
(* the owners' and the worker pool's limits, the shared AEAD worker queue, *)
(* and in-order retirement (dataplane/engine.rs, engine_dispatch.rs,       *)
(* owner_shard.rs, owner_retire.rs, crypto.rs).                            *)
(*                                                                         *)
(* One thread runs the turns: collect completions, dispatch, retire.  The  *)
(* workers pop and complete runs at any moment in between.  What a packet  *)
(* contains is abstracted to what its reservation will answer: "ok",       *)
(* "keyless" (reserved, but its epoch has no key: it completes failed      *)
(* without a worker) or "refused" (dropped at reservation); the            *)
(* reservation itself is modelled in DataplaneOwner.  The desktop build is *)
(* modelled: the mobile build also runs one small packet inline.           *)
(***************************************************************************)
EXTENDS AdmissionQueues, SequencesExt, FiniteSetsExt

CONSTANTS
  Shards,            \* indices of the owner shards
  OwnerQuantum,      \* DATAPLANE_OUTBOUND_OWNER_FAIRNESS_PACKETS
  JobPackets,        \* DATAPLANE_AEAD_JOB_PACKETS
  MaxPackets,        \* bound: packets admitted in all
  Worlds             \* the dataplanes to consider, and the traffic they get

\* A configuration of the dataplane, and bounds on what happens to it.
WorldType ==
  [shard_of : [Owners -> Shards],
   lane_capacity : [Lanes -> Nat],   \* admission capacity
   in_flight_limit : Nat \ {0},      \* packets an owner may have in flight
   max_in_flight : Nat \ {0},        \* packets the worker pool may have in flight
   fairness_packets : Nat \ {0},     \* DATAPLANE_AEAD_WORKER_FAIRNESS_PACKETS
   turn_limit : Nat \ {0},           \* crypto_limit of a live turn
   workers : Nat \ {0},              \* number of AEAD worker threads
   traffic : SUBSET [owner : Owners, dir : {"in", "out"}, lane : Lanes,
                     outcome : {"ok", "keyless", "refused"}],
   batch : Nat,                      \* bound: packets of one submitted run
   registrations : [Owners -> Nat],  \* bound: registrations of an owner
   generations : Nat]                \* bound: session generations of an owner

ASSUME SchedulerAssumption ==
  /\ {OwnerQuantum, JobPackets, MaxPackets} \subseteq Nat \ {0}
  /\ \A w \in Worlds : w \in WorldType

VARIABLES
  adm,             \* direction -> shard -> admission queues
  lens,            \* direction -> lane -> admitted packets (the engine's own count)
  shards_ready,    \* direction -> lane -> ready queue of shards
  owners,          \* owner -> OwnerState, or Gone
  retire_owners,   \* shard -> owners with work to retire
  pending_retire,  \* queue of the shards with work to retire, and Orphans
  orphaned_slots,  \* slots of owners unregistered or replaced while in flight
  pool,            \* in_flight, bulk and background counters of the pool
  runs,            \* the worker queue, per lane, and the priority streak
  running,         \* runs being executed
  pc,              \* where the turn is: "idle", "collected", "submitted"
  admitted,        \* packets admitted so far
  world,           \* a member of Worlds; its registrations are those still to come
  finished         \* packets retired or dropped

vars == <<adm, lens, shards_ready, owners, retire_owners, pending_retire,
          orphaned_slots, pool, runs, running, pc, admitted, world, finished>>

Dirs == {"in", "out"}
Gone == [reg |-> 0]
Orphans == "orphans"     \* the orphan source of pending_retire_shards

Registered(o) == owners[o] # Gone

CeilDiv(a, b) == (a + b - 1) \div b
Minus(a, b) == IF a > b THEN a - b ELSE 0
Least(a, b) == IF a < b THEN a ELSE b

(***************************************************************************)
(* ReadyShardQueue: the same cut-in queue, of shards.                      *)
(***************************************************************************)
SQ == INSTANCE ReadyQueue WITH
        Items <- Shards \cup {Orphans}, Local <- {}, ready <- <<>>, waited <- <<>>

\* Mutant: a shard that still has ready owners is not queued again.
MarkShard_never(t, d, s) == t

MarkShard(t, d, s) ==
  [t EXCEPT !.shards_ready[d] = [l \in Lanes |->
     IF t.adm[d][s].ready[l].queue # <<>> THEN SQ!mark(@[l], s, FALSE) ELSE @[l]]]

mark_admission_ready_shard(t, s) == MarkShard(MarkShard(t, "in", s), "out", s)

mark_pending_retire(t, source) ==
  [t EXCEPT !.pending_retire = SQ!mark(@, source, FALSE)]

\* The state a turn works on, as one record.
Turn ==
  [adm |-> adm, lens |-> lens, shards_ready |-> shards_ready, owners |-> owners,
   retire_owners |-> retire_owners, pending_retire |-> pending_retire,
   orphaned_slots |-> orphaned_slots, pool |-> pool, runs |-> runs,
   finished |-> finished, prepared |-> <<>>, ready_slots |-> <<>>]

Becomes(t) ==
  /\ adm' = t.adm /\ lens' = t.lens /\ shards_ready' = t.shards_ready
  /\ owners' = t.owners /\ retire_owners' = t.retire_owners
  /\ pending_retire' = t.pending_retire /\ orphaned_slots' = t.orphaned_slots
  /\ pool' = t.pool /\ runs' = t.runs /\ finished' = t.finished

-----------------------------------------------------------------------------
(***************************************************************************)
(* Slots.  A slot is a run of packets of one owner with consecutive order  *)
(* tokens; the owner (or the orphan list) holds it with the number of      *)
(* results already drained.  It is ready once no worker has it.            *)
(***************************************************************************)
Queued == UNION {Range(runs.lanes[l]) : l \in Lanes}

is_ready(slot) == ~slot.counted \/ slot \notin Queued \cup running

remaining(held) == Len(held.slot.items) - held.drained

order(held) == held.slot.first + held.drained

Held(slot) == [slot |-> slot, drained |-> 0]

\* The packets a drain of n results finishes.
Drained(held, n) ==
  {held.slot.items[i] : i \in held.drained + 1 .. held.drained + n}

\* CryptoReadySlot::retire, of n packets.
RetireCounters(p, slot, n) ==
  IF ~slot.counted THEN p
  ELSE [in_flight  |-> p.in_flight - n,
        bulk       |-> p.bulk - (IF slot.lane = "Priority" THEN 0 ELSE n),
        background |-> p.background - (IF slot.lane = "Background" THEN n ELSE 0)]

AddCounters(p, slot) ==
  LET n == Len(slot.items)
  IN  [in_flight  |-> p.in_flight + n,
       bulk       |-> p.bulk + (IF slot.lane = "Priority" THEN 0 ELSE n),
       background |-> p.background + (IF slot.lane = "Background" THEN n ELSE 0)]

-----------------------------------------------------------------------------
(***************************************************************************)
(* Registration.                                                           *)
(***************************************************************************)
NewOwnerState(reg) ==
  [reg |-> reg, generation |-> 1, next_order |-> 0, next_retire |-> 0,
   in_flight |-> 0, bulk |-> 0, background |-> 0, pending |-> <<>>]

\* The pending slots of an owner that leaves become orphans.
Orphan(t, o) ==
  IF t.owners[o] = Gone \/ t.owners[o].pending = <<>> THEN t
  ELSE mark_pending_retire([t EXCEPT !.orphaned_slots = @ \o t.owners[o].pending], Orphans)

\* Mutant: the owner's queues are not woken when it leaves.
Replace_without_wake(t, o, state) ==
  LET s == world.shard_of[o]
      u == Orphan([t EXCEPT !.retire_owners[s] = SelectSeq(@, LAMBDA x : x # o)], o)
  IN  mark_admission_ready_shard([u EXCEPT !.owners[o] = state], s)

\* Mutant: the slots in flight are forgotten when the owner leaves.
Replace_without_orphans(t, o, state) ==
  LET s == world.shard_of[o]
      u == [t EXCEPT !.retire_owners[s] = SelectSeq(@, LAMBDA x : x # o)]
      w == [u EXCEPT !.owners[o] = state,
                     !.adm = [d \in Dirs |-> [@[d] EXCEPT ![s] = wake_owner(@, o)]]]
  IN  mark_admission_ready_shard(w, s)

\* Mutant: the owner stays queued for retirement.
Replace_keeping_retire(t, o, state) ==
  LET s == world.shard_of[o]
      u == Orphan(t, o)
      w == [u EXCEPT !.owners[o] = state,
                     !.adm = [d \in Dirs |-> [@[d] EXCEPT ![s] = wake_owner(@, o)]]]
  IN  mark_admission_ready_shard(w, s)

\* Common part of register_owner and unregister_owner: the owner's entry is
\* replaced, its slots orphaned, and its admission queues woken.
Replace(t, o, state) ==
  LET s == world.shard_of[o]
      u == Orphan([t EXCEPT !.retire_owners[s] = SelectSeq(@, LAMBDA x : x # o)], o)
      w == [u EXCEPT !.owners[o] = state,
                     !.adm = [d \in Dirs |-> [@[d] EXCEPT ![s] = wake_owner(@, o)]]]
  IN  mark_admission_ready_shard(w, s)

register_owner(o) ==
  /\ pc = "idle"
  /\ world.registrations[o] > 0
  /\ world' = [world EXCEPT !.registrations[o] = @ - 1]
  /\ Becomes(Replace(Turn, o, NewOwnerState(world.registrations[o])))
  /\ UNCHANGED <<running, pc, admitted>>

unregister_owner(o) ==
  /\ pc = "idle"
  /\ Registered(o)
  /\ Becomes(Replace(Turn, o, Gone))
  /\ UNCHANGED <<running, pc, admitted, world>>

\* A new session generation is installed in a registered owner.
install_generation(o) ==
  /\ pc = "idle"
  /\ Registered(o)
  /\ owners[o].generation < world.generations
  /\ owners' = [owners EXCEPT ![o].generation = @ + 1]
  /\ UNCHANGED <<adm, lens, shards_ready, retire_owners, pending_retire, orphaned_slots,
                 pool, runs, running, pc, admitted, world, finished>>

-----------------------------------------------------------------------------
(***************************************************************************)
(* Admission: submit_socket_packet_run, submit_outbound_packet_run.  What  *)
(* does not fit the lane is dropped and recorded; the owner may be unknown.*)
(***************************************************************************)
Submit(kind, n) ==
  LET o == kind.owner
      d == kind.dir
      l == kind.lane
      s == world.shard_of[o]
      fits == Least(Minus(world.lane_capacity[l], lens[d][l]), n)
      items == [i \in 1 .. fits |-> [seq |-> admitted + i, outcome |-> kind.outcome]]
  IN  /\ pc \in {"idle", "collected"}
      /\ admitted + n <= MaxPackets
      /\ admitted' = admitted + n
      /\ finished' = finished \cup (admitted + fits + 1 .. admitted + n)
      /\ adm' = [adm EXCEPT ![d][s] = push_run_back(@, o, l, items)]
      /\ lens' = [lens EXCEPT ![d][l] = @ + fits]
      /\ shards_ready' =
           IF fits > 0 /\ becomes_ready(adm[d][s], o, l)
           THEN [shards_ready EXCEPT ![d][l] = SQ!mark(@, s, dataplane_local_bulk(o, l))]
           ELSE shards_ready
      /\ UNCHANGED <<owners, retire_owners, pending_retire, orphaned_slots, pool, runs,
                     running, pc, world>>

-----------------------------------------------------------------------------
(***************************************************************************)
(* Reservation of a popped run (the inner loop of the two dispatchers).    *)
(***************************************************************************)
bulk_lane_in_flight_limit ==
  LET reserve == IF world.in_flight_limit > 1 THEN 1 ELSE 0
  IN  IF world.in_flight_limit - reserve > 1 THEN world.in_flight_limit - reserve ELSE 1

\* Mutant: the priority reserve of the owner is handed to the other lanes.
can_reserve_any(os, lane) == os.in_flight <= world.in_flight_limit

can_reserve_class(os, lane) ==
  /\ os.in_flight < world.in_flight_limit
  /\ lane = "Background" => os.background = 0
  /\ lane # "Priority" => os.bulk < bulk_lane_in_flight_limit

ReserveOne(os, lane) ==
  [os EXCEPT !.next_order = @ + 1, !.in_flight = @ + 1,
             !.bulk = @ + (IF lane = "Priority" THEN 0 ELSE 1),
             !.background = @ + (IF lane = "Background" THEN 1 ELSE 0)]

NoRun == [items |-> <<>>]

Slot(o, os, d, lane, p) ==
  [owner |-> o, reg |-> os.reg, dir |-> d, lane |-> lane, generation |-> os.generation,
   first |-> os.next_order, items |-> <<p.seq>>, counted |-> p.outcome = "ok"]

\* CryptoOwnerRun::matches, and the capacity test of try_push_open/seal.
extends_run(run, o, os, d, lane, p) ==
  /\ run # NoRun
  /\ p.outcome = "ok"
  /\ Len(run.items) < JobPackets
  /\ run.owner = o /\ run.dir = d /\ run.lane = lane
  /\ run.generation = os.generation
  /\ run.first + Len(run.items) = os.next_order

Finish(run) == IF run = NoRun THEN <<>> ELSE <<run>>

\* One packet of the run: a holds the owner, the open run, the runs and slots
\* produced, the packets left when the owner blocked, and what was dropped.
DispatchPacket(a, p, o, d, lane) ==
  IF a.left # <<>> \/ ~can_reserve_class(a.os, lane)
  THEN [a EXCEPT !.left = Append(@, p)]
  ELSE IF p.outcome = "refused"
  THEN [a EXCEPT !.dropped = @ \cup {p.seq}]
  ELSE LET b == [a EXCEPT !.os = ReserveOne(@, lane), !.dispatched = @ + 1]
           slot == Slot(o, a.os, d, lane, p)
       IN  IF extends_run(a.run, o, a.os, d, lane, p)
           THEN [b EXCEPT !.run.items = Append(@, p.seq)]
           ELSE IF p.outcome = "ok"
           THEN [b EXCEPT !.prepared = @ \o Finish(a.run), !.run = slot]
           ELSE [b EXCEPT !.prepared = @ \o Finish(a.run), !.run = NoRun,
                          !.ready_slots = Append(@, slot)]

\* What becomes of the packets of a popped run: dropped if the owner is unknown,
\* otherwise reserved one by one until the owner cannot take more.
Reserved(os, popped, d, lane, run) ==
  LET start == [os |-> os, run |-> run, prepared |-> <<>>, ready_slots |-> <<>>,
                left |-> <<>>, dropped |-> {}, dispatched |-> 0]
  IN  IF os = Gone
      THEN [start EXCEPT !.dropped = {p.seq : p \in Range(popped.items)}]
      ELSE FoldLeft(LAMBDA acc, p : DispatchPacket(acc, p, popped.owner, d, lane),
                    start, popped.items)

\* The owner keeps its turn, or its remaining packets are deferred.
Requeued(popped, lane, left) ==
  IF left = <<>>
  THEN continue_owner_lane(popped.qs, lane, popped.owner, popped.owner_has_more)
  ELSE defer_owner_run(popped.qs, lane, popped.owner, left)

Apply(t, d, s, lane, popped, a) ==
  [t |-> [t EXCEPT !.adm[d][s] = Requeued(popped, lane, a.left),
                   !.owners[popped.owner] = a.os,
                   !.prepared = @ \o a.prepared,
                   !.ready_slots = @ \o a.ready_slots,
                   !.finished = @ \cup a.dropped],
   run |-> a.run, dispatched |-> a.dispatched]

DispatchPopped(t, d, s, lane, run, popped) ==
  Apply(t, d, s, lane, popped, Reserved(t.owners[popped.owner], popped, d, lane, run))

\* One run of one owner.
DispatchRun(t, d, s, lane, limit, run) ==
  DispatchPopped(t, d, s, lane, run, pop_next_run_into(t.adm[d][s], lane, limit))

\* dispatch_ingress_prepared_into and dispatch_outbound_prepared_into: serve the
\* shard's ready owners in turn; the outbound side gives each of several ready
\* owners a quantum.  attempts_remaining only ends a pass early when no owner is
\* ready, which ends the loop by itself: a blocked owner is no longer ready.
RECURSIVE DispatchShard(_, _, _, _, _)
DispatchShard(r, d, s, lane, limit) ==
  LET rest == limit - r.dispatched
      crowded == d = "out" /\ Len(r.t.adm[d][s].ready[lane].queue) > 1
      Sum(next) == [next EXCEPT !.dispatched = @ + r.dispatched]
  IN  IF rest = 0 \/ ~CanPop(r.t.adm[d][s], lane)
      THEN [r EXCEPT !.t.prepared = @ \o Finish(r.run)]
      ELSE DispatchShard(Sum(DispatchRun(r.t, d, s, lane,
                               IF crowded THEN Least(rest, OwnerQuantum) ELSE rest, r.run)),
                         d, s, lane, limit)

\* The engine's lane lengths lose what left the shard's queues, and the shard is
\* queued again where it has ready owners.
Settled(t, u, d, s) ==
  MarkShard([u EXCEPT !.lens[d] = [l \in Lanes |->
                 Minus(@[l], t.adm[d][s].len[l] - u.adm[d][s].len[l])]], d, s)

\* The shard at the head of the ready queue is served.
DispatchHead(t, d, lane, limit) ==
  LET s == Head(t.shards_ready[d][lane].queue)
      start == [t |-> [t EXCEPT !.shards_ready[d][lane] = SQ!pop(@, 1)],
                run |-> NoRun, dispatched |-> 0]
      Served(r) == [t |-> Settled(t, r.t, d, s), dispatched |-> r.dispatched]
  IN  Served(DispatchShard(start, d, s, lane, limit))

\* One pass over the shards that were ready in the lane when it began.
RECURSIVE DispatchPass(_, _, _, _, _, _)
DispatchPass(r, d, lane, scan, shard_limit, limit) ==
  LET Sum(next) == [next EXCEPT !.dispatched = @ + r.dispatched]
  IN  IF scan = 0 \/ r.dispatched >= limit THEN r
      ELSE DispatchPass(Sum(DispatchHead(r.t, d, lane, Least(shard_limit, limit - r.dispatched))),
                        d, lane, scan - 1, shard_limit, limit)

\* dispatch_prepared_ingress_shards_into, dispatch_outbound_prepared_shards_into:
\* passes until the limit is reached or a pass dispatches nothing.
RECURSIVE DispatchShards(_, _, _, _)
DispatchShards(r, d, lane, limit) ==
  LET scan == Len(r.t.shards_ready[d][lane].queue)
      rest == Minus(limit, r.dispatched)
      shard_limit == IF d = "in" /\ lane # "Priority" THEN rest ELSE CeilDiv(rest, scan)
      Again(next) == IF next.dispatched = r.dispatched THEN next
                     ELSE DispatchShards(next, d, lane, limit)
  IN  IF rest = 0 \/ scan = 0 THEN r
      ELSE Again(DispatchPass(r, d, lane, scan, shard_limit, limit))

-----------------------------------------------------------------------------
(***************************************************************************)
(* The worker pool's capacity, and the order in which a turn spends it.    *)
(***************************************************************************)
priority_reserve == Least(Minus(world.max_in_flight, world.fairness_packets), world.fairness_packets)
bulk_limit == world.max_in_flight - priority_reserve
background_limit == Least(CeilDiv(bulk_limit, 2), 4)

available_capacity == Minus(world.max_in_flight, pool.in_flight)

available_capacity_for_lane(lane) ==
  LET bulk == Least(Minus(bulk_limit, pool.bulk), available_capacity)
  IN  CASE lane = "Priority"   -> available_capacity
        [] lane = "Bulk"       -> bulk
        [] lane = "Background" -> Least(bulk, Minus(background_limit, pool.background))

outbound_priority_dispatch_limit(limit, pending) ==
  IF ~pending \/ limit = 0 THEN 0
  ELSE Least(Least(limit, IF limit \div 32 > 1 THEN limit \div 32 ELSE 1), 8)

inbound_before_outbound_priority_limit(limit, reserve) ==
  IF reserve = 0 THEN 0 ELSE Least(Minus(limit, reserve), 1)

\* Mutant: bulk dispatch is not charged to the capacity later passes may use.
Charge_total_only(b, lane, r) ==
  [b EXCEPT !.t = r.t, !.total = @ - r.dispatched]

\* What a pass that ended with r leaves of the turn's budget b.
Charge(b, lane, r) ==
  [t |-> r.t, total |-> b.total - r.dispatched,
   bulk |-> IF lane = "Priority" THEN b.bulk ELSE Minus(b.bulk, r.dispatched),
   background |-> IF lane = "Background" THEN b.background - r.dispatched ELSE b.background]

Allowance(b, lane) ==
  CASE lane = "Priority"   -> b.total
    [] lane = "Bulk"       -> Least(b.total, b.bulk)
    [] lane = "Background" -> Least(b.total, Least(b.bulk, b.background))

DispatchWithin(b, pass) ==
  Charge(b, pass.lane,
         DispatchShards([t |-> b.t, dispatched |-> 0], pass.dir, pass.lane,
                        Least(pass.limit, Allowance(b, pass.lane))))

\* The passes of a turn.  When outbound priority traffic waits it gets a share of
\* its own, after one inbound packet.
Passes(total, in_priority, reserve) ==
  << [dir |-> "in", lane |-> IF in_priority THEN "Priority" ELSE "Bulk",
      limit |-> inbound_before_outbound_priority_limit(total, reserve)],
     [dir |-> "out", lane |-> "Priority",   limit |-> reserve],
     [dir |-> "in",  lane |-> "Priority",   limit |-> IF in_priority THEN total ELSE 0],
     [dir |-> "out", lane |-> "Priority",   limit |-> total],
     [dir |-> "in",  lane |-> "Bulk",       limit |-> total],
     [dir |-> "out", lane |-> "Bulk",       limit |-> total],
     [dir |-> "in",  lane |-> "Background", limit |-> total],
     [dir |-> "out", lane |-> "Background", limit |-> total] >>

prepare_aead_available_into(t) ==
  LET total == Least(world.turn_limit, available_capacity)
      budget == [t |-> t, total |-> total, bulk |-> available_capacity_for_lane("Bulk"),
                 background |-> available_capacity_for_lane("Background")]
      reserve == outbound_priority_dispatch_limit(total, t.lens["out"]["Priority"] > 0)
      done == FoldLeft(DispatchWithin, budget,
                       Passes(total, t.lens["in"]["Priority"] > 0, reserve))
  IN  done.t

-----------------------------------------------------------------------------
(***************************************************************************)
(* Staging and submission: every slot enters its owner's retire queue in   *)
(* order, the completed ones first, then each run as a worker gets it.     *)
(***************************************************************************)
StagedIn(pending, slot) ==
  LET before == SelectSeq(pending, LAMBDA held : order(held) < slot.first)
      after  == SelectSeq(pending, LAMBDA held : order(held) >= slot.first)
  IN  before \o <<Held(slot)>> \o after

\* Mutant: slots are kept in the order in which they are staged.
stage_at_back(t, slot) ==
  LET o == slot.owner
      s == world.shard_of[o]
      u == [t EXCEPT !.owners[o].pending = Append(@, Held(slot)),
                     !.retire_owners[s] =
                        IF t.owners[o].pending = <<>> THEN Append(@, o) ELSE @]
  IN  IF t.owners[o] = Gone
      THEN mark_pending_retire([t EXCEPT !.orphaned_slots = Append(@, Held(slot))], Orphans)
      ELSE mark_pending_retire(u, s)

stage_retire_slot(t, slot) ==
  LET o == slot.owner
      s == world.shard_of[o]
      u == [t EXCEPT !.owners[o].pending = StagedIn(@, slot),
                     !.retire_owners[s] =
                        IF t.owners[o].pending = <<>> THEN Append(@, o) ELSE @]
  IN  IF t.owners[o] = Gone
      THEN mark_pending_retire([t EXCEPT !.orphaned_slots = Append(@, Held(slot))], Orphans)
      ELSE mark_pending_retire(u, s)

submit_owner_run(t, run) ==
  LET u == [t EXCEPT !.pool = AddCounters(@, run), !.runs.lanes[run.lane] = Append(@, run)]
  IN  stage_retire_slot(u, run)

\* The slots completed without a worker are staged first.
StageAndSubmit(t) ==
  FoldLeft(submit_owner_run, FoldLeft(stage_retire_slot, t, t.ready_slots), t.prepared)

\* run_aead_available_into up to its retirement.
RunAeadAvailable ==
  /\ pc = "collected"
  /\ pc' = "submitted"
  /\ Becomes(StageAndSubmit(prepare_aead_available_into(Turn)))
  /\ UNCHANGED <<running, admitted, world>>

-----------------------------------------------------------------------------
(***************************************************************************)
(* Retirement.                                                             *)
(***************************************************************************)
\* OwnerState::retire_ready_slots_into: from the head of the pending queue,
\* only in order and only what is ready.
RECURSIVE RetireOwner(_, _, _, _)
RetireOwner(t, o, limit, count) ==
  LET os == t.owners[o]
      held == os.pending[1]
      n == Least(limit - count, remaining(held))
      rest == IF n = remaining(held) THEN Tail(os.pending)
              ELSE <<[held EXCEPT !.drained = @ + n]>> \o Tail(os.pending)
      lane == held.slot.lane
      os2 == [os EXCEPT !.pending = rest, !.next_retire = @ + n, !.in_flight = Minus(@, n),
                        !.bulk = IF lane = "Priority" THEN @ ELSE Minus(@, n),
                        !.background = IF lane = "Background" THEN Minus(@, n) ELSE @]
      u == [t EXCEPT !.owners[o] = os2, !.pool = RetireCounters(@, held.slot, n),
                     !.finished = @ \cup Drained(held, n)]
  IN  IF count >= limit \/ os.pending = <<>> THEN [t |-> t, count |-> count]
      ELSE IF order(held) # os.next_retire \/ ~is_ready(held.slot)
      THEN [t |-> t, count |-> count]
      ELSE RetireOwner(u, o, limit, count + n)

\* Mutant: the owner's admission queues are not woken when in-flight work ends.
wake_nobody(t, o) == t

\* The wake-up of a retired owner, in both directions.
WakeOwner(t, o) ==
  [t EXCEPT !.adm = [d \in Dirs |-> [@[d] EXCEPT ![world.shard_of[o]] = wake_owner(@, o)]]]

\* After owner o of shard s, taken from the retire queue, has retired what it
\* could: it is woken if that freed budget, and queued again if slots are left.
Retired(t, s, o, r) ==
  LET Queue(u) == IF u.owners[o].pending = <<>> THEN u
                  ELSE [u EXCEPT !.retire_owners[s] = Append(@, o)]
  IN  [t |-> Queue(IF r.t.owners[o].in_flight < t.owners[o].in_flight
                   THEN WakeOwner(r.t, o) ELSE r.t),
       count |-> r.count]

RetireHead(t, s, share) ==
  LET o == Head(t.retire_owners[s])
      u == [t EXCEPT !.retire_owners[s] = Tail(@)]
  IN  IF t.owners[o] = Gone THEN [t |-> u, count |-> 0]
      ELSE Retired(t, s, o, RetireOwner(u, o, share, 0))

\* DataplaneOwnerShard::retire_ready_slots_into.
RECURSIVE RetireShard(_, _, _, _)
RetireShard(r, s, scan, limit) ==
  LET Sum(next) == [next EXCEPT !.count = @ + r.count]
  IN  IF scan = 0 \/ r.count >= limit \/ r.t.retire_owners[s] = <<>> THEN r
      ELSE RetireShard(Sum(RetireHead(r.t, s, CeilDiv(limit - r.count, scan))),
                       s, scan - 1, limit)

RECURSIVE RetireOrphans(_, _, _, _)
RetireOrphans(t, scan, limit, count) ==
  IF scan = 0 \/ count >= limit THEN [t |-> t, count |-> count]
  ELSE LET held == Head(t.orphaned_slots)
           n == Least(limit - count, remaining(held))
           later == IF n = remaining(held) THEN <<>> ELSE <<[held EXCEPT !.drained = @ + n]>>
       IN  IF ~is_ready(held.slot)
           THEN RetireOrphans([t EXCEPT !.orphaned_slots = Append(Tail(@), held)],
                              scan - 1, limit, count)
           ELSE RetireOrphans([t EXCEPT !.orphaned_slots = Tail(@) \o later,
                                        !.pool = RetireCounters(@, held.slot, n),
                                        !.finished = @ \cup Drained(held, n)],
                              scan - 1, limit, count + n)

\* One source, a shard or the orphans, retires its share; a shard is marked ready
\* for admission again, and a source with slots left stays pending.
RetireSource(t, source, share) ==
  IF source = Orphans
  THEN LET More(r) == IF r.t.orphaned_slots = <<>> THEN r
                      ELSE [r EXCEPT !.t = mark_pending_retire(@, Orphans)]
       IN  More(RetireOrphans(t, Len(t.orphaned_slots), share, 0))
  ELSE LET Mark(r) == [r EXCEPT !.t = mark_admission_ready_shard(@, source)]
           More(r) == IF r.t.retire_owners[source] = <<>> THEN r
                      ELSE [r EXCEPT !.t = mark_pending_retire(@, source)]
       IN  More(Mark(RetireShard([t |-> t, count |-> 0], source,
                                 Len(t.retire_owners[source]), share)))

RECURSIVE RetireSources(_, _, _)
RetireSources(r, scan, limit) ==
  LET u == [r.t EXCEPT !.pending_retire = SQ!pop(@, 1)]
      Sum(next) == [next EXCEPT !.count = @ + r.count]
  IN  IF scan = 0 \/ r.count >= limit THEN r
      ELSE RetireSources(Sum(RetireSource(u, Head(r.t.pending_retire.queue),
                                          CeilDiv(limit - r.count, scan))),
                         scan - 1, limit)

retire_ready_slots_into(t) ==
  LET done == RetireSources([t |-> t, count |-> 0], Len(t.pending_retire.queue), world.turn_limit)
  IN  done.t

\* has_runnable_work: what makes the receive loop take another turn.
has_runnable_work ==
  \/ \E d \in Dirs, l \in Lanes : shards_ready[d][l].queue # <<>>
  \/ \E s \in Shards : \E o \in Range(retire_owners[s]) :
       /\ Registered(o) /\ owners[o].pending # <<>>
       /\ order(owners[o].pending[1]) = owners[o].next_retire
       /\ is_ready(owners[o].pending[1].slot)
  \/ \E i \in 1 .. Len(orphaned_slots) : is_ready(orphaned_slots[i].slot)

\* start_aead_completion_turn.
CompletionTurn ==
  /\ pc = "idle"
  /\ has_runnable_work
  /\ pc' = "collected"
  /\ Becomes(retire_ready_slots_into(Turn))
  /\ UNCHANGED <<running, admitted, world>>

\* The retirement at the end of run_aead_available_into.
RetireAfterSubmit ==
  /\ pc = "submitted"
  /\ pc' = "idle"
  /\ Becomes(retire_ready_slots_into(Turn))
  /\ UNCHANGED <<running, admitted, world>>

-----------------------------------------------------------------------------
(***************************************************************************)
(* The shared worker queue.                                                *)
(***************************************************************************)
\* Which lane the next run comes from, and the priority streak afterwards.
PopLane ==
  LET p == runs.lanes["Priority"]
      b == runs.lanes["Bulk"]
  IN  IF b = <<>>
      THEN [lane |-> IF p # <<>> THEN "Priority" ELSE "Background", streak |-> 0]
      ELSE IF p = <<>> \/ runs.streak >= world.fairness_packets
      THEN [lane |-> "Bulk", streak |-> 0]
      ELSE [lane |-> "Priority", streak |-> runs.streak + Len(p[1].items)]

\* Mutant: the queued free run an owner's paid run must wait for is not looked up.
NoDependencies(run) == {}

\* Positions in the background lane of the runs that run depends on.
Dependencies(run) ==
  {i \in 1 .. Len(runs.lanes["Background"]) :
     LET earlier == runs.lanes["Background"][i]
     IN  /\ run.lane # "Background"
         /\ earlier.owner = run.owner
         /\ earlier.generation = run.generation
         /\ earlier.first < run.first}

WorkerPop ==
  /\ Cardinality(running) < world.workers
  /\ \E l \in Lanes : runs.lanes[l] # <<>>
  /\ LET chosen == PopLane
         run == runs.lanes[chosen.lane][1]
         D == Dependencies(run)
     IN  IF D = {}
         THEN /\ running' = running \cup {run}
              /\ runs' = [lanes |-> [runs.lanes EXCEPT ![chosen.lane] = Tail(@)],
                          streak |-> chosen.streak]
         ELSE /\ running' = running \cup {runs.lanes["Background"][Min(D)]}
              /\ runs' = [lanes |-> [runs.lanes EXCEPT !["Background"] = RemoveAt(@, Min(D))],
                          streak |-> chosen.streak]
  /\ UNCHANGED <<adm, lens, shards_ready, owners, retire_owners, pending_retire,
                 orphaned_slots, pool, pc, admitted, world, finished>>

\* complete_crypto_owner_run: the results are published and the loop notified.
WorkerComplete(run) ==
  /\ running' = running \ {run}
  /\ UNCHANGED <<adm, lens, shards_ready, owners, retire_owners, pending_retire,
                 orphaned_slots, pool, runs, pc, admitted, world, finished>>

-----------------------------------------------------------------------------
Init ==
  /\ world \in Worlds
  /\ adm = [d \in Dirs |-> [s \in Shards |-> EmptyQueues]]
  /\ lens = [d \in Dirs |-> [l \in Lanes |-> 0]]
  /\ shards_ready = [d \in Dirs |-> [l \in Lanes |-> SQ!EmptyReady]]
  /\ owners = [o \in Owners |-> Gone]
  /\ retire_owners = [s \in Shards |-> <<>>]
  /\ pending_retire = SQ!EmptyReady
  /\ orphaned_slots = <<>>
  /\ pool = [in_flight |-> 0, bulk |-> 0, background |-> 0]
  /\ runs = [lanes |-> [l \in Lanes |-> <<>>], streak |-> 0]
  /\ running = {}
  /\ pc = "idle"
  /\ admitted = 0
  /\ finished = {}

Next ==
  \/ \E o \in Owners : register_owner(o) \/ unregister_owner(o) \/ install_generation(o)
  \/ \E kind \in world.traffic, n \in 1 .. world.batch : Submit(kind, n)
  \/ CompletionTurn \/ RunAeadAvailable \/ RetireAfterSubmit
  \/ WorkerPop
  \/ \E run \in running : WorkerComplete(run)

\* The turn loop and the workers are scheduled, arrivals and control are not: a
\* turn ends, the next one begins while there is runnable work, what is queued for
\* the workers is taken up and what they run completes.
Fairness ==
  /\ []<>(pc = "idle") /\ ([]<>~has_runnable_work \/ []<>(pc # "idle"))
  /\ []<>(running = {}) /\ ([]<>(\A l \in Lanes : runs.lanes[l] = <<>>) \/ []<>(running # {}))

Spec == Init /\ [][Next]_vars /\ Fairness

-----------------------------------------------------------------------------
(***************************************************************************)
(* Properties.                                                             *)
(***************************************************************************)
AllHeld ==
  UNION {Range(owners[o].pending) : o \in {x \in Owners : Registered(x)}} \cup Range(orphaned_slots)

HeldOf(o) == IF Registered(o) THEN Range(owners[o].pending) ELSE {}

Count(S, Pred(_)) == MapThenSumSet(remaining, {h \in S : Pred(h)})

QueuedPackets(d, s, o, l) == adm[d][s].queue[o][l]

\* No lost wake-up: a packet waiting in a lane belongs to an owner that is ready
\* in that lane, or to a registered owner with work in flight whose retirement
\* will wake it.  defer_owner_run leaves a blocked owner unready, so this rests
\* on every place that frees the owner's budget waking it again.
NoLostWakeup ==
  \A d \in Dirs, o \in Owners, l \in Lanes :
    LET qs == adm[d][world.shard_of[o]]
    IN  qs.queue[o][l] # <<>> =>
          \/ RQ!IsReady(qs.ready[l], o)
          \/ Registered(o) /\ owners[o].pending # <<>>

\* The levels above agree: a shard with ready owners is queued for the next
\* pass, an owner with unretired slots is queued in its shard, its shard in the
\* engine, and orphans keep the orphan source queued.  has_runnable_work asks
\* only the top level.
ReadyReachesTheTop ==
  /\ \A d \in Dirs, s \in Shards, l \in Lanes :
       adm[d][s].ready[l].queue # <<>> => SQ!IsReady(shards_ready[d][l], s)
  /\ \A o \in Owners : Registered(o) =>
       (owners[o].pending # <<>> <=> o \in Range(retire_owners[world.shard_of[o]]))
  /\ \A s \in Shards : retire_owners[s] # <<>> => SQ!IsReady(pending_retire, s)
  /\ orphaned_slots # <<>> => SQ!IsReady(pending_retire, Orphans)

\* Every cached counter is exact: the engine's and the queues' lengths, the
\* owners' in-flight counts and the pool's.  A count that leaks, for instance
\* when an owner is unregistered with work in flight, costs capacity for good.
CountersExact ==
  /\ \A d \in Dirs, l \in Lanes :
       lens[d][l] = MapThenSumSet(LAMBDA s : adm[d][s].len[l], Shards)
  /\ \A d \in Dirs, s \in Shards, l \in Lanes :
       adm[d][s].len[l] = MapThenSumSet(LAMBDA o : Len(QueuedPackets(d, s, o, l)), Owners)
  /\ \A o \in {x \in Owners : Registered(x)} :
       /\ owners[o].in_flight = Count(HeldOf(o), LAMBDA h : TRUE)
       /\ owners[o].bulk = Count(HeldOf(o), LAMBDA h : h.slot.lane # "Priority")
       /\ owners[o].background = Count(HeldOf(o), LAMBDA h : h.slot.lane = "Background")
  /\ pool.in_flight = Count(AllHeld, LAMBDA h : h.slot.counted)
  /\ pool.bulk = Count(AllHeld, LAMBDA h : h.slot.counted /\ h.slot.lane # "Priority")
  /\ pool.background = Count(AllHeld, LAMBDA h : h.slot.counted /\ h.slot.lane = "Background")

\* The packets of an owner, direction and lane that are in flight or queued, in
\* the order in which they will come out.
Pipeline(d, o, l) ==
  LET inflight == FlattenSeq([i \in 1 .. Len(owners[o].pending) |->
        LET h == owners[o].pending[i]
        IN  IF h.slot.dir = d /\ h.slot.lane = l
            THEN SubSeq(h.slot.items, h.drained + 1, Len(h.slot.items)) ELSE <<>>])
      queued == [i \in 1 .. Len(QueuedPackets(d, world.shard_of[o], o, l)) |->
                   QueuedPackets(d, world.shard_of[o], o, l)[i].seq]
  IN  (IF Registered(o) THEN inflight ELSE <<>>) \o queued

\* Packets of one owner, direction and lane leave in the order in which they
\* were admitted, whatever the workers' order of completion, the deferrals of
\* blocked runs and the splitting of runs do in between.
OrderPreserved ==
  \A d \in Dirs, o \in Owners, l \in Lanes :
    LET p == Pipeline(d, o, l) IN \A i, j \in 1 .. Len(p) : i < j => p[i] < p[j]

\* No packet vanishes or is in two places: what was admitted is queued, in
\* flight, orphaned or finished.
NothingLost ==
  LET queued == UNION {{QueuedPackets(d, world.shard_of[o], o, l)[i].seq :
                          i \in 1 .. Len(QueuedPackets(d, world.shard_of[o], o, l))} :
                       <<d, o, l>> \in Dirs \X Owners \X Lanes}
      held == UNION {Drained(h, remaining(h)) : h \in AllHeld}
  IN  /\ queued \cup held \cup finished = 1 .. admitted
      /\ queued \cap held = {} /\ finished \cap (queued \cup held) = {}

\* The pool keeps its priority reserve and its bound on free packets although
\* one turn's dispatches are all planned from capacities read at its start; an
\* owner keeps one place for priority traffic and at most one free packet in
\* flight, whichever of its two directions dispatches first.
ReservesKept ==
  /\ pool.in_flight <= world.max_in_flight
  /\ pool.bulk <= bulk_limit
  /\ pool.background <= background_limit
  /\ \A o \in {x \in Owners : Registered(x)} :
       /\ owners[o].in_flight <= world.in_flight_limit
       /\ owners[o].bulk <= bulk_lane_in_flight_limit
       /\ owners[o].background <= 1

\* Runs a worker has just taken out of the queue.
Taken == running' \ running

\* A worker never starts a paid run while a free run of the same owner and
\* session generation, which must retire first, is still queued.
DependencyFirst ==
  [][\A run \in Taken : \A i \in 1 .. Len(runs'.lanes["Background"]) :
       LET earlier == runs'.lanes["Background"][i]
       IN  ~ /\ run.lane # "Background"
             /\ earlier.owner = run.owner /\ earlier.reg = run.reg
             /\ earlier.generation = run.generation
             /\ earlier.first < run.first]_vars

\* Every packet that is admitted is eventually retired or dropped: no packet is
\* stranded in a lane or in flight once the loop stops finding runnable work.
EveryPacketFinishes ==
  []<>(finished = 1 .. admitted)

\* Wake-ups reach the top: a queued packet keeps its owner, a ready owner its shard and a
\* shard with finished work its turn (wake_owner, stage_retire_slot).
ReadyIsReached == NoLostWakeup /\ ReadyReachesTheTop

\* Every count agrees with what it counts, no packet vanishes or is in two places, and
\* the reserves for priority traffic and for other owners are kept (can_reserve_class).
BacklogAccounted == CountersExact /\ NothingLost /\ ReservesKept

\* The packets of an owner and lane leave in the order in which they came, and no
\* background run is overtaken by a later run of its owner (defer_owner_run).
OrderKept == []OrderPreserved /\ DependencyFirst
=============================================================================
