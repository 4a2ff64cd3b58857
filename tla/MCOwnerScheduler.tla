-------------------------- MODULE MCOwnerScheduler --------------------------
(***************************************************************************)
(* Instances of OwnerScheduler for model checking.                         *)
(***************************************************************************)
EXTENDS OwnerScheduler

CONSTANTS f1, s1, sh1, sh2

Kind(o, d, l, out) == [owner |-> o, dir |-> d, lane |-> l, outcome |-> out]

OneShard == [o \in Owners |-> sh1]
TwoShards == [o \in Owners |-> IF o = f1 THEN sh1 ELSE sh2]

SmallLanes == [l \in Lanes |-> IF l = "Background" THEN 1 ELSE 2]
WideLanes == [l \in Lanes |-> 3]

\* All lanes of a link owner in both directions, beside a local bulk owner, on
\* one shard and two workers.
Mixed ==
  [shard_of |-> OneShard, lane_capacity |-> SmallLanes, in_flight_limit |-> 2,
   max_in_flight |-> 4, fairness_packets |-> 1, turn_limit |-> 2, workers |-> 2,
   traffic |-> {Kind(f1, "in", l, "ok") : l \in Lanes}
                 \cup {Kind(f1, "out", "Bulk", "ok"), Kind(s1, "in", "Bulk", "ok")},
   batch |-> 2, registrations |-> [o \in Owners |-> 1], generations |-> 1]

\* The two owners on two shards, with a pool that is soon full.
TwoShard ==
  [Mixed EXCEPT
     !.shard_of = TwoShards, !.max_in_flight = 2, !.workers = 1,
     !.traffic = {Kind(f1, "in", "Bulk", "ok"), Kind(f1, "out", "Bulk", "ok"),
                  Kind(f1, "in", "Priority", "ok"), Kind(s1, "in", "Bulk", "ok")}]

\* One owner whose packets may be refused or find no key, and which is replaced
\* and rekeyed while they are in flight.
Churn ==
  [Mixed EXCEPT
     !.lane_capacity = WideLanes, !.in_flight_limit = 3, !.max_in_flight = 3,
     !.fairness_packets = 2, !.workers = 1,
     !.traffic = {Kind(f1, "in", "Bulk", out) : out \in {"ok", "keyless", "refused"}}
                   \cup {Kind(f1, "in", "Background", "ok")},
     !.registrations = [o \in Owners |-> IF o = f1 THEN 2 ELSE 0], !.generations = 2]

\* Priority, bulk and free traffic of one owner beside outgoing priority traffic, a
\* packet a turn.
OneOwner ==
  [Churn EXCEPT
     !.traffic = {Kind(f1, "in", l, "ok") : l \in Lanes}
                   \cup {Kind(f1, "out", "Priority", "ok")},
     !.in_flight_limit = 2,
     !.max_in_flight = 4, !.fairness_packets = 1, !.turn_limit = 1, !.generations = 1,
     !.registrations = [o \in Owners |-> IF o = f1 THEN 1 ELSE 0]]

AllWorlds == {Mixed, TwoShard, Churn, OneOwner}
=============================================================================
