---------------------- MODULE DataplaneOwner_invariant ----------------------
(***************************************************************************)
(* What holds of a dataplane owner in every world: the inductive invariant, *)
(* and how packets in flight, their keys and their reservations fare while  *)
(* the epochs of the owner change under them.  A node changes them in three *)
(* ways: they stay, but for a drain that may end; the pending one is        *)
(* replaced; or another session becomes current.                            *)
(***************************************************************************)
EXTENDS DataplaneOwner, OwnerEpochs_proofs

\* The provers for a step that names none, in the order in which they are tried.
USE SMTT(10), Zenon, SMTT(30)

\* The fields of the node's session entry and of the world.
NodeFields == {"session", "pending", "generation", "k", "draining"}
WorldFields == {"protocol", "in_flight_limit", "counters", "sends", "sessions"}

-----------------------------------------------------------------------------
(* The inductive invariant.                                                  *)

\* The node's sessions are among those completed so far; an FSP node completes no rekey
\* while it drains.
NodeOK(n, w) ==
    /\ DOMAIN w = WorldFields /\ DOMAIN n = NodeFields
    /\ w.protocol \in {"Fmp", "Fsp"} /\ w.sessions \in 0 .. MaxSession
    /\ w.counters \in Counters /\ w.sends \in 0 .. MaxSend
    /\ n.session \in 0 .. w.sessions /\ n.pending \in 0 .. w.sessions
    /\ n.generation \in Nat /\ n.k \in KBits /\ n.draining \in KBits \cup {NoBit}
    /\ n.session # 0 => n.generation # 0
    /\ n.pending # 0 => n.pending # n.session
    /\ w.protocol = "Fsp" /\ n.draining # NoBit => n.draining = 1 - n.k /\ n.pending = 0

\* A registered owner holds the node's session, and the pending one unless it was
\* registered after that was completed.
Follows(n, o) ==
    /\ n.session # 0
    /\ CurrentIs(o, n.generation, n.session, n.k, n.draining)
    /\ o.pending_open \in {0, n.pending}
    /\ o.pending_authority = o.pending_open
    /\ o.pending_seal = IF o.protocol = "Fsp" THEN o.pending_open ELSE 0
    /\ o.pending_k_bit = IF o.pending_open = 0 THEN NoBit ELSE 1 - n.k
    /\ o.pending_receive_epoch_instance \in Nat

\* It may hold one more session, which drains.
Drains(n, o, w) ==
    IF o.previous_open = 0 THEN o.draining_generation = NotDraining
    ELSE /\ n.draining # NoBit
         /\ o.previous_open \in 1 .. w.sessions
         /\ o.previous_open # n.session /\ o.previous_open # n.pending
         /\ o.draining_generation.generation \in 1 .. o.generation - 1

\* A registered owner follows the node; one that was removed is as new, with no work.
OwnerOK ==
    /\ DOMAIN owner = OwnerFields /\ owner.protocol = world.protocol
    /\ registered \in BOOLEAN
    /\ IF registered THEN Follows(node, owner) /\ Drains(node, owner, world)
       ELSE owner = NewOwner(world.protocol, 0, 0, NoBit) /\ slots = <<>>
    /\ \E S : slots \in Seq(S)

\* A counter of a session that is not drawn yet has sealed nothing.
CountersOK ==
    /\ send_counter \in [Sessions -> Nat]
    /\ sealed \in [Sessions -> [0 .. MaxSend -> Nat]]
    /\ \A s \in Sessions, n \in 0 .. MaxSend :
           sealed[s][n] <= 1 /\ (n >= send_counter[s] => sealed[s][n] = 0)

\* A send context of the node's generation names its session and K bit.
ContextOK(c, n, w) ==
    /\ c.generation \in 0 .. n.generation
    /\ c.epoch = "Current" \/ (c.epoch = "Pending" /\ w.protocol = "Fsp")
    /\ c.generation = n.generation =>
          /\ c.epoch = "Current" => c.receiver_idx = n.session /\ c.k = n.k
          /\ c.epoch = "Pending" => c.k = 1 - n.k

\* A sealed packet in flight names its key, by what the key is to the node now.
SealOK(x, n, o, w) ==
    /\ x.key \in 0 .. w.sessions
    /\ w.protocol = "Fmp" /\ x.key # 0 => x.receiver_idx = x.key
    /\ w.protocol = "Fsp" /\ x.key # 0 =>
          /\ x.key = n.session => x.k = n.k
          /\ x.key = n.pending => x.k = 1 - n.k
          /\ x.key = o.previous_open => x.k = n.draining

\* What a packet to be opened can go by: its epoch, and for a pending one the instance.
Identity(id, o) ==
    \/ id = <<"Current", 0>> \/ id = <<"Previous", 0>>
    \/ \E j \in 0 .. o.pending_receive_epoch_instance : id = <<"Pending", j>>

\* The epochs the owner has a key for.
Live(id, o) ==
    \/ id = <<"Current", 0>>
    \/ id = <<"Previous", 0>> /\ o.previous_open # 0
    \/ id = <<"Pending", o.pending_receive_epoch_instance>> /\ o.pending_open # 0

\* A packet to be opened was reserved under an epoch of its generation.
OpenOK(x, o, w) ==
    /\ x.session \in Sessions /\ x.counter \in Counters
    /\ x.key \in 1 .. w.sessions
    /\ x.generation \in 1 .. o.generation
    /\ Identity(x.receive_epoch, o)

\* It has the key of the epoch it goes by now; one of the owner's two generations that
\* goes by none has a key that is out of use.
KeyOK(x, n, o) ==
    IF Live(identity_now(o, x), o) THEN x.key = open_key(o, identity_now(o, x)[1])
    ELSE x.generation = o.generation \/ retains_draining_generation(o, x.generation) =>
            x.key # o.crypto_keys /\ x.key # o.previous_open /\ x.key # n.pending

\* A reservation is what a packet in flight goes by, or went by before it went stale.
Covered(id, c, o, S, L) ==
    \/ \E x \in S : x.open /\ identity_now(o, x) = id /\ x.counter = c
    \/ \E x \in S : /\ x.open /\ identity_now(o, x) = NoEpoch
                    /\ x.key = open_key(o, id[1]) /\ x.counter = c
    \/ <<open_key(o, id[1]), c>> \in L

\* What a packet in flight reserves.
Reserved(x, o) == <<identity_now(o, x), x.counter>>

\* A reservation of a live epoch has a packet that will release it; a packet in flight under
\* a live epoch has its reservation; and no two of them have the same.
ReservationsOK ==
    /\ \A r \in owner.pending_replay_counters :
           /\ r = <<r[1], r[2]>> /\ Identity(r[1], owner)
           /\ Live(r[1], owner) => Covered(r[1], r[2], owner, SlotsInFlight, lost)
    /\ \A x \in SlotsInFlight : x.open /\ Live(identity_now(owner, x), owner) =>
           Reserved(x, owner) \in owner.pending_replay_counters
    /\ \A i, j \in DOMAIN slots :
           /\ slots[i].open /\ slots[j].open /\ Live(identity_now(owner, slots[i]), owner)
           /\ Reserved(slots[i], owner) = Reserved(slots[j], owner)
           => i = j

\* Each window remembers what was handed up under its key; a session that the owner was
\* not given yet has handed up nothing.
DeliveriesOK ==
    /\ deliveries \in [Sessions -> [Counters -> Nat]]
    /\ AtMostOnce
    /\ ~ registered => deliveries = NoDeliveries
    /\ \A s \in Sessions : s > world.sessions => Delivered(s) = {}
    /\ node.pending # 0 /\ owner.pending_open = 0 => Delivered(node.pending) = {}
    /\ owner.replay_window \in WindowType /\ owner.previous_replay_window \in WindowType
    /\ owner.pending_replay_window \in WindowType
    /\ WindowFollowsKey

\* The inductive invariant.  The four properties alone are not inductive: which key a queued
\* packet has depends on what it goes by after the drains and cutovers since (KeyOK), and a
\* window is asked only for packets that go by its epoch now (ReservationsOK).
IInv ==
    /\ NodeOK(node, world) /\ OwnerOK /\ CountersOK
    /\ \A c \in contexts : ContextOK(c, node, world)
    /\ \A x \in SlotsInFlight :
           IF x.open THEN OpenOK(x, owner, world) /\ KeyOK(x, node, owner)
           ELSE SealOK(x, node, owner, world)
    /\ ReservationsOK /\ DeliveriesOK

-----------------------------------------------------------------------------
(* What a step does to the epochs of the owner.                              *)

\* The epochs stay, but for a drain that may be over.
Stays(n, m, o, q) ==
    /\ m.pending = n.pending
    /\ q.generation = o.generation /\ q.crypto_keys = o.crypto_keys
    /\ q.pending_open = o.pending_open
    /\ q.pending_receive_epoch_instance = o.pending_receive_epoch_instance
    /\ \/ q.previous_open = o.previous_open /\ q.draining_generation = o.draining_generation
       \/ q.previous_open = 0 /\ q.draining_generation = NotDraining

\* The pending epoch is given up, for a new session or for none.
Repends(m, o, q, w) ==
    /\ m.pending = 0 \/ m.pending > w.sessions
    /\ q.generation = o.generation /\ q.crypto_keys = o.crypto_keys
    /\ q.previous_open = o.previous_open /\ q.draining_generation = o.draining_generation
    /\ q.pending_open = m.pending
    /\ q.pending_receive_epoch_instance = o.pending_receive_epoch_instance + 1

\* Another session becomes current: the pending one or a new one.
Moves(n, m, o, q, w) ==
    /\ (m.session = n.pending /\ m.session # 0) \/ m.session > w.sessions
    /\ m.pending = 0 /\ q.pending_open = 0
    /\ q.generation = o.generation + 1 /\ q.crypto_keys = m.session
    /\ q.pending_receive_epoch_instance = o.pending_receive_epoch_instance
    /\ \/ q.previous_open = 0 /\ q.draining_generation = NotDraining
       \/ /\ q.previous_open = o.crypto_keys
          /\ q.draining_generation =
                [generation |-> o.generation,
                 promoted |-> IF m.session = o.pending_open THEN o.pending_receive_epoch_instance
                                                            ELSE NoInstance]

\* What holds of the two before.
Before(n, o, w) ==
    /\ NodeOK(n, w) /\ Follows(n, o) /\ Drains(n, o, w)

\* A packet in flight keeps its key through refreshes and the end of a drain (sync) ...
LEMMA KeyStays ==
    ASSUME NEW n, NEW m, NEW o, NEW q, NEW w, Before(n, o, w), Stays(n, m, o, q),
           NEW x, OpenOK(x, o, w), KeyOK(x, n, o)
    PROVE  KeyOK(x, m, q)
  BY DEF Before, NodeOK, Follows, CurrentIs, Drains, Stays, OpenOK, KeyOK, Live, identity_now,
         retains_draining_generation, remap_draining_receive_epoch, NoEpoch, NotDraining,
         open_key, Identity, NoSession, NoInstance

\* ... through a pending epoch that is installed or given up ...
LEMMA KeyRepends ==
    ASSUME NEW n, NEW m, NEW o, NEW q, NEW w, Before(n, o, w), Repends(m, o, q, w),
           NEW x, OpenOK(x, o, w), KeyOK(x, n, o)
    PROVE  KeyOK(x, m, q)
  BY DEF Before, NodeOK, Follows, CurrentIs, Drains, Repends, OpenOK, KeyOK, Live, identity_now,
         retains_draining_generation, remap_draining_receive_epoch, NoEpoch, NotDraining,
         open_key, Identity, NoSession, NoInstance

\* ... and through a change of session, by which it may go under another epoch.
LEMMA KeyMoves ==
    ASSUME NEW n, NEW m, NEW o, NEW q, NEW w, Before(n, o, w), Moves(n, m, o, q, w),
           NEW x, OpenOK(x, o, w), KeyOK(x, n, o)
    PROVE  KeyOK(x, m, q)
  BY SMTT(20), SMTT(30) DEF Before, NodeOK, Follows, CurrentIs, Drains, Moves, OpenOK, KeyOK, Live, identity_now,
         retains_draining_generation, remap_draining_receive_epoch, NoEpoch, NotDraining,
         open_key, Identity, NoSession, NoInstance

\* What a packet goes by after such a step.
LEMMA IdentityStays ==
    ASSUME NEW n, NEW m, NEW o, NEW q, NEW w, Before(n, o, w), Stays(n, m, o, q),
           NEW x, OpenOK(x, o, w), KeyOK(x, n, o)
    PROVE  LET a == identity_now(o, x)
               b == identity_now(q, x)
           IN  /\ Live(b, q) => b = a /\ Live(a, o)
               /\ Live(a, o) => b = a \/ (b = NoEpoch /\ x.key = open_key(o, a[1]))
               /\ a = NoEpoch => b = NoEpoch
  BY DEF Before, NodeOK, Follows, CurrentIs, Drains, Stays, OpenOK, KeyOK, Live, identity_now,
         retains_draining_generation, remap_draining_receive_epoch, NoEpoch, NotDraining,
         open_key, Identity, NoSession, NoInstance

\* An epoch that is live afterwards was live before, with the same key.
LEMMA EpochStays ==
    ASSUME NEW n, NEW m, NEW o, NEW q, Stays(n, m, o, q), NEW id, Live(id, q)
    PROVE  Live(id, o) /\ open_key(q, id[1]) = open_key(o, id[1])
  BY DEF Stays, Live, open_key

\* The same when the pending epoch is replaced: packets of the old one go by no live epoch.
LEMMA IdentityRepends ==
    ASSUME NEW m, NEW o, NEW q, NEW w, Repends(m, o, q, w),
           NEW x, OpenOK(x, o, w), o.pending_receive_epoch_instance \in Nat
    PROVE  LET a == identity_now(o, x)
               b == identity_now(q, x)
           IN  b = a /\ (Live(b, q) => Live(a, o) /\ a[1] # "Pending")
  BY DEF Repends, OpenOK, Live, identity_now,
         retains_draining_generation, remap_draining_receive_epoch, NoEpoch, NotDraining,
         Identity, NoSession, NoInstance

\* Of the epochs that are live afterwards the old ones are not pending.
LEMMA EpochRepends ==
    ASSUME NEW m, NEW o, NEW q, NEW w, Repends(m, o, q, w), NEW id, Live(id, q),
           Identity(id, o), o.pending_receive_epoch_instance \in Nat
    PROVE  Live(id, o) /\ id[1] # "Pending" /\ open_key(q, id[1]) = open_key(o, id[1])
  BY SMTT(20), SMTT(30) DEF Repends, Live, open_key, Identity

\* The same for another session: a packet goes by the epoch its own was remapped to
\* (remap_draining_receive_epoch), or by none.
LEMMA IdentityMoves ==
    ASSUME NEW n, NEW m, NEW o, NEW q, NEW w, Before(n, o, w), Moves(n, m, o, q, w),
           NEW x, OpenOK(x, o, w), KeyOK(x, n, o)
    PROVE  LET a == identity_now(o, x)
               b == identity_now(q, x)
               d == q.draining_generation
           IN  /\ Live(b, q) => /\ b = remap_draining_receive_epoch(d, a) /\ Live(a, o)
                                /\ q.previous_open # 0
               /\ Live(a, o) /\ q.previous_open # 0 =>
                     \/ b = remap_draining_receive_epoch(d, a)
                     \/ b = NoEpoch /\ x.key = open_key(o, a[1])
               /\ a = NoEpoch => b = NoEpoch
  BY DEF Before, NodeOK, Follows, CurrentIs, Drains, Moves, OpenOK, KeyOK, Live, identity_now,
         retains_draining_generation, remap_draining_receive_epoch, NoEpoch, NotDraining,
         open_key, Identity, NoSession, NoInstance

\* A remapped epoch was live, and has its key from before.
LEMMA EpochMoves ==
    ASSUME NEW n, NEW m, NEW o, NEW q, NEW w, Before(n, o, w), Moves(n, m, o, q, w),
           q.previous_open # 0, NEW id, Identity(id, o),
           remap_draining_receive_epoch(q.draining_generation, id) # NoEpoch
    PROVE  LET c == remap_draining_receive_epoch(q.draining_generation, id)
           IN  Live(id, o) /\ Identity(c, q) /\ open_key(q, c[1]) = open_key(o, id[1])
  BY DEF Before, NodeOK, Follows, Moves, CurrentIs, Live, remap_draining_receive_epoch, NoEpoch,
         open_key, Identity, NoSession, NoInstance, NotDraining

\* No two live epochs are remapped to one.
LEMMA MovesApart ==
    ASSUME NEW n, NEW m, NEW o, NEW q, NEW w, Moves(n, m, o, q, w), q.previous_open # 0,
           NEW a, NEW b, Live(a, o), Live(b, o), Live(remap_draining_receive_epoch(q.draining_generation, a), q),
           remap_draining_receive_epoch(q.draining_generation, a)
             = remap_draining_receive_epoch(q.draining_generation, b)
    PROVE  a = b
  BY DEF Moves, Live, remap_draining_receive_epoch, NoEpoch, NotDraining, NoInstance

\* A reservation that stays live stays covered.
LEMMA CoverStays ==
    ASSUME NEW n, NEW m, NEW o, NEW q, NEW w, Before(n, o, w), Stays(n, m, o, q),
           NEW S, \A x \in S : x.open => OpenOK(x, o, w) /\ KeyOK(x, n, o),
           NEW id, Live(id, q), NEW c, NEW L, Covered(id, c, o, S, L)
    PROVE  Covered(id, c, q, S, L)
<1>1. Live(id, o) /\ open_key(q, id[1]) = open_key(o, id[1])
  BY EpochStays
<1>2. CASE \E x \in S : x.open /\ identity_now(o, x) = id /\ x.counter = c
  <2>1. PICK x \in S : x.open /\ identity_now(o, x) = id /\ x.counter = c
    BY <1>2
  <2>2. identity_now(q, x) = id \/ (identity_now(q, x) = NoEpoch /\ x.key = open_key(q, id[1]))
    BY <1>1, <2>1, IdentityStays
  <2>3. QED
    BY <2>1, <2>2 DEF Covered
<1>3. CASE \E x \in S : /\ x.open /\ identity_now(o, x) = NoEpoch
                        /\ x.key = open_key(o, id[1]) /\ x.counter = c
  BY <1>1, <1>3, IdentityStays DEF Covered
<1>4. QED
  BY <1>1, <1>2, <1>3 DEF Covered

\* The same when the pending epoch is replaced.
LEMMA CoverRepends ==
    ASSUME NEW m, NEW o, NEW q, NEW w, Repends(m, o, q, w), o.pending_receive_epoch_instance \in Nat,
           NEW S, \A x \in S : x.open => OpenOK(x, o, w),
           NEW id, Live(id, q), Identity(id, o), NEW c, NEW L, Covered(id, c, o, S, L)
    PROVE  Covered(id, c, q, S, L)
  BY EpochRepends, IdentityRepends DEF Covered

\* The same for a reservation that another session remaps.
LEMMA CoverMoves ==
    ASSUME NEW n, NEW m, NEW o, NEW q, NEW w, Before(n, o, w), Moves(n, m, o, q, w),
           NEW S, \A x \in S : x.open => OpenOK(x, o, w) /\ KeyOK(x, n, o),
           q.previous_open # 0, NEW id, Identity(id, o),
           remap_draining_receive_epoch(q.draining_generation, id) # NoEpoch,
           NEW c, NEW L, Covered(id, c, o, S, L)
    PROVE  Covered(remap_draining_receive_epoch(q.draining_generation, id), c, q, S, L)
<1> DEFINE e == remap_draining_receive_epoch(q.draining_generation, id)
<1>1. Live(id, o) /\ open_key(q, e[1]) = open_key(o, id[1])
  BY EpochMoves
<1>2. CASE \E x \in S : x.open /\ identity_now(o, x) = id /\ x.counter = c
  <2>1. PICK x \in S : x.open /\ identity_now(o, x) = id /\ x.counter = c
    BY <1>2
  <2>2. identity_now(q, x) = e \/ (identity_now(q, x) = NoEpoch /\ x.key = open_key(q, e[1]))
    BY <1>1, <2>1, IdentityMoves
  <2>3. QED
    BY <2>1, <2>2 DEF Covered
<1>3. CASE \E x \in S : /\ x.open /\ identity_now(o, x) = NoEpoch
                        /\ x.key = open_key(o, id[1]) /\ x.counter = c
  BY <1>1, <1>3, IdentityMoves DEF Covered
<1>4. QED
  BY <1>1, <1>2, <1>3 DEF Covered

-----------------------------------------------------------------------------
(* The packets in flight through a step that leaves the queue alone.         *)

\* What holds of the slots, apart from the reservations.
SlotsOK(n, o, w) ==
    \A x \in SlotsInFlight :
        IF x.open THEN OpenOK(x, o, w) /\ KeyOK(x, n, o) ELSE SealOK(x, n, o, w)

\* A step of the node is of one of the three kinds.
EpochStep ==
    \/ Stays(node, node', owner, owner')
    \/ Repends(node', owner, owner', world)
    \/ Moves(node, node', owner, owner', world)

\* What holds of a packet to be opened holds after such a step.
LEMMA OpensKept ==
    ASSUME Before(node, owner, world), EpochStep, world'.sessions \in Nat,
           world'.sessions >= world.sessions,
           NEW x, OpenOK(x, owner, world), KeyOK(x, node, owner)
    PROVE  OpenOK(x, owner', world') /\ KeyOK(x, node', owner')
<1>1. KeyOK(x, node', owner')
  BY KeyStays, KeyRepends, KeyMoves DEF EpochStep
<1>2. /\ owner.generation \in Nat /\ owner'.generation \in Nat
      /\ owner.pending_receive_epoch_instance \in Nat
      /\ owner'.pending_receive_epoch_instance \in Nat
      /\ owner'.generation >= owner.generation
      /\ owner'.pending_receive_epoch_instance >= owner.pending_receive_epoch_instance
      /\ world.sessions \in Nat
  BY DEF Before, NodeOK, Follows, CurrentIs, EpochStep, Stays, Repends, Moves
<1>3. OpenOK(x, owner', world')
  BY <1>2 DEF OpenOK, Identity
<1>4. QED
  BY <1>1, <1>3

\* What holds of the reservations holds after a refresh or a drain that ends ...
LEMMA ReservationsStay ==
    ASSUME Before(node, owner, world), Stays(node, node', owner, owner'),
           SlotsOK(node, owner, world), ReservationsOK,
           owner'.pending_replay_counters = owner.pending_replay_counters,
           slots' = slots, lost' = lost
    PROVE  ReservationsOK'
<1> DEFINE S == SlotsInFlight
<1>1. SlotsInFlight' = S /\ DOMAIN slots' = DOMAIN slots
  BY DEF SlotsInFlight
<1>2. \A x \in S : x.open => OpenOK(x, owner, world) /\ KeyOK(x, node, owner)
  BY DEF SlotsOK
<1>3. \A x \in S : x.open /\ Live(identity_now(owner', x), owner') =>
          identity_now(owner', x) = identity_now(owner, x) /\ Live(identity_now(owner, x), owner)
  BY <1>2, IdentityStays
<1>4. \A i \in DOMAIN slots : slots[i] \in S
  BY DEF SlotsInFlight
<1> HIDE DEF S
<1>5. ASSUME NEW r \in owner'.pending_replay_counters
      PROVE  /\ r = <<r[1], r[2]>> /\ Identity(r[1], owner')
             /\ Live(r[1], owner') => Covered(r[1], r[2], owner', S, lost)
  <2>1. /\ r = <<r[1], r[2]>> /\ Identity(r[1], owner)
        /\ Live(r[1], owner) => Covered(r[1], r[2], owner, S, lost)
    BY <1>5 DEF ReservationsOK, S
  <2>2. Identity(r[1], owner')
    BY <2>1 DEF Identity, Stays
  <2>3. ASSUME Live(r[1], owner') PROVE Covered(r[1], r[2], owner', S, lost)
    <3>1. Live(r[1], owner)
      BY <2>3, EpochStays
    <3>2. QED
      BY <1>2, <2>1, <2>3, <3>1, CoverStays
  <2>4. QED
    BY <2>1, <2>2, <2>3
<1>6. ASSUME NEW x \in S, x.open, Live(identity_now(owner', x), owner')
      PROVE  Reserved(x, owner') \in owner'.pending_replay_counters
  BY <1>3, <1>6 DEF ReservationsOK, Reserved, S
<1>7. ASSUME NEW i \in DOMAIN slots, NEW j \in DOMAIN slots, slots[i].open, slots[j].open,
             Live(identity_now(owner', slots[i]), owner'),
             Reserved(slots[i], owner') = Reserved(slots[j], owner')
      PROVE  i = j
  <2>1. identity_now(owner', slots[i]) = identity_now(owner', slots[j])
    BY <1>7 DEF Reserved
  <2>2. /\ identity_now(owner', slots[i]) = identity_now(owner, slots[i])
        /\ identity_now(owner', slots[j]) = identity_now(owner, slots[j])
        /\ Live(identity_now(owner, slots[i]), owner)
    BY <1>3, <1>4, <1>7, <2>1
  <2>3. QED
    BY <1>7, <2>2, Zenon DEF ReservationsOK, Reserved
<1>8. QED
  BY <1>1, <1>5, <1>6, <1>7 DEF ReservationsOK

\* ... after a pending epoch is replaced, with whose packets their reservations go
\* (advance_pending_receive_epoch) ...
LEMMA ReservationsRepend ==
    ASSUME Before(node, owner, world), Repends(node', owner, owner', world),
           SlotsOK(node, owner, world), ReservationsOK,
           owner'.pending_replay_counters =
              {r \in owner.pending_replay_counters : r[1][1] # "Pending"},
           slots' = slots, lost' = lost
    PROVE  ReservationsOK'
<1> DEFINE S == SlotsInFlight
<1>1. SlotsInFlight' = S /\ DOMAIN slots' = DOMAIN slots
  BY DEF SlotsInFlight
<1>2. /\ \A x \in S : x.open => OpenOK(x, owner, world)
      /\ owner.pending_receive_epoch_instance \in Nat
  BY DEF SlotsOK, Before, Follows
<1>3. \A x \in S : x.open =>
          /\ identity_now(owner', x) = identity_now(owner, x)
          /\ Live(identity_now(owner', x), owner') =>
                Live(identity_now(owner, x), owner) /\ identity_now(owner, x)[1] # "Pending"
  BY <1>2, IdentityRepends
<1>4. \A i \in DOMAIN slots : slots[i] \in S
  BY DEF SlotsInFlight
<1> HIDE DEF S
<1>5. ASSUME NEW r \in owner'.pending_replay_counters
      PROVE  /\ r = <<r[1], r[2]>> /\ Identity(r[1], owner')
             /\ Live(r[1], owner') => Covered(r[1], r[2], owner', S, lost)
  <2>1. /\ r = <<r[1], r[2]>> /\ Identity(r[1], owner)
        /\ Live(r[1], owner) => Covered(r[1], r[2], owner, S, lost)
    BY <1>5 DEF ReservationsOK, S
  <2>2. Identity(r[1], owner')
    BY <1>2, <2>1 DEF Identity, Repends
  <2>3. ASSUME Live(r[1], owner') PROVE Covered(r[1], r[2], owner', S, lost)
    <3>1. Live(r[1], owner)
      BY <1>2, <2>1, <2>3, EpochRepends
    <3>2. QED
      BY <1>2, <2>1, <2>3, <3>1, CoverRepends
  <2>4. QED
    BY <2>1, <2>2, <2>3
<1>6. ASSUME NEW x \in S, x.open, Live(identity_now(owner', x), owner')
      PROVE  Reserved(x, owner') \in owner'.pending_replay_counters
  BY <1>3, <1>6 DEF ReservationsOK, Reserved, S
<1>7. ASSUME NEW i \in DOMAIN slots, NEW j \in DOMAIN slots, slots[i].open, slots[j].open,
             Live(identity_now(owner', slots[i]), owner'),
             Reserved(slots[i], owner') = Reserved(slots[j], owner')
      PROVE  i = j
  BY <1>3, <1>4, <1>7 DEF ReservationsOK, Reserved
<1>8. QED
  BY <1>1, <1>5, <1>6, <1>7 DEF ReservationsOK

\* ... and after another session became current, with the reservations remapped
\* (install_session).
LEMMA ReservationsMove ==
    ASSUME Before(node, owner, world), Moves(node, node', owner, owner', world),
           SlotsOK(node, owner, world), ReservationsOK,
           owner'.pending_replay_counters =
              IF owner'.previous_open = 0 THEN {}
              ELSE RemappedReservations(owner'.draining_generation, owner.pending_replay_counters),
           slots' = slots, lost' = lost
    PROVE  ReservationsOK'
<1> DEFINE S == SlotsInFlight
           d == owner'.draining_generation
           Remap(id) == remap_draining_receive_epoch(d, id)
<1>1. SlotsInFlight' = S /\ DOMAIN slots' = DOMAIN slots
  BY DEF SlotsInFlight
<1>2. \A x \in S : x.open => OpenOK(x, owner, world) /\ KeyOK(x, node, owner)
  BY DEF SlotsOK
<1>3. \A x \in S : x.open /\ Live(identity_now(owner', x), owner') =>
          /\ identity_now(owner', x) = Remap(identity_now(owner, x))
          /\ Live(identity_now(owner, x), owner)
          /\ owner'.previous_open # 0
  BY <1>2, IdentityMoves
<1>4. \A i \in DOMAIN slots : slots[i] \in S
  BY DEF SlotsInFlight
<1> HIDE DEF S
<1>5. ASSUME NEW r \in owner'.pending_replay_counters
      PROVE  /\ r = <<r[1], r[2]>> /\ Identity(r[1], owner')
             /\ Live(r[1], owner') => Covered(r[1], r[2], owner', S, lost)
  <2>1. owner'.previous_open # 0
    BY <1>5
  <2>2. PICK t \in owner.pending_replay_counters : r = <<Remap(t[1]), t[2]>> /\ Remap(t[1]) # NoEpoch
    BY <1>5, <2>1 DEF RemappedReservations
  <2>3. /\ Identity(t[1], owner)
        /\ Live(t[1], owner) => Covered(t[1], t[2], owner, S, lost)
    BY DEF ReservationsOK, S
  <2>4. Live(t[1], owner) /\ Identity(Remap(t[1]), owner')
    BY <2>1, <2>2, <2>3, EpochMoves
  <2>5. Covered(Remap(t[1]), t[2], owner', S, lost)
    BY <1>2, <2>1, <2>2, <2>3, <2>4, CoverMoves
  <2>6. r[1] = Remap(t[1]) /\ r[2] = t[2] /\ r = <<r[1], r[2]>>
    BY <2>2
  <2> HIDE DEF Remap
  <2>7. QED
    BY <2>4, <2>5, <2>6
<1>6. ASSUME NEW x \in S, x.open, Live(identity_now(owner', x), owner')
      PROVE  Reserved(x, owner') \in owner'.pending_replay_counters
  <2>1. /\ identity_now(owner', x) = Remap(identity_now(owner, x))
        /\ Live(identity_now(owner, x), owner)
        /\ owner'.previous_open # 0
    BY <1>3, <1>6
  <2>2. Reserved(x, owner) \in owner.pending_replay_counters
    BY <1>6, <2>1 DEF ReservationsOK, S
  <2>3. Remap(identity_now(owner, x)) # NoEpoch
    BY <1>6, <2>1 DEF Live, NoEpoch
  <2> HIDE DEF Remap
  <2>4. <<Remap(Reserved(x, owner)[1]), Reserved(x, owner)[2]>> \in owner'.pending_replay_counters
    BY <2>1, <2>2, <2>3 DEF RemappedReservations, Reserved, Remap
  <2>5. QED
    BY <2>1, <2>4 DEF Reserved
<1>7. ASSUME NEW i \in DOMAIN slots, NEW j \in DOMAIN slots, slots[i].open, slots[j].open,
             Live(identity_now(owner', slots[i]), owner'),
             Reserved(slots[i], owner') = Reserved(slots[j], owner')
      PROVE  i = j
  <2> DEFINE a == identity_now(owner, slots[i])
             b == identity_now(owner, slots[j])
  <2>1. /\ identity_now(owner', slots[i]) = identity_now(owner', slots[j])
        /\ slots[i].counter = slots[j].counter
    BY <1>7 DEF Reserved
  <2>2. /\ identity_now(owner', slots[i]) = Remap(a)
        /\ identity_now(owner', slots[j]) = Remap(b)
        /\ Live(a, owner) /\ Live(b, owner) /\ owner'.previous_open # 0
    BY <1>3, <1>4, <1>7, <2>1
  <2>3. Live(Remap(a), owner') /\ Remap(a) = Remap(b)
    BY <1>7, <2>1, <2>2, Zenon
  <2> HIDE DEF a, b
  <2>4. a = b
    BY <2>2, <2>3, MovesApart, Zenon
  <2>5. QED
    BY <1>7, <2>1, <2>2, <2>4 DEF ReservationsOK, Reserved, a, b
<1>8. QED
  BY <1>1, <1>5, <1>6, <1>7 DEF ReservationsOK

-----------------------------------------------------------------------------
(* The queue of slots.                                                       *)

\* What admitting a packet does to the queue of slots.
LEMMA SlotAppended ==
    ASSUME NEW e, \E S : slots \in Seq(S), slots' = Append(slots, e)
    PROVE  /\ \E S : slots' \in Seq(S)
           /\ SlotsInFlight' = SlotsInFlight \cup {e}
           /\ \E n \in Nat : /\ DOMAIN slots = 1 .. n /\ DOMAIN slots' = 1 .. n + 1
                             /\ \A i \in 1 .. n : slots'[i] = slots[i]
                             /\ slots'[n + 1] = e
<1>1. PICK S : slots \in Seq(S)
  OBVIOUS
<1>2. slots' \in Seq(S \cup {e})
  BY <1>1
<1>3. /\ Len(slots) \in Nat /\ DOMAIN slots = 1 .. Len(slots)
      /\ DOMAIN slots' = 1 .. Len(slots) + 1
      /\ \A i \in 1 .. Len(slots) : slots'[i] = slots[i]
      /\ slots'[Len(slots) + 1] = e
  BY <1>1
<1>4. SlotsInFlight' = SlotsInFlight \cup {e}
  <2>1. ASSUME NEW i \in DOMAIN slots' PROVE slots'[i] \in SlotsInFlight \cup {e}
    BY <1>3, <2>1 DEF SlotsInFlight
  <2>2. ASSUME NEW i \in DOMAIN slots PROVE slots[i] \in SlotsInFlight'
    <3>1. i \in DOMAIN slots' /\ slots'[i] = slots[i]
      BY <1>3, <2>2
    <3>2. QED
      BY <3>1, Zenon DEF SlotsInFlight
  <2>3. e \in SlotsInFlight'
    <3>1. Len(slots) + 1 \in DOMAIN slots' /\ slots'[Len(slots) + 1] = e
      BY <1>3
    <3>2. QED
      BY <3>1, Zenon DEF SlotsInFlight
  <2>4. QED
    BY <2>1, <2>2, <2>3, Zenon DEF SlotsInFlight
<1>5. QED
  BY <1>2, <1>3, <1>4, Zenon

\* What retiring one does.
LEMMA HeadRetired ==
    ASSUME \E S : slots \in Seq(S), slots # <<>>, slots' = Tail(slots)
    PROVE  /\ \E S : slots' \in Seq(S)
           /\ SlotsInFlight = SlotsInFlight' \cup {Head(slots)}
           /\ \E n \in Nat : /\ DOMAIN slots = 1 .. n + 1 /\ DOMAIN slots' = 1 .. n
                             /\ Head(slots) = slots[1]
                             /\ \A i \in 1 .. n : slots'[i] = slots[i + 1]
<1>1. PICK S : slots \in Seq(S)
  OBVIOUS
<1>2. slots' \in Seq(S)
  BY <1>1
<1> DEFINE n == Len(slots) - 1
<1>3. /\ n \in Nat /\ DOMAIN slots = 1 .. n + 1 /\ Head(slots) = slots[1]
  BY <1>1
<1>4. /\ DOMAIN slots' = 1 .. n /\ \A i \in 1 .. n : slots'[i] = slots[i + 1]
  BY <1>1
<1> HIDE DEF n
<1>5. SlotsInFlight = SlotsInFlight' \cup {Head(slots)}
  <2>1. ASSUME NEW i \in DOMAIN slots PROVE slots[i] \in SlotsInFlight' \cup {Head(slots)}
    <3>1. CASE i = 1
      BY <1>3, <3>1
    <3>2. CASE i # 1
      <4>1. i - 1 \in DOMAIN slots' /\ slots'[i - 1] = slots[i]
        BY <1>3, <1>4, <2>1, <3>2
      <4>2. QED
        BY <4>1, Zenon DEF SlotsInFlight
    <3>3. QED
      BY <3>1, <3>2
  <2>2. ASSUME NEW i \in DOMAIN slots' PROVE slots'[i] \in SlotsInFlight
    <3>1. i + 1 \in DOMAIN slots /\ slots'[i] = slots[i + 1]
      BY <1>3, <1>4, <2>2
    <3>2. QED
      BY <3>1, Zenon DEF SlotsInFlight
  <2>3. Head(slots) \in SlotsInFlight
    <3>1. 1 \in DOMAIN slots
      BY <1>3
    <3>2. QED
      BY <1>3, <3>1, Zenon DEF SlotsInFlight
  <2>4. QED
    BY <2>1, <2>2, <2>3, Zenon DEF SlotsInFlight
<1>6. QED
  BY <1>2, <1>3, <1>4, <1>5

\* What identities and keys depend on.
SameEpochs(q, o) ==
    /\ q.generation = o.generation /\ q.crypto_keys = o.crypto_keys
    /\ q.previous_open = o.previous_open /\ q.draining_generation = o.draining_generation
    /\ q.pending_open = o.pending_open
    /\ q.pending_receive_epoch_instance = o.pending_receive_epoch_instance

\* Packets go by the same epochs, with the same keys, while the epochs are the same.
LEMMA EpochsRead ==
    ASSUME NEW q, NEW o, SameEpochs(q, o)
    PROVE  /\ \A x : identity_now(q, x) = identity_now(o, x) /\ Reserved(x, q) = Reserved(x, o)
           /\ \A id : (Live(id, q) <=> Live(id, o)) /\ (Identity(id, q) <=> Identity(id, o))
           /\ \A e : open_key(q, e) = open_key(o, e)
<1>1. \A x : identity_now(q, x) = identity_now(o, x)
  BY DEF SameEpochs, identity_now, retains_draining_generation
<1>2. \A e : open_key(q, e) = open_key(o, e)
  BY DEF SameEpochs, open_key
<1>3. \A id : (Live(id, q) <=> Live(id, o)) /\ (Identity(id, q) <=> Identity(id, o))
  BY DEF SameEpochs, Live, Identity
<1>4. QED
  BY <1>1, <1>2, <1>3 DEF Reserved

\* So what holds of a packet in flight holds on.
LEMMA SlotRead ==
    ASSUME NEW n, NEW q, NEW o, NEW w, SameEpochs(q, o), NEW x
    PROVE  /\ OpenOK(x, o, w) /\ KeyOK(x, n, o) => OpenOK(x, q, w) /\ KeyOK(x, n, q)
           /\ SealOK(x, n, o, w) => SealOK(x, n, q, w)
<1>1. OpenOK(x, o, w) => OpenOK(x, q, w)
  BY EpochsRead DEF OpenOK, SameEpochs
<1>2. KeyOK(x, n, o) => KeyOK(x, n, q)
  <2>1. \A g : retains_draining_generation(q, g) <=> retains_draining_generation(o, g)
    BY DEF SameEpochs, retains_draining_generation
  <2>2. QED
    BY <2>1, EpochsRead DEF KeyOK, SameEpochs
<1>3. SealOK(x, n, o, w) => SealOK(x, n, q, w)
  BY DEF SealOK, SameEpochs
<1>4. QED
  BY <1>1, <1>2, <1>3

-----------------------------------------------------------------------------
(* A packet is reserved.                                                     *)

\* The step leaves all but the queue, the reservations and the nonces alone.
Appends(e) ==
    /\ node' = node /\ world' = world /\ registered' = registered /\ contexts' = contexts
    /\ lost' = lost /\ deliveries' = deliveries
    /\ DOMAIN owner' = OwnerFields /\ SameCurrent(owner', owner) /\ SamePrevious(owner', owner)
    /\ SamePending(owner', owner)
    /\ owner'.pending_receive_epoch_instance = owner.pending_receive_epoch_instance
    /\ slots' = Append(slots, e)

\* reserve: a packet with a reservation that nobody had.
LEMMA ReservationAdded ==
    ASSUME ReservationsOK, SameEpochs(owner', owner), lost' = lost,
           NEW e, \E S : slots \in Seq(S), slots' = Append(slots, e), e.open,
           Live(identity_now(owner, e), owner), Identity(identity_now(owner, e), owner),
           Reserved(e, owner) \notin owner.pending_replay_counters,
           owner'.pending_replay_counters =
               owner.pending_replay_counters \cup {Reserved(e, owner)}
    PROVE  ReservationsOK'
<1> DEFINE S == SlotsInFlight
           P == owner.pending_replay_counters
<1>1. SlotsInFlight' = S \cup {e}
  BY SlotAppended
<1>2. \A r \in P : r = <<r[1], r[2]>> /\ Identity(r[1], owner)
                   /\ (Live(r[1], owner) => Covered(r[1], r[2], owner, S, lost))
  BY DEF ReservationsOK
<1>3. \A x \in S : x.open /\ Live(identity_now(owner, x), owner) => Reserved(x, owner) \in P
  BY DEF ReservationsOK
<1>4. \A i, j \in DOMAIN slots :
          /\ slots[i].open /\ slots[j].open /\ Live(identity_now(owner, slots[i]), owner)
          /\ Reserved(slots[i], owner) = Reserved(slots[j], owner)
          => i = j
  BY DEF ReservationsOK
<1>5. ASSUME NEW id, NEW c, Covered(id, c, owner, S, lost)
      PROVE  Covered(id, c, owner', S \cup {e}, lost)
  BY <1>5, EpochsRead, Zenon, ZenonT(30) DEF Covered
<1>6. Covered(identity_now(owner, e), e.counter, owner', S \cup {e}, lost)
  BY EpochsRead DEF Covered
<1>7. \A r \in owner'.pending_replay_counters :
           /\ r = <<r[1], r[2]>> /\ Identity(r[1], owner')
           /\ Live(r[1], owner') => Covered(r[1], r[2], owner', S \cup {e}, lost)
  <2>1. TAKE r \in owner'.pending_replay_counters
  <2>2. CASE r \in P
    BY <1>2, <1>5, <2>2, EpochsRead, Zenon, ZenonT(30)
  <2>3. CASE r = Reserved(e, owner)
    <3>1. r = <<identity_now(owner, e), e.counter>>
      BY <2>3 DEF Reserved
    <3>2. r[1] = identity_now(owner, e) /\ r[2] = e.counter /\ r = <<r[1], r[2]>>
      BY <3>1
    <3>3. QED
      BY <1>6, <3>2, EpochsRead
  <2>4. QED
    BY <2>1, <2>2, <2>3
<1>8. \A x \in S \cup {e} : x.open /\ Live(identity_now(owner', x), owner') =>
           Reserved(x, owner') \in owner'.pending_replay_counters
  BY <1>3, EpochsRead
<1>9. \A i, j \in DOMAIN slots' :
          /\ slots'[i].open /\ slots'[j].open /\ Live(identity_now(owner', slots'[i]), owner')
          /\ Reserved(slots'[i], owner') = Reserved(slots'[j], owner')
          => i = j
  <2>1. PICK n \in Nat : /\ DOMAIN slots = 1 .. n /\ DOMAIN slots' = 1 .. n + 1
                         /\ \A i \in 1 .. n : slots'[i] = slots[i]
                         /\ slots'[n + 1] = e
    BY SlotAppended
  <2>2. \A i \in 1 .. n : slots'[i] \in S
    BY <2>1, Zenon DEF SlotsInFlight
  <2>3. TAKE i, j \in DOMAIN slots'
  <2>4. HAVE /\ slots'[i].open /\ slots'[j].open
             /\ Live(identity_now(owner', slots'[i]), owner')
             /\ Reserved(slots'[i], owner') = Reserved(slots'[j], owner')
  <2>5. /\ Live(identity_now(owner, slots'[i]), owner)
        /\ Reserved(slots'[i], owner) = Reserved(slots'[j], owner)
        /\ Live(identity_now(owner, slots'[j]), owner)
    <3>1. Reserved(slots'[i], owner) = Reserved(slots'[j], owner)
      BY <2>4, EpochsRead, Zenon
    <3>2. identity_now(owner, slots'[i]) = identity_now(owner, slots'[j])
      BY <3>1 DEF Reserved
    <3>3. QED
      BY <2>4, <3>1, <3>2, EpochsRead, Zenon
  <2>6. CASE i \in 1 .. n /\ j \in 1 .. n
    BY <1>4, <2>1, <2>4, <2>5, <2>6
  <2>7. CASE i \in 1 .. n /\ j = n + 1
    BY <1>3, <2>1, <2>2, <2>4, <2>5, <2>7
  <2>8. CASE i = n + 1 /\ j \in 1 .. n
    BY <1>3, <2>1, <2>2, <2>4, <2>5, <2>8
  <2>9. QED
    BY <2>1, <2>3, <2>6, <2>7, <2>8
<1>10. QED
  BY <1>1, <1>7, <1>8, <1>9, Zenon DEF ReservationsOK

\* The same for a packet to be sealed, which reserves no counter.
LEMMA SealAdded ==
    ASSUME ReservationsOK, owner' = owner, lost' = lost,
           NEW e, \E S : slots \in Seq(S), slots' = Append(slots, e), ~ e.open
    PROVE  ReservationsOK'
<1> DEFINE S == SlotsInFlight
           P == owner.pending_replay_counters
<1>1. SlotsInFlight' = S \cup {e}
  BY SlotAppended
<1>2. \A r \in P : r = <<r[1], r[2]>> /\ Identity(r[1], owner)
                   /\ (Live(r[1], owner) => Covered(r[1], r[2], owner, S, lost))
  BY DEF ReservationsOK
<1>3. \A x \in S : x.open /\ Live(identity_now(owner, x), owner) => Reserved(x, owner) \in P
  BY DEF ReservationsOK
<1>4. \A i, j \in DOMAIN slots :
          /\ slots[i].open /\ slots[j].open /\ Live(identity_now(owner, slots[i]), owner)
          /\ Reserved(slots[i], owner) = Reserved(slots[j], owner)
          => i = j
  BY DEF ReservationsOK
<1>5. ASSUME NEW id, NEW c, Covered(id, c, owner, S, lost)
      PROVE  Covered(id, c, owner, S \cup {e}, lost)
  BY <1>5 DEF Covered
<1>6. \A i, j \in DOMAIN slots' :
          /\ slots'[i].open /\ slots'[j].open /\ Live(identity_now(owner, slots'[i]), owner)
          /\ Reserved(slots'[i], owner) = Reserved(slots'[j], owner)
          => i = j
  BY <1>4, SlotAppended
<1>7. \A r \in P : r = <<r[1], r[2]>> /\ Identity(r[1], owner)
                   /\ (Live(r[1], owner) => Covered(r[1], r[2], owner, S \cup {e}, lost))
  BY <1>2, <1>5, Zenon
<1>8. \A x \in S \cup {e} : x.open /\ Live(identity_now(owner, x), owner) =>
                               Reserved(x, owner) \in P
  BY <1>3
<1>9. QED
  BY <1>1, <1>6, <1>7, <1>8, Zenon DEF ReservationsOK

-----------------------------------------------------------------------------
(* The packet at the head of the line is retired.                            *)

\* What becomes of its reservation.
Unreserved(h) ==
    LET id == identity_now(owner, h)
    IN  /\ ~ h.open => owner'.pending_replay_counters = owner.pending_replay_counters
        /\ h.open /\ id # NoEpoch =>
              owner'.pending_replay_counters =
                  owner.pending_replay_counters \ {Reserved(h, owner)}
        /\ h.open /\ id = NoEpoch =>
              /\ owner'.pending_replay_counters = owner.pending_replay_counters
              /\ \/ <<h.key, h.counter>> \in lost'
                 \/ \A j : Live(j, owner) => h.key # open_key(owner, j[1])

\* complete_replay_reservation: the reservation goes with its packet, unless the packet is
\* stale; then it may have been another's, and is accounted as lost.
LEMMA ReservationRetired ==
    ASSUME ReservationsOK, SameEpochs(owner', owner), \E S : slots \in Seq(S), slots # <<>>,
           slots' = Tail(slots), lost \subseteq lost', Unreserved(Head(slots))
    PROVE  ReservationsOK'
<1> DEFINE h == Head(slots)
           T == SlotsInFlight'
           P == owner.pending_replay_counters
           Q == owner'.pending_replay_counters
           L == lost'
<1>1. SlotsInFlight = T \cup {h}
  BY HeadRetired
<1>2. \A r \in P : r = <<r[1], r[2]>> /\ Identity(r[1], owner)
                   /\ (Live(r[1], owner) => Covered(r[1], r[2], owner, T \cup {h}, lost))
  BY <1>1, Zenon DEF ReservationsOK
<1>3. \A x \in T \cup {h} : x.open /\ Live(identity_now(owner, x), owner) =>
                               Reserved(x, owner) \in P
  BY <1>1 DEF ReservationsOK
<1>4. \A i, j \in DOMAIN slots :
          /\ slots[i].open /\ slots[j].open /\ Live(identity_now(owner, slots[i]), owner)
          /\ Reserved(slots[i], owner) = Reserved(slots[j], owner)
          => i = j
  BY DEF ReservationsOK
<1>5. PICK n \in Nat : /\ DOMAIN slots = 1 .. n + 1 /\ DOMAIN slots' = 1 .. n
                       /\ h = slots[1]
                       /\ \A i \in 1 .. n : slots'[i] = slots[i + 1]
  BY HeadRetired
<1>6. Q \subseteq P /\ Unreserved(h) /\ lost \subseteq L
  BY DEF Unreserved
<1>7. ASSUME NEW x \in T, x.open, Live(identity_now(owner, x), owner)
      PROVE  Reserved(x, owner) \in Q
  <2>1. PICK i \in 1 .. n : x = slots'[i]
    BY <1>5, <1>7, Zenon DEF SlotsInFlight
  <2>2. x = slots[i + 1] /\ i + 1 \in DOMAIN slots /\ 1 \in DOMAIN slots /\ i + 1 # 1
    BY <1>5, <2>1
  <2>3. ~ (h.open /\ Reserved(h, owner) = Reserved(x, owner))
    BY <1>4, <1>5, <1>7, <2>2
  <2>4. Reserved(x, owner) \in P
    BY <1>3, <1>7
  <2>5. QED
    BY <1>6, <2>3, <2>4 DEF Unreserved
<1>8. ASSUME NEW r \in Q, Live(r[1], owner)
      PROVE  Covered(r[1], r[2], owner, T, L)
  <2>1. r = <<r[1], r[2]>> /\ Covered(r[1], r[2], owner, T \cup {h}, lost)
    BY <1>2, <1>6, <1>8, Zenon
  <2> DEFINE id == r[1]  c == r[2]
  <2>2. id # NoEpoch
    BY <1>8 DEF Live, NoEpoch
  <2> HIDE DEF id, c
  <2>3. CASE \E x \in T \cup {h} : x.open /\ identity_now(owner, x) = id /\ x.counter = c
    <3>1. PICK x \in T \cup {h} : x.open /\ identity_now(owner, x) = id /\ x.counter = c
      BY <2>3
    <3>2. CASE x \in T
      BY <3>1, <3>2 DEF Covered, id, c
    <3>3. CASE x = h
      <4>1. Reserved(h, owner) = r
        BY <2>1, <3>1, <3>3, SMTT(20), SMTT(30) DEF Reserved, id, c
      <4>2. r \notin Q
        BY <1>6, <2>2, <3>1, <3>3, <4>1, SMTT(20), SMTT(30) DEF Unreserved
      <4>3. QED
        BY <1>8, <4>2
    <3>4. QED
      BY <3>1, <3>2, <3>3
  <2>4. CASE \E x \in T \cup {h} : /\ x.open /\ identity_now(owner, x) = NoEpoch
                                   /\ x.key = open_key(owner, id[1]) /\ x.counter = c
    <3>1. PICK x \in T \cup {h} : /\ x.open /\ identity_now(owner, x) = NoEpoch
                                  /\ x.key = open_key(owner, id[1]) /\ x.counter = c
      BY <2>4
    <3>2. CASE x \in T
      BY <3>1, <3>2 DEF Covered, id, c
    <3>3. CASE x = h
      <4>1. <<h.key, h.counter>> \in L
        BY <1>6, <1>8, <3>1, <3>3 DEF Unreserved, id
      <4>2. QED
        BY <3>1, <3>3, <4>1, SMTT(20), SMTT(30) DEF Covered, id, c
    <3>4. QED
      BY <3>1, <3>2, <3>3
  <2>5. CASE <<open_key(owner, id[1]), c>> \in lost
    BY <1>6, <2>5 DEF Covered, id, c
  <2>6. QED
    BY <2>1, <2>3, <2>4, <2>5 DEF Covered, id, c
<1>9. ASSUME NEW id, NEW c, Covered(id, c, owner, T, L) PROVE Covered(id, c, owner', T, L)
  BY <1>9, EpochsRead, SMTT(20), SMTT(30) DEF Covered
<1>10. \A r \in Q : /\ r = <<r[1], r[2]>> /\ Identity(r[1], owner')
                    /\ Live(r[1], owner') => Covered(r[1], r[2], owner', T, L)
  <2>1. TAKE r \in Q
  <2>2. r = <<r[1], r[2]>> /\ Identity(r[1], owner')
    BY <1>2, <1>6, EpochsRead
  <2>3. Live(r[1], owner') => Covered(r[1], r[2], owner', T, L)
    BY <1>8, <1>9, EpochsRead
  <2>4. QED
    BY <2>2, <2>3
<1>11. \A x \in T : x.open /\ Live(identity_now(owner', x), owner') => Reserved(x, owner') \in Q
  BY <1>7, EpochsRead
<1>12. \A i, j \in DOMAIN slots' :
          /\ slots'[i].open /\ slots'[j].open /\ Live(identity_now(owner', slots'[i]), owner')
          /\ Reserved(slots'[i], owner') = Reserved(slots'[j], owner')
          => i = j
  <2>1. TAKE i, j \in DOMAIN slots'
  <2>2. HAVE /\ slots'[i].open /\ slots'[j].open
             /\ Live(identity_now(owner', slots'[i]), owner')
             /\ Reserved(slots'[i], owner') = Reserved(slots'[j], owner')
  <2>3. /\ Live(identity_now(owner, slots'[i]), owner)
        /\ Reserved(slots'[i], owner) = Reserved(slots'[j], owner)
    BY <2>2, EpochsRead, Zenon
  <2>4. /\ slots'[i] = slots[i + 1] /\ slots'[j] = slots[j + 1]
        /\ i + 1 \in DOMAIN slots /\ j + 1 \in DOMAIN slots
        /\ i \in Int /\ j \in Int
    BY <1>5, <2>1
  <2>5. i + 1 = j + 1
    BY <1>4, <2>2, <2>3, <2>4, SMTT(20), SMTT(30)
  <2>6. QED
    BY <2>4, <2>5
<1>13. QED
  BY <1>10, <1>11, <1>12 DEF ReservationsOK

\* What the node's calls and the packets of a registered owner start from.
Registered ==
    /\ registered /\ DOMAIN owner = OwnerFields /\ owner.protocol = world.protocol
    /\ Before(node, owner, world)

\* The invariant gives it.
LEMMA RegisteredOwner == ASSUME IInv, registered PROVE Registered
  BY DEF IInv, OwnerOK, Registered, Before
=============================================================================
