--------------------------- MODULE DataplaneOwner ---------------------------
(***************************************************************************)
(* One dataplane owner: the state of a peer's link (FMP) or of an           *)
(* end-to-end session (FSP) through which every packet of that peer passes. *)
(* Packets are reserved in order, opened or sealed by AEAD workers, and     *)
(* retired in order, while the node installs, promotes, replaces and drains *)
(* the sessions whose keys those packets were reserved for.                 *)
(*                                                                          *)
(* The node's side (peer/active/rekey.rs, node/dataplane_pending.rs) is     *)
(* reduced to what it feeds the owner: its current and pending session, the *)
(* K bit and the generation.  A packet waits in the admission queue between *)
(* getting its route tag and being reserved, so a reservation may use any   *)
(* tag that was ever published.                                             *)
(***************************************************************************)
EXTENDS OwnerEpochs, Sequences

CONSTANTS
    MaxSession,         \* bound: Noise sessions over the life of the peer
    MaxSend,            \* bound: u64::MAX of a send counter
    Worlds              \* the owners to consider, and the packets they meet

ASSUME OwnerAssumption ==
    /\ MaxSession \in Nat \ {0}
    /\ MaxSend \in Nat
    /\ Worlds \subseteq [protocol : {"Fmp", "Fsp"}, in_flight_limit : Nat \ {0},
                        counters : Counters, sends : 0 .. MaxSend]

Sessions == 1 .. MaxSession

VARIABLES
    node,           \* what the node holds: session, pending, generation, k bits
    world,          \* a member of Worlds, and the Noise sessions completed so far
    registered,     \* the shard's map holds the owner
    owner,          \* its OwnerState
    tags,           \* ingress route tags published so far
    contexts,       \* send contexts handed out so far
    slots,          \* reservations in flight, in retirement order
    lost,           \* key and counter of the reservations dropped as stale
    deliveries,     \* how often a packet of a session was handed up, since Register
    send_counter,   \* SendCounterAuthority of each session
    sealed          \* how often a nonce was given to a seal key

vars == <<node, world, registered, owner, tags, contexts, slots, lost, deliveries,
          send_counter, sealed>>

NoDeliveries == [s \in Sessions |-> [c \in Counters |-> 0]]

Init ==
    /\ \E w \in Worlds :
           world = [protocol |-> w.protocol, in_flight_limit |-> w.in_flight_limit,
                    counters |-> w.counters, sends |-> w.sends, sessions |-> 0]
    /\ node = [session |-> NoSession, pending |-> NoSession, generation |-> 0,
               k |-> 0, draining |-> NoBit]
    /\ registered = FALSE
    /\ owner = NewOwner(world.protocol, 0, 0, NoBit)
    /\ tags = {}
    /\ contexts = {}
    /\ slots = <<>>
    /\ lost = {}
    /\ deliveries = NoDeliveries
    /\ send_counter = [s \in Sessions |-> 0]
    /\ sealed = [s \in Sessions |-> [n \in 0 .. MaxSend |-> 0]]

-----------------------------------------------------------------------------
\* The node's calls.

ConfigOf(n) == [generation |-> n.generation, session |-> n.session,
                k |-> n.k, draining |-> n.draining]

\* The routes of a synced owner: FMP publishes an index for each of the node's
\* sessions, FSP the session's source address only.
TagsOf(n) ==
    {[generation |-> n.generation, epoch |-> e] :
        e \in {"Current"}
              \cup (IF world.protocol = "Fmp" /\ n.pending # NoSession THEN {"Pending"} ELSE {})
              \cup (IF world.protocol = "Fmp" /\ n.draining # NoBit THEN {"Previous"} ELSE {})}

ContextsOf(o) ==
    {[generation |-> o.generation, epoch |-> "Current",
      receiver_idx |-> o.send_headers.receiver_idx, k |-> o.send_headers.k]}
    \cup (IF o.pending_seal = NoSession THEN {}
          ELSE {[generation |-> o.generation, epoch |-> "Pending",
                 receiver_idx |-> o.pending_seal, k |-> o.pending_k_bit]})

\* sync_dataplane_fmp_owner / sync_dataplane_fsp_owner: register if missing,
\* install the node's current session, publish the routes.
SyncTo(n, o) ==
    LET synced == install_session(o, ConfigOf(n))
    IN  /\ node' = n
        /\ owner' = synced
        /\ tags' = tags \cup TagsOf(n)
        /\ contexts' = contexts \cup ContextsOf(synced)

\* A handshake completes where no owner is registered, or an unregistered owner
\* is synced again with the session the node kept.
Register ==
    /\ ~ registered
    /\ \E s \in {node.session, world.sessions + 1} \cap Sessions :
           LET new == s = world.sessions + 1
               n   == IF new THEN [session |-> s, pending |-> NoSession,
                                   generation |-> node.generation + 1,
                                   k |-> 0, draining |-> NoBit]
                             ELSE node
           IN  /\ world' = IF new THEN [world EXCEPT !.sessions = s] ELSE world
               /\ SyncTo(n, NewOwner(world.protocol, n.generation, n.k, n.draining))
    /\ registered' = TRUE
    /\ UNCHANGED <<slots, lost, deliveries, send_counter, sealed>>

\* unregister_owner: the slots in flight are orphaned and never retired.
Unregister ==
    /\ registered
    /\ registered' = FALSE
    /\ owner' = NewOwner(world.protocol, 0, 0, NoBit)
    /\ slots' = <<>>
    /\ lost' = {}
    /\ deliveries' = NoDeliveries
    /\ UNCHANGED <<node, world, tags, contexts, send_counter, sealed>>

\* A later sync with nothing new: a route, path or address changed.
Refresh ==
    /\ registered
    /\ SyncTo(node, owner)
    /\ UNCHANGED <<world, registered, slots, lost, deliveries, send_counter, sealed>>

\* Mutant: a rekey starts during the drain.
rekey_allowed_during_drain == TRUE

\* K is one bit, so FSP neither starts nor answers a rekey during a drain.
rekey_allowed == world.protocol = "Fsp" => node.draining = NoBit

\* A rekey handshake completes beside the live session.
InstallPending ==
    /\ registered
    /\ world.sessions < MaxSession
    /\ rekey_allowed
    /\ LET s == world.sessions + 1
           n == [node EXCEPT !.pending = s]
           o == install_pending_epoch(install_session(owner, ConfigOf(node)), 1 - node.k, s)
       IN  /\ world' = [world EXCEPT !.sessions = s]
           /\ node' = n
           /\ owner' = o
           /\ tags' = tags \cup TagsOf(n)
           /\ contexts' = contexts \cup ContextsOf(o)
    /\ UNCHANGED <<registered, slots, lost, deliveries, send_counter, sealed>>

\* abandon_fmp_rekey_for_peer: an unconfirmed rekey is given up.
AbandonPending ==
    /\ registered
    /\ world.protocol = "Fmp"
    /\ node.pending # NoSession
    /\ SyncTo([node EXCEPT !.pending = NoSession], clear_pending_receive_epoch(owner))
    /\ UNCHANGED <<world, registered, slots, lost, deliveries, send_counter, sealed>>

Promoted(k) ==
    [session |-> node.pending, pending |-> NoSession,
     generation |-> node.generation + 1, k |-> k,
     draining |-> IF world.protocol = "Fmp" THEN node.k ELSE 1 - k]

\* The initiator's timer, or the K flag of an authenticated FSP packet, promotes
\* the pending session.
Cutover ==
    /\ registered
    /\ node.pending # NoSession
    /\ SyncTo(Promoted(1 - node.k), owner)
    /\ UNCHANGED <<world, registered, slots, lost, deliveries, send_counter, sealed>>

\* promote_dataplane_authenticated_pending_fmp_epoch: the flag of the first
\* authenticated pending frame decides the K bit.
ConfirmPending ==
    /\ registered
    /\ world.protocol = "Fmp"
    /\ node.pending # NoSession
    /\ \E k \in KBits :
           /\ owner.pending_authenticated_k_bit = k
           /\ SyncTo(Promoted(k), confirm_pending_receive_epoch(owner, k))
    /\ UNCHANGED <<world, registered, slots, lost, deliveries, send_counter, sealed>>

\* replace_session (FMP, with a drain when the receiver index changed) or a new
\* establishment (FSP, the remote restarted).
ReplaceSession ==
    /\ registered
    /\ world.sessions < MaxSession
    /\ \E draining \in {NoBit} \cup (IF world.protocol = "Fmp" THEN {node.k} ELSE {}) :
           SyncTo([session |-> world.sessions + 1, pending |-> NoSession,
                   generation |-> node.generation + 1, k |-> 0,
                   draining |-> draining], owner)
    /\ world' = [world EXCEPT !.sessions = @ + 1]
    /\ UNCHANGED <<registered, slots, lost, deliveries, send_counter, sealed>>

\* The drain window of the previous session is over.
CompleteDrain ==
    /\ registered
    /\ node.draining # NoBit
    /\ SyncTo([node EXCEPT !.draining = NoBit], owner)
    /\ UNCHANGED <<world, registered, slots, lost, deliveries, send_counter, sealed>>

-----------------------------------------------------------------------------
\* The packet path.

\* reserve_block_reason, for the one limit every class has.
CanReserve == registered /\ Len(slots) < world.in_flight_limit

\* reserve: a packet sealed under session s is admitted under some tag.  The
\* open key is chosen in the same call; a worker will use it later.  Of the wire
\* flags a slot keeps the one bit its completion reads.
Reserve(s, c, tag, k) ==
    LET packet == [counter |-> c, generation |-> tag.generation, epoch |-> tag.epoch, k |-> k]
        routed == routed_epoch(owner, packet)
        epoch  == receive_epoch(owner, packet, routed[1])
        id     == epoch_identity(owner, epoch)
    IN  /\ CanReserve
        /\ routed # NoEpoch
        /\ can_accept(replay_window_for_epoch(owner, epoch), c)
        /\ <<id, c>> \notin owner.pending_replay_counters
        /\ owner' = [owner EXCEPT !.pending_replay_counters = @ \cup {<<id, c>>}]
        /\ slots' = Append(slots, [open |-> TRUE, session |-> s, counter |-> c,
                                   k |-> IF world.protocol = "Fmp" /\ epoch = "Pending" THEN k ELSE 0,
                                   generation |-> owner.generation, receive_epoch |-> id,
                                   key |-> open_key(owner, epoch)])
        /\ UNCHANGED <<node, world, registered, tags, contexts, lost, deliveries,
                       send_counter, sealed>>

\* Mutant: a packet made for the old epoch keeps its header.
current_headers_stale(o, context) == [context EXCEPT !.epoch = "Current"]

\* A packet made for the draining generation is moved to the current one.
current_headers(o, context) ==
    IF context.generation = o.generation THEN context
    ELSE [generation |-> o.generation, epoch |-> "Current",
          receiver_idx |-> o.send_headers.receiver_idx,
          k |-> IF world.protocol = "Fmp" THEN o.send_headers.k ELSE o.current_k_bit]

sendable(o, context) ==
    \/ context.generation = o.generation
    \/ /\ retains_draining_generation(o, context.generation)
       /\ context.epoch = "Pending" => o.draining_generation.promoted # NoInstance

\* Mutant: the pending session's counter is used for the current key.
authority_for_pending_first(o, epoch) ==
    IF o.pending_authority # NoSession THEN o.pending_authority ELSE o.send_counter_authority

\* The authority a send counter is drawn from.
authority_for(o, epoch) ==
    IF epoch = "Pending" THEN o.pending_authority ELSE o.send_counter_authority

\* reserve_outbound and the choice of the seal key: the counter is consumed even
\* when no seal key is there.
ReserveOutbound(context) ==
    LET packet    == current_headers(owner, context)
        authority == authority_for(owner, packet.epoch)
        key       == seal_key(owner, packet.epoch)
    IN  /\ CanReserve
        /\ sendable(owner, context)
        /\ authority # NoSession
        /\ send_counter[authority] < world.sends
        /\ send_counter' = [send_counter EXCEPT ![authority] = @ + 1]
        /\ sealed' = IF key = NoSession THEN sealed
                     ELSE [sealed EXCEPT ![key][send_counter[authority]] = @ + 1]
        /\ slots' = Append(slots, [open |-> FALSE, session |-> authority, key |-> key,
                                   counter |-> send_counter[authority], k |-> packet.k,
                                   generation |-> owner.generation,
                                   receiver_idx |-> packet.receiver_idx])
        /\ UNCHANGED <<node, world, registered, owner, tags, contexts, lost, deliveries>>

Authentic(slot) == slot.key = slot.session

\* retire_ready_slots_into at the head of the line; a slot of a generation that
\* is neither current nor draining is dropped without touching the owner.
Retire ==
    /\ registered
    /\ slots # <<>>
    /\ LET slot   == Head(slots)
           stale  == /\ slot.generation # owner.generation
                     /\ ~ retains_draining_generation(owner, slot.generation)
           result == complete_replay_reservation(owner, slot, Authentic(slot))
       IN  IF stale \/ ~ slot.open
           THEN /\ UNCHANGED <<owner, deliveries>>
                /\ lost' = IF slot.open THEN lost \cup {<<slot.key, slot.counter>>} ELSE lost
           ELSE /\ owner' = result.owner
                /\ UNCHANGED lost
                /\ deliveries' = IF Authentic(slot) /\ result.ok
                                 THEN [deliveries EXCEPT ![slot.session][slot.counter] = @ + 1]
                                 ELSE deliveries
    /\ slots' = Tail(slots)
    /\ UNCHANGED <<node, world, registered, tags, contexts, send_counter, sealed>>

Next ==
    \/ Register
    \/ Unregister
    \/ Refresh
    \/ InstallPending
    \/ AbandonPending
    \/ Cutover
    \/ ConfirmPending
    \/ ReplaceSession
    \/ CompleteDrain
    \/ \E s \in 1 .. world.sessions, c \in 0 .. world.counters, tag \in tags, k \in KBits :
           Reserve(s, c, tag, k)
    \/ \E context \in contexts : ReserveOutbound(context)
    \/ Retire

Spec == Init /\ [][Next]_vars

-----------------------------------------------------------------------------
SlotsInFlight == {slots[i] : i \in DOMAIN slots}
OpenSlots == {x \in SlotsInFlight : x.open}
SealSlots == {x \in SlotsInFlight : ~ x.open}
Delivered(s) == {c \in Counters : deliveries[s][c] > 0}

\* While an owner is registered it hands up a packet of a session (the pair of
\* key and counter) at most once, whichever epochs the session passes through
\* and however often the packet arrives (complete_replay_reservation).
AtMostOnce == \A s \in Sessions, c \in Counters : deliveries[s][c] <= 1

\* The replay window kept for an epoch is the memory of exactly the packets
\* handed up under that epoch's key: promotion and draining move the right
\* window with the right key (install_fmp_session, install_fsp_session).
WindowFollowsKey ==
    /\ owner.crypto_keys # NoSession =>
           Remembers(owner.replay_window, Delivered(owner.crypto_keys))
    /\ owner.previous_open # NoSession =>
           Remembers(owner.previous_replay_window, Delivered(owner.previous_open))
    /\ owner.pending_open # NoSession =>
           Remembers(owner.pending_replay_window, Delivered(owner.pending_open))

LiveIdentities ==
    {<<"Current", 0>>}
    \cup (IF owner.previous_open = NoSession THEN {} ELSE {<<"Previous", 0>>})
    \cup (IF owner.pending_open = NoSession THEN {}
          ELSE {<<"Pending", owner.pending_receive_epoch_instance>>})

\* A counter marked in flight in a live epoch has a reservation in flight that
\* will unmark it, unless its packet outlived its generation and was dropped as
\* stale: moving reservations between epochs leaks none of them
\* (pending_replay_counters against the retirement queue).
NoStuckCounter ==
    \A r \in owner.pending_replay_counters :
        r[1] \in LiveIdentities =>
            \/ \E x \in OpenSlots : identity_now(owner, x) = r[1] /\ x.counter = r[2]
            \/ \E x \in OpenSlots : /\ identity_now(owner, x) = NoEpoch
                                    /\ x.key = open_key(owner, r[1][1])
                                    /\ x.counter = r[2]
            \/ <<open_key(owner, r[1][1]), r[2]>> \in lost

WillBeDelivered(x) ==
    LET id == identity_now(owner, x)
    IN  /\ id \in LiveIdentities
        /\ open_key(owner, id[1]) = x.key
        /\ <<id, x.counter>> \in owner.pending_replay_counters

\* An authentic packet reserved in the current or in the draining generation
\* keeps the key and the reservation it needs, unless its epoch is gone: no
\* cutover or refresh loses or swaps them (remap_draining_receive_epoch).
WorkKeepsItsKey ==
    \A x \in OpenSlots :
        Authentic(x) /\ identity_now(owner, x) \in LiveIdentities => WillBeDelivered(x)

LiveKeys == {owner.crypto_keys, owner.previous_open, owner.pending_open} \ {NoSession}

Readable(generation, epoch, s, k) ==
    LET packet == [generation |-> generation, k |-> k,
                   epoch |-> IF world.protocol = "Fmp" THEN epoch ELSE "Current"]
        routed == routed_epoch(owner, packet)
    IN  routed # NoEpoch /\ open_key(owner, receive_epoch(owner, packet, routed[1])) = s

\* A packet of a session the owner still holds keys for is opened with that
\* session's key, both when it is tagged now and when it was queued before the
\* last cutover: one K bit and one tag tell three epochs apart (reserve).
RetainedSessionsReadable ==
    /\ owner.crypto_keys # NoSession =>
           Readable(owner.generation, "Current", owner.crypto_keys, owner.current_k_bit)
    /\ owner.pending_open # NoSession =>
           Readable(owner.generation, "Pending", owner.pending_open, owner.pending_k_bit)
    /\ owner.previous_open # NoSession =>
           LET draining == owner.draining_generation
               k        == owner.previous_draining_k_bit
           IN  /\ Readable(owner.generation, "Previous", owner.previous_open, k)
               /\ Readable(draining.generation, "Current", owner.previous_open, k)
               /\ draining.promoted # NoInstance =>
                      Readable(draining.generation, "Pending", owner.crypto_keys,
                               owner.current_k_bit)

\* A nonce is never used twice with one seal key, across promotions,
\* re-registrations and packets moved from an old generation to the new one
\* (reserve_send_counter and seal_key are chosen by one epoch).
NonceOnce == \A s \in Sessions, n \in 0 .. MaxSend : sealed[s][n] <= 1

\* The header of a sealed packet leads its receiver to the session it is sealed
\* with, by receiver index (FMP) or K flag (FSP), also when it was prepared
\* before a cutover and sealed after it (reserve_outbound).
HeaderNamesKey ==
    \A x \in SealSlots :
        /\ world.protocol = "Fmp" /\ x.key # NoSession => x.receiver_idx = x.key
        /\ world.protocol = "Fsp" =>
               /\ x.key \in LiveKeys /\ x.key = owner.crypto_keys => x.k = owner.current_k_bit
               /\ x.key \in LiveKeys /\ x.key = owner.previous_open =>
                      x.k = owner.previous_draining_k_bit
               /\ x.key \in LiveKeys /\ x.key = owner.pending_seal => x.k = owner.pending_k_bit

\* A packet is handed up at most once under its key, and what keeps a second copy out
\* while the first is being opened (pending_replay_counters) is gone with it.
DeliveredOnce == AtMostOnce /\ NoStuckCounter

\* Through cutovers, drains and replacements the windows stay with their keys
\* (install_fmp_session, install_fsp_session), and packets in flight with the key they
\* were reserved for (retire_opened_output_into).
KeysKeepTheirWork == WindowFollowsKey /\ WorkKeepsItsKey

\* Under each key every nonce seals at most one packet, whose header leads its receiver
\* to that key (reserve_outbound).
SealedOnce == NonceOnce /\ HeaderNamesKey
=============================================================================
