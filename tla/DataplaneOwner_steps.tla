------------------------ MODULE DataplaneOwner_steps ------------------------
(***************************************************************************)
(* The calls by which the node programs a registered owner (sync, cutover,  *)
(* promotion, replacement, abandoning, end of a drain) are of the three     *)
(* kinds and keep the invariant; so does every packet handed to it.         *)
(***************************************************************************)
EXTENDS DataplaneOwner_invariant

\* The provers for a step that names none, in the order in which they are tried.
USE SMTT(10), Zenon, SMTT(30)

-----------------------------------------------------------------------------
(* The node's calls, by what they do to node and owner.                      *)

\* Refresh and CompleteDrain.
SyncStays ==
    /\ world' = world
    /\ DOMAIN node' = NodeFields
    /\ node'.session = node.session /\ node'.pending = node.pending
    /\ node'.generation = node.generation /\ node'.k = node.k
    /\ node'.draining \in {node.draining, NoBit}
    /\ DOMAIN owner' = OwnerFields /\ owner'.protocol = owner.protocol
    /\ CurrentIs(owner', node.generation, node.session, node.k, node'.draining)
    /\ owner'.replay_window = owner.replay_window
    /\ IF node'.draining = NoBit THEN NoPrevious(owner') ELSE SamePrevious(owner', owner)
    /\ SamePending(owner', owner) /\ SameInFlight(owner', owner)

\* One more session, or none.
MoreSessions(s) ==
    /\ DOMAIN world' = WorldFields /\ world'.protocol = world.protocol
    /\ world'.counters = world.counters /\ world'.sends = world.sends
    /\ \/ world'.sessions = world.sessions
       \/ s = world.sessions + 1 /\ world'.sessions = s /\ world.sessions < MaxSession

\* AbandonPending and InstallPending.
SyncRepends ==
    /\ DOMAIN node' = NodeFields
    /\ node'.session = node.session /\ node'.generation = node.generation
    /\ node'.k = node.k /\ node'.draining = node.draining
    /\ MoreSessions(node'.pending)
    /\ DOMAIN owner' = OwnerFields /\ owner'.protocol = owner.protocol
    /\ CurrentIs(owner', node.generation, node.session, node.k, node.draining)
    /\ owner'.replay_window = owner.replay_window
    /\ owner'.previous_open = owner.previous_open
    /\ owner'.draining_generation = owner.draining_generation
    /\ owner'.previous_replay_window \in {owner.previous_replay_window, EmptyWindow}
    /\ owner.previous_open # 0 => owner'.previous_replay_window = owner.previous_replay_window
    /\ owner'.pending_receive_epoch_instance = owner.pending_receive_epoch_instance + 1
    /\ owner'.pending_replay_counters =
          {r \in owner.pending_replay_counters : r[1][1] # "Pending"}
    /\ owner'.pending_replay_window = EmptyWindow
    /\ owner'.pending_open = node'.pending /\ owner'.pending_authority = node'.pending
    /\ owner'.pending_seal = IF owner.protocol = "Fsp" THEN node'.pending ELSE 0
    /\ owner'.pending_k_bit = IF node'.pending = 0 THEN NoBit ELSE 1 - node.k
    /\ \/ node'.pending = 0
       \/ /\ node'.pending = world.sessions + 1 /\ world'.sessions = node'.pending
          /\ world.protocol = "Fsp" => node.draining = NoBit

\* Cutover, ConfirmPending and ReplaceSession.
SyncMoves ==
    /\ DOMAIN node' = NodeFields
    /\ node'.pending = 0 /\ node'.generation = node.generation + 1
    /\ node'.k \in KBits /\ node'.draining \in KBits \cup {NoBit}
    /\ MoreSessions(node'.session)
    /\ \/ node'.session = node.pending /\ node.pending # 0
       \/ node'.session = world.sessions + 1 /\ world'.sessions = node'.session
    /\ world.protocol = "Fsp" =>
          /\ node'.session = node.pending => node'.k = 1 - node.k
          /\ node'.draining # NoBit => node'.draining = node.k /\ node'.k = 1 - node.k
    /\ DOMAIN owner' = OwnerFields /\ owner'.protocol = owner.protocol
    /\ CurrentIs(owner', node'.generation, node'.session, node'.k, node'.draining)
    /\ NoPending(owner')
    /\ owner'.pending_receive_epoch_instance = owner.pending_receive_epoch_instance
    /\ owner'.replay_window = IF node'.session = owner.pending_open
                              THEN owner.pending_replay_window ELSE EmptyWindow
    /\ IF node'.draining # NoBit
       THEN /\ owner'.previous_open = owner.crypto_keys
            /\ owner'.previous_replay_window = owner.replay_window
            /\ owner'.draining_generation =
                  [generation |-> owner.generation,
                   promoted |-> IF node'.session = owner.pending_open
                                THEN owner.pending_receive_epoch_instance ELSE NoInstance]
            /\ owner'.pending_replay_counters =
                  RemappedReservations(owner'.draining_generation, owner.pending_replay_counters)
       ELSE NoPrevious(owner') /\ owner'.pending_replay_counters = {}

\* A call of the node, of any kind.
Sync == SyncStays \/ SyncRepends \/ SyncMoves

\* Each kind does to the epochs what DataplaneOwner_invariant says of it.
LEMMA SyncSteps ==
    ASSUME Before(node, owner, world)
    PROVE  /\ SyncStays => Stays(node, node', owner, owner')
           /\ SyncRepends => Repends(node', owner, owner', world)
           /\ SyncMoves => Moves(node, node', owner, owner', world)
<1>1. ASSUME SyncStays PROVE Stays(node, node', owner, owner')
  BY <1>1 DEF SyncStays, Stays, Before, NodeOK, Follows, CurrentIs, NoPrevious, SamePrevious,
              SamePending, SameInFlight, NoSession
<1>2. ASSUME SyncRepends PROVE Repends(node', owner, owner', world)
  BY <1>2 DEF SyncRepends, Repends, Before, NodeOK, Follows, CurrentIs
<1>3. ASSUME SyncMoves PROVE Moves(node, node', owner, owner', world)
  BY <1>3 DEF SyncMoves, Moves, Before, NodeOK, Follows, CurrentIs, NoPrevious, NoPending,
              NoSession, MoreSessions
<1>4. QED
  BY <1>1, <1>2, <1>3

\* After a call of the node the owner follows the node again.
LEMMA NodeFollowed ==
    ASSUME Before(node, owner, world), owner.protocol = world.protocol, Sync
    PROVE  /\ NodeOK(node', world') /\ Follows(node', owner') /\ Drains(node', owner', world')
           /\ owner'.protocol = world'.protocol /\ DOMAIN owner' = OwnerFields
           /\ world'.sessions \in Nat /\ world'.sessions >= world.sessions
           /\ node'.generation \in Nat /\ node'.generation >= node.generation
<1> USE DEF Before
<1>1. CASE SyncStays
  <2>1. NodeOK(node', world')
    BY <1>1 DEF SyncStays, NodeOK
  <2>2. Follows(node', owner')
    BY <1>1 DEF SyncStays, Follows, CurrentIs, SamePending, SameInFlight
  <2>3. Drains(node', owner', world')
    BY <1>1 DEF SyncStays, Follows, Drains, NoPrevious, SamePrevious, NoSession, CurrentIs
  <2>4. QED
    BY <1>1, <2>1, <2>2, <2>3 DEF SyncStays, NodeOK
<1>2. CASE SyncRepends
  <2>1. NodeOK(node', world')
    BY <1>2, OwnerAssumption DEF SyncRepends, NodeOK, MoreSessions
  <2>2. Follows(node', owner')
    BY <1>2 DEF SyncRepends, Follows, CurrentIs
  <2>3. Drains(node', owner', world')
    BY <1>2 DEF SyncRepends, Follows, Drains, CurrentIs, MoreSessions, NodeOK
  <2>4. QED
    BY <1>2, <2>1, <2>2, <2>3 DEF SyncRepends, NodeOK, MoreSessions
<1>3. CASE SyncMoves
  <2>1. NodeOK(node', world')
    BY <1>3, OwnerAssumption DEF SyncMoves, NodeOK, MoreSessions, KBits, NoBit
  <2>2. Follows(node', owner')
    BY <1>3 DEF SyncMoves, NodeOK, Follows, CurrentIs, NoPending, NoSession
  <2>3. Drains(node', owner', world')
    BY <1>3 DEF SyncMoves, NodeOK, Follows, Drains, NoPrevious, NoSession, CurrentIs, MoreSessions
  <2>4. QED
    BY <1>3, <2>1, <2>2, <2>3 DEF SyncMoves, NodeOK, MoreSessions
<1>4. QED
  BY <1>1, <1>2, <1>3 DEF Sync

\* A sealed packet in flight still names its key by what the key is to the node.
LEMMA SealKept ==
    ASSUME Before(node, owner, world), Sync, NEW x, SealOK(x, node, owner, world)
    PROVE  SealOK(x, node', owner', world')
<1> USE DEF Before, SealOK
<1>1. CASE SyncStays
  BY <1>1 DEF SyncStays, NodeOK, SamePrevious, NoPrevious, NoSession
<1>2. CASE SyncRepends
  BY <1>2 DEF SyncRepends, NodeOK, MoreSessions
<1>3. CASE SyncMoves
  BY <1>3 DEF SyncMoves, NodeOK, MoreSessions, Follows, CurrentIs, NoPrevious, NoSession
<1>4. QED
  BY <1>1, <1>2, <1>3 DEF Sync

\* Send contexts that are published now name the current epochs; older ones keep an older
\* generation (fmp_send_context, fsp_send_context).
LEMMA ContextsKept ==
    ASSUME Before(node, owner, world), owner.protocol = world.protocol, Sync,
           contexts' = contexts \cup ContextsOf(owner'),
           \A c \in contexts : ContextOK(c, node, world)
    PROVE  \A c \in contexts' : ContextOK(c, node', world')
<1>1. /\ NodeOK(node', world') /\ Follows(node', owner') /\ owner'.protocol = world'.protocol
  BY NodeFollowed
<1>2. ASSUME NEW c \in ContextsOf(owner') PROVE ContextOK(c, node', world')
  BY <1>1, <1>2, SMTT(20), SMTT(30) DEF ContextsOf, ContextOK, NodeOK, Follows, CurrentIs, NoSession
<1>3. ASSUME NEW c \in contexts PROVE ContextOK(c, node', world')
  <2>1. ContextOK(c, node, world) /\ node.generation \in Nat
    BY <1>3 DEF Before, NodeOK
  <2>2. world'.protocol = world.protocol
    BY DEF Sync, SyncStays, SyncRepends, SyncMoves, MoreSessions
  <2>3. \/ node'.generation = node.generation /\ node'.session = node.session /\ node'.k = node.k
        \/ node'.generation = node.generation + 1
    BY DEF Sync, SyncStays, SyncRepends, SyncMoves
  <2>4. QED
    BY <2>1, <2>2, <2>3 DEF ContextOK
<1>4. QED
  BY <1>2, <1>3

\* Each window goes with its key: a promoted epoch brings its window along, a drained
\* session takes its own to the previous epoch (install_session).
LEMMA DeliveriesKept ==
    ASSUME Before(node, owner, world), Sync, registered, registered', DeliveriesOK,
           deliveries' = deliveries
    PROVE  DeliveriesOK'
<1> DEFINE D(s) == Delivered(s)
<1>1. \A s : D(s)' = D(s)
  BY DEF Delivered
<1>2. /\ deliveries' \in [Sessions -> [Counters -> Nat]] /\ AtMostOnce'
      /\ ~ registered' => deliveries' = NoDeliveries
  BY DEF DeliveriesOK, AtMostOnce
<1>3. world.sessions \in Nat /\ world.sessions <= MaxSession /\ MaxSession \in Nat
  BY OwnerAssumption DEF Before, NodeOK
<1>4. /\ \A s \in Sessions : s > world.sessions => D(s) = {}
      /\ world.sessions < MaxSession => D(world.sessions + 1) = {}
  BY <1>3 DEF DeliveriesOK, Sessions
<1>5. /\ node.pending # 0 /\ owner.pending_open = 0 => D(node.pending) = {}
      /\ owner.crypto_keys # 0 => Remembers(owner.replay_window, D(owner.crypto_keys))
      /\ owner.previous_open # 0 =>
            Remembers(owner.previous_replay_window, D(owner.previous_open))
      /\ owner.pending_open # 0 =>
            Remembers(owner.pending_replay_window, D(owner.pending_open))
      /\ owner.replay_window \in WindowType /\ owner.previous_replay_window \in WindowType
      /\ owner.pending_replay_window \in WindowType
  BY DEF DeliveriesOK, WindowFollowsKey, NoSession
<1>6. SUFFICES
      /\ \A s \in Sessions : s > world'.sessions => D(s) = {}
      /\ node'.pending # 0 /\ owner'.pending_open = 0 => D(node'.pending) = {}
      /\ owner'.crypto_keys # 0 => Remembers(owner'.replay_window, D(owner'.crypto_keys))
      /\ owner'.previous_open # 0 =>
            Remembers(owner'.previous_replay_window, D(owner'.previous_open))
      /\ owner'.pending_open # 0 =>
            Remembers(owner'.pending_replay_window, D(owner'.pending_open))
      /\ owner'.replay_window \in WindowType /\ owner'.previous_replay_window \in WindowType
      /\ owner'.pending_replay_window \in WindowType
  BY <1>1, <1>2, Zenon DEF DeliveriesOK, WindowFollowsKey, NoSession
<1> HIDE DEF D
<1>a. ASSUME NEW s, MoreSessions(s), world'.sessions = world.sessions \/ world'.sessions = s
      PROVE  /\ \A t \in Sessions : t > world'.sessions => D(t) = {}
             /\ s = world.sessions + 1 /\ world'.sessions = s => D(s) = {}
  BY <1>3, <1>4, <1>a DEF MoreSessions, Sessions
<1>7. CASE SyncStays
  BY <1>4, <1>5, <1>7, EmptyRemembers
     DEF SyncStays, Before, Follows, CurrentIs, SamePrevious, NoPrevious, SamePending, NoSession
<1>8. CASE SyncRepends
  <2>1. /\ \A t \in Sessions : t > world'.sessions => D(t) = {}
        /\ node'.pending # 0 => D(node'.pending) = {}
    BY <1>8, <1>a DEF SyncRepends, MoreSessions
  <2>2. /\ owner'.crypto_keys = owner.crypto_keys /\ owner'.replay_window = owner.replay_window
        /\ owner'.previous_open = owner.previous_open
        /\ owner'.previous_replay_window \in {owner.previous_replay_window, EmptyWindow}
        /\ owner.previous_open # 0 =>
              owner'.previous_replay_window = owner.previous_replay_window
        /\ owner'.pending_open = node'.pending /\ owner'.pending_replay_window = EmptyWindow
    BY <1>8 DEF SyncRepends, Before, Follows, CurrentIs
  <2>3. QED
    BY <1>5, <2>1, <2>2, EmptyRemembers
<1>9. CASE SyncMoves
  <2>1. \A s \in Sessions : s > world'.sessions => D(s) = {}
    BY <1>9, <1>a DEF SyncMoves, MoreSessions
  <2>2. Remembers(owner'.replay_window, D(owner'.crypto_keys))
    <3>1. owner'.crypto_keys = node'.session
      BY <1>9 DEF SyncMoves, CurrentIs
    <3>2. CASE node'.session = owner.pending_open
      BY <1>3, <1>5, <1>9, <3>1, <3>2 DEF SyncMoves, Before, NodeOK, Follows
    <3>3. CASE node'.session # owner.pending_open
      <4>1. D(node'.session) = {}
        BY <1>5, <1>9, <1>a, <3>3, SMTT(20), SMTT(30) DEF SyncMoves, MoreSessions, Before, Follows
      <4>2. owner'.replay_window = EmptyWindow
        BY <1>9, <3>3 DEF SyncMoves
      <4>3. QED
        BY <3>1, <4>1, <4>2, EmptyRemembers, SMTT(20), SMTT(30)
    <3>4. QED
      BY <3>2, <3>3
  <2>3. owner'.replay_window \in WindowType
    BY <1>5, <1>9, EmptyRemembers DEF SyncMoves
  <2>4. /\ owner'.previous_open # 0 =>
              Remembers(owner'.previous_replay_window, D(owner'.previous_open))
        /\ owner'.previous_replay_window \in WindowType
    BY <1>5, <1>9, EmptyRemembers DEF SyncMoves, NoPrevious, NoSession
  <2>5. /\ node'.pending = 0 /\ owner'.pending_open = 0
        /\ owner'.pending_replay_window \in WindowType
    BY <1>9, EmptyRemembers DEF SyncMoves, NoPending, NoSession
  <2>6. QED
    BY <2>1, <2>2, <2>3, <2>4, <2>5, SMTT(20), SMTT(30)
<1>10. QED
  BY <1>7, <1>8, <1>9 DEF Sync

\* Hence a call keeps the invariant.
LEMMA SyncKeeps ==
    ASSUME IInv, registered, registered', Sync, contexts' = contexts \cup ContextsOf(owner'),
           slots' = slots, lost' = lost, deliveries' = deliveries,
           send_counter' = send_counter, sealed' = sealed
    PROVE  IInv'
<1>1. /\ Before(node, owner, world) /\ owner.protocol = world.protocol
      /\ SlotsOK(node, owner, world) /\ ReservationsOK /\ DeliveriesOK /\ CountersOK
      /\ \A c \in contexts : ContextOK(c, node, world)
      /\ \E S : slots \in Seq(S)
  BY DEF IInv, OwnerOK, Before, SlotsOK
<1>2. EpochStep
  BY <1>1, SyncSteps DEF Sync, EpochStep
<1>3. /\ NodeOK(node', world') /\ Follows(node', owner') /\ Drains(node', owner', world')
      /\ owner'.protocol = world'.protocol /\ DOMAIN owner' = OwnerFields
      /\ world'.sessions \in Nat /\ world'.sessions >= world.sessions
  BY <1>1, NodeFollowed
<1>4. OwnerOK'
  BY <1>1, <1>3 DEF OwnerOK
<1>5. CountersOK'
  BY <1>1 DEF CountersOK
<1>6. \A c \in contexts' : ContextOK(c, node', world')
  BY <1>1, ContextsKept
<1>7. \A x \in SlotsInFlight' :
          IF x.open THEN OpenOK(x, owner', world') /\ KeyOK(x, node', owner')
          ELSE SealOK(x, node', owner', world')
  <2>1. SlotsInFlight' = SlotsInFlight
    BY DEF SlotsInFlight
  <2>2. TAKE x \in SlotsInFlight'
  <2>3. CASE x.open
    BY <1>1, <1>2, <1>3, <2>1, <2>3, OpensKept DEF SlotsOK
  <2>4. CASE ~ x.open
    BY <1>1, <2>1, <2>4, SealKept DEF SlotsOK
  <2>5. QED
    BY <2>3, <2>4
<1>8. ReservationsOK'
  <2>1. CASE SyncStays
    <3>1. Stays(node, node', owner, owner')
      BY <1>1, <2>1, SyncSteps, Zenon
    <3>2. owner'.pending_replay_counters = owner.pending_replay_counters
      BY <2>1, Zenon DEF SyncStays, SameInFlight
    <3>3. QED
      BY <1>1, <3>1, <3>2, ReservationsStay, Zenon
  <2>2. CASE SyncRepends
    <3>1. Repends(node', owner, owner', world)
      BY <1>1, <2>2, SyncSteps, Zenon
    <3>2. owner'.pending_replay_counters = {r \in owner.pending_replay_counters : r[1][1] # "Pending"}
      BY <2>2, Zenon DEF SyncRepends
    <3>3. QED
      BY <1>1, <3>1, <3>2, ReservationsRepend, Zenon
  <2>3. CASE SyncMoves
    <3>1. owner'.pending_replay_counters =
              IF owner'.previous_open = 0 THEN {}
              ELSE RemappedReservations(owner'.draining_generation, owner.pending_replay_counters)
      BY <1>1, <2>3, Zenon DEF SyncMoves, NoPrevious, NoSession, Before, Follows, CurrentIs
    <3>2. QED
      BY <1>1, <2>3, <3>1, SyncSteps, ReservationsMove
  <2>4. QED
    BY <2>1, <2>2, <2>3, SMTT(20), SMTT(30) DEF Sync
<1>9. DeliveriesOK'
  BY <1>1, DeliveriesKept
<1>10. QED
  BY <1>3, <1>4, <1>5, <1>6, <1>7, <1>8, <1>9 DEF IInv

-----------------------------------------------------------------------------
(* Each of the node's calls is one of the three.                             *)

\* sync_dataplane_*_owner with what the owner has.
LEMMA RefreshStays == ASSUME Registered, Refresh PROVE SyncStays
<1>1. owner' = install_session(owner, [generation |-> owner.generation, session |-> node.session,
                                       k |-> node.k, draining |-> node.draining])
  BY DEF Registered, Before, Follows, CurrentIs, Refresh, SyncTo, ConfigOf
<1>2. owner.pending_k_bit # node.k
  BY DEF Registered, Before, NodeOK, Follows, KBits, NoBit
<1>3. /\ DOMAIN owner' = OwnerFields /\ owner'.protocol = owner.protocol
      /\ CurrentIs(owner', owner.generation, node.session, node.k, node.draining)
      /\ owner'.replay_window = owner.replay_window
      /\ IF node.draining = NoBit THEN NoPrevious(owner') ELSE SamePrevious(owner', owner)
      /\ SamePending(owner', owner) /\ SameInFlight(owner', owner)
  <2>1. Refreshed(owner', owner, node.session, node.k, node.draining)
    BY <1>1, <1>2, SessionRefreshed DEF Registered
  <2>2. QED
    BY <2>1, Zenon DEF Refreshed
<1>4. owner.generation = node.generation /\ node' = node /\ world' = world /\ DOMAIN node = NodeFields
  BY DEF Registered, Before, NodeOK, Follows, CurrentIs, Refresh, SyncTo
<1>5. QED
  BY <1>3, <1>4 DEF SyncStays

\* complete_drain, then sync.
LEMMA CompleteDrainStays == ASSUME Registered, CompleteDrain PROVE SyncStays
<1>1. /\ DOMAIN node = NodeFields /\ node' = [node EXCEPT !.draining = NoBit] /\ world' = world
      /\ owner.generation = node.generation
  BY DEF Registered, Before, NodeOK, Follows, CurrentIs, CompleteDrain, SyncTo
<1>2. /\ DOMAIN node' = NodeFields
      /\ node'.session = node.session /\ node'.pending = node.pending
      /\ node'.generation = node.generation /\ node'.k = node.k /\ node'.draining = NoBit
  BY <1>1 DEF NodeFields
<1>3. owner' = install_session(owner, [generation |-> owner.generation, session |-> node.session,
                                       k |-> node.k, draining |-> NoBit])
  BY <1>1, <1>2 DEF CompleteDrain, SyncTo, ConfigOf
<1>4. owner.pending_k_bit # node.k
  BY DEF Registered, Before, NodeOK, Follows, KBits, NoBit
<1>5. /\ DOMAIN owner' = OwnerFields /\ owner'.protocol = owner.protocol
      /\ CurrentIs(owner', owner.generation, node.session, node.k, NoBit)
      /\ owner'.replay_window = owner.replay_window /\ NoPrevious(owner')
      /\ SamePending(owner', owner) /\ SameInFlight(owner', owner)
  <2>1. Refreshed(owner', owner, node.session, node.k, NoBit)
    BY <1>3, <1>4, SessionRefreshed DEF Registered
  <2>2. QED
    BY <2>1 DEF Refreshed
<1>6. QED
  BY <1>1, <1>2, <1>5 DEF SyncStays

\* The pending epoch is cleared before the sync.
LEMMA AbandonPendingRepends == ASSUME Registered, AbandonPending PROVE SyncRepends
<1> DEFINE c == clear_pending_receive_epoch(owner)
<1>1. /\ DOMAIN node = NodeFields /\ node' = [node EXCEPT !.pending = NoSession] /\ world' = world
      /\ owner.generation = node.generation /\ DOMAIN world = WorldFields
      /\ owner.previous_open = 0 => owner.draining_generation = NotDraining
      /\ node.draining = NoBit => owner.previous_open = 0
  BY DEF Registered, Before, NodeOK, Follows, CurrentIs, Drains, AbandonPending, SyncTo
<1>2. /\ DOMAIN node' = NodeFields
      /\ node'.session = node.session /\ node'.pending = 0
      /\ node'.generation = node.generation /\ node'.k = node.k
      /\ node'.draining = node.draining
  BY <1>1 DEF NodeFields, NoSession
<1>3. /\ DOMAIN c = OwnerFields
      /\ SameCurrent(c, owner) /\ SamePrevious(c, owner) /\ NoPending(c)
      /\ c.pending_receive_epoch_instance = owner.pending_receive_epoch_instance + 1
      /\ c.pending_replay_counters =
            {x \in owner.pending_replay_counters : x[1][1] # "Pending"}
  BY PendingCleared DEF Registered
<1>4. owner' = install_session(c, ConfigOf(node'))
  BY DEF AbandonPending, SyncTo
<1> HIDE DEF c
<1>5. owner' = install_session(c, [generation |-> c.generation, session |-> node.session,
                                   k |-> node.k, draining |-> node.draining])
  BY <1>1, <1>2, <1>3, <1>4 DEF ConfigOf, SameCurrent
<1>6. c.pending_k_bit # node.k
  BY <1>3 DEF Registered, Before, NodeOK, KBits, NoPending, NoBit
<1>7. /\ DOMAIN owner' = OwnerFields /\ owner'.protocol = c.protocol
      /\ CurrentIs(owner', c.generation, node.session, node.k, node.draining)
      /\ owner'.replay_window = c.replay_window
      /\ IF node.draining = NoBit THEN NoPrevious(owner') ELSE SamePrevious(owner', c)
      /\ SamePending(owner', c) /\ SameInFlight(owner', c)
  <2>1. Refreshed(owner', c, node.session, node.k, node.draining)
    BY <1>3, <1>5, <1>6, SessionRefreshed
  <2>2. QED
    BY <2>1, Zenon DEF Refreshed
<1>8. MoreSessions(node'.pending)
  BY <1>1 DEF MoreSessions
<1>9. QED
  BY <1>1, <1>2, <1>3, <1>7, <1>8
     DEF SyncRepends, SameCurrent, SamePrevious, NoPrevious, NoPending, SamePending, SameInFlight,
         NoSession, Registered

\* The sync is followed by the pending epoch of the completed rekey.
LEMMA InstallPendingRepends == ASSUME Registered, InstallPending PROVE SyncRepends
<1> DEFINE s == world.sessions + 1
           c == install_session(owner, ConfigOf(node))
<1>1. /\ DOMAIN node = NodeFields /\ node' = [node EXCEPT !.pending = s]
      /\ world' = [world EXCEPT !.sessions = s] /\ world.sessions < MaxSession
      /\ owner.generation = node.generation /\ DOMAIN world = WorldFields
      /\ world.sessions \in Nat /\ node.k \in KBits
      /\ world.protocol = "Fsp" => node.draining = NoBit
      /\ owner.previous_open = 0 => owner.draining_generation = NotDraining
      /\ node.draining = NoBit => owner.previous_open = 0
  BY DEF Registered, Before, NodeOK, Follows, CurrentIs, Drains, InstallPending, rekey_allowed
<1>2. /\ DOMAIN node' = NodeFields
      /\ node'.session = node.session /\ node'.pending = s
      /\ node'.generation = node.generation /\ node'.k = node.k
      /\ node'.draining = node.draining
  BY <1>1 DEF NodeFields
<1>3. MoreSessions(s) /\ world'.sessions = s
  BY <1>1 DEF MoreSessions, WorldFields
<1>4. owner' = install_pending_epoch(c, 1 - node.k, s)
  BY DEF InstallPending
<1>5. c = install_session(owner, [generation |-> owner.generation, session |-> node.session,
                                  k |-> node.k, draining |-> node.draining])
  BY <1>1 DEF ConfigOf
<1> HIDE DEF s, c
<1>6. owner.pending_k_bit # node.k
  BY DEF Registered, Before, NodeOK, Follows, KBits, NoBit
<1>7. /\ DOMAIN c = OwnerFields /\ c.protocol = owner.protocol
      /\ CurrentIs(c, owner.generation, node.session, node.k, node.draining)
      /\ c.replay_window = owner.replay_window
      /\ IF node.draining = NoBit THEN NoPrevious(c) ELSE SamePrevious(c, owner)
      /\ SamePending(c, owner) /\ SameInFlight(c, owner)
  <2>1. Refreshed(c, owner, node.session, node.k, node.draining)
    BY <1>5, <1>6, SessionRefreshed DEF Registered
  <2>2. QED
    BY <2>1, Zenon DEF Refreshed
<1>8. 1 - node.k # c.current_k_bit
  BY <1>1, <1>7 DEF KBits, CurrentIs
<1>9. /\ DOMAIN owner' = OwnerFields
      /\ SameCurrent(owner', c) /\ SamePrevious(owner', c)
      /\ owner'.pending_open = s /\ owner'.pending_authority = s
      /\ owner'.pending_k_bit = 1 - node.k
      /\ owner'.pending_seal = IF c.protocol = "Fsp" THEN s ELSE NoSession
      /\ owner'.pending_replay_window = EmptyWindow
      /\ owner'.pending_receive_epoch_instance = c.pending_receive_epoch_instance + 1
      /\ owner'.pending_replay_counters =
            {x \in c.pending_replay_counters : x[1][1] # "Pending"}
  <2>1. Completed(owner', c, 1 - node.k, s)
    BY <1>4, <1>7, <1>8, PendingInstalled
  <2>2. QED
    BY <2>1, Zenon DEF Completed
<1>10. s = world.sessions + 1 /\ s # 0
  BY <1>1 DEF s
<1>11. CurrentIs(owner', node.generation, node.session, node.k, node.draining)
  BY <1>1, <1>7, <1>9, SMTT(20), SMTT(30) DEF SameCurrent, CurrentIs
<1>12. QED
  BY <1>1, <1>2, <1>3, <1>7, <1>9, <1>10, <1>11
     DEF SyncRepends, SameCurrent, SamePrevious, NoPrevious, SameInFlight, NoSession

\* install_session with the next generation, whatever was done to the pending epoch first.
LEMMA InstallMoves ==
    ASSUME Registered, NEW o, DOMAIN o = OwnerFields,
           SameCurrent(o, owner), SameInFlight(o, owner),
           o.pending_authority = owner.pending_authority,
           o.pending_replay_window = owner.pending_replay_window,
           owner' = install_session(o, ConfigOf(node')),
           DOMAIN node' = NodeFields, node'.pending = 0, node'.generation = node.generation + 1,
           node'.k \in KBits, node'.draining \in KBits \cup {NoBit},
           MoreSessions(node'.session),
           \/ node'.session = node.pending /\ node.pending # 0
           \/ node'.session = world.sessions + 1 /\ world'.sessions = node'.session,
           world.protocol = "Fsp" =>
              /\ node'.session = node.pending => node'.k = 1 - node.k
              /\ node'.draining # NoBit => node'.draining = node.k /\ node'.k = 1 - node.k
    PROVE  SyncMoves
<1> DEFINE s == node'.session  d == node'.draining
           promoted == is_pending_session(o, s)
           w == [generation |-> o.generation,
                 promoted |-> IF promoted THEN o.pending_receive_epoch_instance ELSE NoInstance]
<1>1. owner.generation = node.generation /\ node.generation \in Nat
  BY Zenon DEF Registered, Before, NodeOK, Follows, CurrentIs
<1>2. node'.generation # o.generation
  BY <1>1 DEF SameCurrent
<1>3. owner' = install_session(o, [generation |-> node'.generation, session |-> s,
                                   k |-> node'.k, draining |-> d])
  BY DEF ConfigOf
<1>4. /\ DOMAIN owner' = OwnerFields /\ owner'.protocol = o.protocol
      /\ CurrentIs(owner', node'.generation, s, node'.k, d)
      /\ owner'.replay_window = IF promoted THEN o.pending_replay_window ELSE EmptyWindow
      /\ NoPending(owner')
      /\ owner'.pending_receive_epoch_instance = o.pending_receive_epoch_instance
      /\ IF d # NoBit /\ o.crypto_keys # NoSession
         THEN /\ owner'.previous_open = o.crypto_keys
              /\ owner'.previous_replay_window = o.replay_window
              /\ owner'.draining_generation = w
              /\ owner'.pending_replay_counters =
                    RemappedReservations(w, o.pending_replay_counters)
         ELSE NoPrevious(owner') /\ owner'.pending_replay_counters = {}
  <2>1. Replaced(owner', o, node'.generation, s, node'.k, d)
    BY <1>2, <1>3, SessionInstalled
  <2>2. QED
    BY <2>1, Zenon DEF Replaced
<1>5. o.crypto_keys # NoSession
  BY Zenon DEF Registered, Before, Follows, CurrentIs, SameCurrent, NoSession
<1>6. promoted <=> s = owner.pending_open
  <2>1. owner.pending_authority = owner.pending_open /\ s # 0
    BY SMTT(20), SMTT(30) DEF Registered, Before, NodeOK, Follows
  <2>2. QED
    BY <2>1, SMTT(20), SMTT(30) DEF is_pending_session, NoSession
<1> HIDE DEF promoted
<1>7. w = [generation |-> owner.generation,
           promoted |-> IF s = owner.pending_open
                        THEN owner.pending_receive_epoch_instance ELSE NoInstance]
  BY <1>6 DEF SameCurrent, SameInFlight
<1> HIDE DEF w
<1>8. QED
  BY <1>4, <1>5, <1>6, <1>7 DEF SyncMoves, SameCurrent, SameInFlight

\* What cutover and promotion make of the node's entry.
LEMMA PromotedNode ==
    ASSUME Registered, node.pending # 0, NEW k \in KBits, node' = Promoted(k), world' = world,
           world.protocol = "Fsp" => k = 1 - node.k
    PROVE  /\ DOMAIN node' = NodeFields /\ node'.pending = 0
           /\ node'.generation = node.generation + 1
           /\ node'.k \in KBits /\ node'.draining \in KBits \cup {NoBit}
           /\ MoreSessions(node'.session) /\ node'.session = node.pending
           /\ world.protocol = "Fsp" =>
                 /\ node'.k = 1 - node.k /\ node'.draining = node.k
<1>1. node.k \in KBits /\ DOMAIN world = WorldFields
  BY DEF Registered, Before, NodeOK
<1>2. MoreSessions(node'.session)
  BY <1>1 DEF MoreSessions
<1>3. QED
  BY <1>1, <1>2 DEF Promoted, NodeFields, NoSession, KBits

\* The initiator's timer, or an authenticated FSP packet, promotes the pending session.
LEMMA CutoverMoves == ASSUME Registered, Cutover PROVE SyncMoves
<1>1. /\ node.pending # 0 /\ node' = Promoted(1 - node.k) /\ world' = world
      /\ owner' = install_session(owner, ConfigOf(node'))
  BY DEF Cutover, SyncTo, NoSession
<1>2. 1 - node.k \in KBits
  BY DEF Registered, Before, NodeOK, KBits
<1>3. /\ SameCurrent(owner, owner) /\ SameInFlight(owner, owner)
      /\ DOMAIN owner = OwnerFields
  BY DEF SameCurrent, SameInFlight, Registered
<1>4. QED
  BY <1>1, <1>2, <1>3, PromotedNode, InstallMoves

\* promote_dataplane_authenticated_pending_fmp_epoch, with the K bit of the packet.
LEMMA ConfirmPendingMoves == ASSUME Registered, ConfirmPending PROVE SyncMoves
<1>1. PICK k \in KBits : SyncTo(Promoted(k), confirm_pending_receive_epoch(owner, k))
  BY DEF ConfirmPending
<1> DEFINE o == confirm_pending_receive_epoch(owner, k)
<1>2. /\ node.pending # 0 /\ node' = Promoted(k) /\ world' = world
      /\ owner' = install_session(o, ConfigOf(node')) /\ world.protocol = "Fmp"
  BY <1>1 DEF ConfirmPending, SyncTo, NoSession
<1>3. /\ DOMAIN o = OwnerFields /\ SameCurrent(o, owner) /\ SameInFlight(o, owner)
      /\ o.pending_authority = owner.pending_authority
      /\ o.pending_replay_window = owner.pending_replay_window
  BY DEF confirm_pending_receive_epoch, SameCurrent, SameInFlight, Registered, OwnerFields
<1> HIDE DEF o
<1>4. QED
  BY <1>2, <1>3, PromotedNode, InstallMoves

\* A new session in place of the old one.
LEMMA ReplaceSessionMoves == ASSUME Registered, ReplaceSession PROVE SyncMoves
<1> DEFINE Bits == {NoBit} \cup (IF world.protocol = "Fmp" THEN {node.k} ELSE {})
<1>1. PICK d \in Bits :
         SyncTo([session |-> world.sessions + 1, pending |-> NoSession,
                 generation |-> node.generation + 1, k |-> 0, draining |-> d], owner)
  BY DEF ReplaceSession
<1>2. /\ DOMAIN node' = NodeFields /\ node'.pending = 0
      /\ node'.generation = node.generation + 1 /\ node'.k = 0 /\ node'.draining = d
      /\ node'.session = world.sessions + 1
      /\ owner' = install_session(owner, ConfigOf(node'))
  BY <1>1 DEF SyncTo, NodeFields, NoSession
<1>3. /\ DOMAIN world = WorldFields /\ world.sessions \in Nat /\ node.k \in KBits
      /\ node.pending \in 0 .. world.sessions
  BY DEF Registered, Before, NodeOK
<1>4. MoreSessions(node'.session) /\ world'.sessions = node'.session
  BY <1>2, <1>3 DEF ReplaceSession, MoreSessions, WorldFields
<1>5. /\ d \in KBits \cup {NoBit} /\ 0 \in KBits
      /\ world.protocol = "Fsp" => d = NoBit /\ node'.session # node.pending
  BY <1>2, <1>3 DEF KBits
<1>6. /\ SameCurrent(owner, owner) /\ SameInFlight(owner, owner)
      /\ DOMAIN owner = OwnerFields
  BY DEF SameCurrent, SameInFlight, Registered
<1>7. QED
  BY <1>2, <1>4, <1>5, <1>6, InstallMoves

\* Every call of the node on a registered owner keeps the invariant.
LEMMA CallsKeep ==
    ASSUME IInv,
           \/ Refresh \/ CompleteDrain \/ AbandonPending \/ InstallPending
           \/ Cutover \/ ConfirmPending \/ ReplaceSession
    PROVE  IInv'
<1>1. registered /\ registered' = registered
  BY DEF Refresh, CompleteDrain, AbandonPending, InstallPending, Cutover, ConfirmPending,
         ReplaceSession
<1>2. Registered
  BY <1>1, RegisteredOwner
<1>3. Sync
  BY <1>2, RefreshStays, CompleteDrainStays, AbandonPendingRepends, InstallPendingRepends,
     CutoverMoves, ConfirmPendingMoves, ReplaceSessionMoves DEF Sync
<1>4. /\ slots' = slots /\ lost' = lost /\ deliveries' = deliveries
      /\ send_counter' = send_counter /\ sealed' = sealed
  BY DEF Refresh, CompleteDrain, AbandonPending, InstallPending, Cutover, ConfirmPending,
         ReplaceSession
<1>5. contexts' = contexts \cup ContextsOf(owner')
  BY Zenon DEF Refresh, CompleteDrain, AbandonPending, InstallPending, Cutover, ConfirmPending,
         ReplaceSession, SyncTo
<1>6. registered'
  BY <1>1
<1>7. QED
  BY <1>1, <1>3, <1>4, <1>5, <1>6, SyncKeeps

-----------------------------------------------------------------------------
(* Packets are reserved.                                                     *)

\* The packets in flight are as they were while the epochs are.
LEMMA SlotsRead ==
    ASSUME SameEpochs(owner', owner), node' = node, world' = world, NEW S,
           SlotsOK(node, owner, world), S \subseteq SlotsInFlight
    PROVE  \A x \in S : IF x.open THEN OpenOK(x, owner', world') /\ KeyOK(x, node', owner')
                        ELSE SealOK(x, node', owner', world')
  BY SlotRead DEF SlotsOK

\* The deliveries are as they were, and so are the windows.
LEMMA WindowsRead ==
    ASSUME DeliveriesOK, SameCurrent(owner', owner), SamePrevious(owner', owner),
           SamePending(owner', owner), node' = node, world' = world,
           registered' = registered, deliveries' = deliveries
    PROVE  DeliveriesOK'
<1>1. \A s : Delivered(s)' = Delivered(s)
  BY DEF Delivered
<1>2. QED
  BY <1>1 DEF DeliveriesOK, AtMostOnce, WindowFollowsKey, SameCurrent, SamePrevious, SamePending

\* The owner follows the node while neither's epochs change.
LEMMA OwnerRead ==
    ASSUME OwnerOK, registered, DOMAIN owner' = OwnerFields, SameCurrent(owner', owner),
           SamePrevious(owner', owner), node' = node, world' = world, registered' = registered,
           owner'.pending_open = owner.pending_open, owner'.pending_seal = owner.pending_seal,
           owner'.pending_authority = owner.pending_authority,
           owner'.pending_k_bit = owner.pending_k_bit,
           owner'.pending_receive_epoch_instance = owner.pending_receive_epoch_instance,
           \E S : slots' \in Seq(S)
    PROVE  OwnerOK' /\ SameEpochs(owner', owner)
<1>1. SameEpochs(owner', owner)
  BY DEF SameCurrent, SamePrevious, SameEpochs
<1>2. Follows(node', owner')
  BY DEF OwnerOK, Follows, CurrentIs, SameCurrent
<1>3. Drains(node', owner', world')
  BY DEF OwnerOK, Drains, SameCurrent, SamePrevious
<1>4. QED
  BY <1>1, <1>2, <1>3 DEF OwnerOK, SameCurrent

\* receive_epoch names an epoch that has a key.
LEMMA EpochOfPacket ==
    ASSUME NEW packet, NEW routed
    PROVE  LET e == receive_epoch(owner, packet, routed)
           IN  /\ e \in ReceiveEpochs
               /\ e = "Previous" => owner.previous_open # 0
               /\ e = "Pending" => owner.pending_open # 0
  BY DEF receive_epoch, uses_previous, uses_pending, ReceiveEpochs, NoSession

\* Admitting a packet to be opened: whatever session sealed it and whatever its tag and K bit
\* say, its slot has the key of a live epoch and a reservation of its own.
LEMMA ReserveKeeps ==
    ASSUME IInv, NEW s \in 1 .. world.sessions, NEW c \in 0 .. world.counters,
           NEW tag \in tags, NEW k \in KBits, Reserve(s, c, tag, k)
    PROVE  IInv'
<1> DEFINE packet == [counter |-> c, generation |-> tag.generation, epoch |-> tag.epoch, k |-> k]
           routed == routed_epoch(owner, packet)
           epoch == receive_epoch(owner, packet, routed[1])
           id == epoch_identity(owner, epoch)
           bit == IF world.protocol = "Fmp" /\ epoch = "Pending" THEN k ELSE 0
           e == [open |-> TRUE, session |-> s, counter |-> c, k |-> bit,
                 generation |-> owner.generation, receive_epoch |-> id,
                 key |-> open_key(owner, epoch)]
<1>1. /\ registered /\ <<id, c>> \notin owner.pending_replay_counters
      /\ owner' = [owner EXCEPT !.pending_replay_counters = @ \cup {<<id, c>>}]
      /\ slots' = Append(slots, e)
      /\ node' = node /\ world' = world /\ registered' = registered /\ contexts' = contexts
      /\ lost' = lost /\ deliveries' = deliveries
      /\ send_counter' = send_counter /\ sealed' = sealed
  BY Zenon DEF Reserve, CanReserve
<1>2. /\ epoch \in ReceiveEpochs /\ (epoch = "Previous" => owner.previous_open # 0)
      /\ (epoch = "Pending" => owner.pending_open # 0)
  BY EpochOfPacket
<1>3. id = <<epoch, IF epoch = "Pending" THEN owner.pending_receive_epoch_instance ELSE 0>>
  BY DEF epoch_identity
<1> HIDE DEF epoch
<1>4. /\ e.open /\ e.session = s /\ e.counter = c /\ e.generation = owner.generation
      /\ e.receive_epoch = id /\ e.key = open_key(owner, epoch)
  OBVIOUS
<1> HIDE DEF id, e
<1>5. Registered /\ OwnerOK /\ CountersOK /\ ReservationsOK /\ DeliveriesOK
      /\ SlotsOK(node, owner, world)
  BY <1>1, RegisteredOwner DEF IInv, SlotsOK
<1>6. /\ DOMAIN owner' = OwnerFields /\ SameCurrent(owner', owner)
      /\ SamePrevious(owner', owner) /\ SamePending(owner', owner)
      /\ owner'.pending_receive_epoch_instance = owner.pending_receive_epoch_instance
      /\ owner'.pending_replay_counters = owner.pending_replay_counters \cup {<<id, c>>}
  BY <1>1, <1>5
     DEF Registered, SameCurrent, SamePrevious, SamePending, OwnerFields
<1>7. (\E S : slots \in Seq(S)) /\ (\E S : slots' \in Seq(S))
      /\ SlotsInFlight' = SlotsInFlight \cup {e}
  BY <1>1, <1>5, SlotAppended DEF OwnerOK
<1>8. OwnerOK' /\ SameEpochs(owner', owner)
  BY <1>1, <1>5, <1>6, <1>7, OwnerRead DEF SamePending
<1>9. identity_now(owner, e) = id /\ Reserved(e, owner) = <<id, c>>
  BY <1>4 DEF identity_now, Reserved
<1>10. Live(id, owner)
  BY <1>2, <1>3 DEF Live, ReceiveEpochs
<1>11. OpenOK(e, owner, world)
  <2>1. s \in Sessions /\ c \in Counters
    BY <1>5, OwnerAssumption, RingAssumption DEF Registered, Before, NodeOK, Sessions, Counters
  <2>2. open_key(owner, epoch) \in 1 .. world.sessions
    <3>1. owner.crypto_keys \in 1 .. world.sessions
      BY <1>5 DEF Registered, Before, NodeOK, Follows, CurrentIs
    <3>2. owner.previous_open # 0 => owner.previous_open \in 1 .. world.sessions
      BY <1>5 DEF Registered, Before, NodeOK, Follows, CurrentIs, Drains
    <3>3. owner.pending_open # 0 => owner.pending_open \in 1 .. world.sessions
      BY <1>5 DEF Registered, Before, NodeOK, Follows, CurrentIs
    <3>4. QED
      BY <1>2, <3>1, <3>2, <3>3, Zenon, ZenonT(30) DEF open_key, ReceiveEpochs
  <2>3. owner.generation \in 1 .. owner.generation
    BY <1>5 DEF Registered, Before, NodeOK, Follows, CurrentIs
  <2>4. Identity(id, owner)
    <3>1. owner.pending_receive_epoch_instance \in 0 .. owner.pending_receive_epoch_instance
      BY <1>5 DEF Registered, Before, Follows
    <3>2. QED
      BY <1>2, <1>3, <3>1 DEF Identity, ReceiveEpochs
  <2>5. QED
    BY <1>4, <2>1, <2>2, <2>3, <2>4 DEF OpenOK
<1>12. KeyOK(e, node, owner)
  <2>1. id[1] = epoch
    BY <1>3
  <2>2. QED
    BY <1>4, <1>9, <1>10, <2>1 DEF KeyOK
<1>13. \A x \in SlotsInFlight' :
          IF x.open THEN OpenOK(x, owner', world') /\ KeyOK(x, node', owner')
          ELSE SealOK(x, node', owner', world')
  <2>1. OpenOK(e, owner', world') /\ KeyOK(e, node', owner')
    BY <1>1, <1>8, <1>11, <1>12, SlotRead
  <2>2. QED
    BY <1>1, <1>4, <1>5, <1>7, <1>8, <2>1, SlotsRead, Zenon
<1>14. ReservationsOK'
  BY <1>1, <1>4, <1>5, <1>6, <1>7, <1>8, <1>9, <1>10, <1>11, ReservationAdded, Zenon DEF OpenOK
<1>15. DeliveriesOK'
  BY <1>1, <1>5, <1>6, WindowsRead
<1>16. CountersOK'
  BY <1>1, <1>5 DEF CountersOK
<1>17. QED
  BY <1>1, <1>8, <1>13, <1>14, <1>15, <1>16, Zenon DEF IInv

\* Key, authority and header of an outbound packet are of one session.
OneSession(p, a, key) ==
    /\ key # 0 => key = a
    /\ a \in 0 .. world.sessions /\ key \in 0 .. world.sessions
    /\ world.protocol = "Fmp" /\ key # 0 => p.receiver_idx = key
    /\ world.protocol = "Fsp" /\ key # 0 =>
          /\ key = node.session => p.k = node.k
          /\ key = node.pending => p.k = 1 - node.k
          /\ key # owner.previous_open

\* refresh of a send context at the time of sealing (reserve_outbound): however old the
\* context, what is sealed is of one session.
LEMMA OutboundChoice ==
    ASSUME Registered, NEW x, ContextOK(x, node, world)
    PROVE  LET p == current_headers(owner, x)
           IN  OneSession(p, authority_for(owner, p.epoch), seal_key(owner, p.epoch))
<1> DEFINE p == current_headers(owner, x)
<1>1. /\ p.epoch = "Current" \/ (p.epoch = "Pending" /\ world.protocol = "Fsp")
      /\ p.epoch = "Current" => p.receiver_idx = node.session /\ p.k = node.k
      /\ p.epoch = "Pending" => p.k = 1 - node.k
  BY DEF Registered, Before, Follows, CurrentIs, ContextOK, current_headers
<1> HIDE DEF p
<1>2. CASE p.epoch = "Current"
  <2>1. authority_for(owner, p.epoch) = node.session /\ seal_key(owner, p.epoch) = node.session
    BY <1>2 DEF Registered, Before, Follows, CurrentIs, authority_for, seal_key
  <2>2. OneSession(p, node.session, node.session)
    BY <1>1, <1>2 DEF Registered, Before, NodeOK, Follows, Drains, OneSession
  <2>3. QED
    BY <2>1, <2>2 DEF p
<1>3. CASE p.epoch = "Pending"
  <2>1. authority_for(owner, p.epoch) = owner.pending_open
    BY <1>3 DEF Registered, Before, Follows, authority_for
  <2>2. seal_key(owner, p.epoch) = owner.pending_open
    BY <1>1, <1>3 DEF Registered, Before, Follows, seal_key
  <2>3. OneSession(p, owner.pending_open, owner.pending_open)
    BY <1>1, <1>3 DEF Registered, Before, NodeOK, Follows, Drains, OneSession
  <2>4. QED
    BY <2>1, <2>2, <2>3 DEF p
<1>4. QED
  BY <1>1, <1>2, <1>3

\* A counter that an authority draws has not sealed anything under its key.
LEMMA NonceDrawn ==
    ASSUME CountersOK, NEW a \in Sessions, NEW key, key # 0 => key = a,
           send_counter[a] < MaxSend,
           send_counter' = [send_counter EXCEPT ![a] = @ + 1],
           sealed' = IF key = 0 THEN sealed
                     ELSE [sealed EXCEPT ![key][send_counter[a]] = @ + 1]
    PROVE  CountersOK'
<1>1. /\ send_counter \in [Sessions -> Nat] /\ sealed \in [Sessions -> [0 .. MaxSend -> Nat]]
      /\ \A s \in Sessions, n \in 0 .. MaxSend :
             sealed[s][n] <= 1 /\ (n >= send_counter[s] => sealed[s][n] = 0)
  BY DEF CountersOK
<1>2. send_counter[a] \in 0 .. MaxSend /\ sealed[a][send_counter[a]] = 0
  BY <1>1, OwnerAssumption
<1>3. send_counter' \in [Sessions -> Nat]
  BY <1>1
<1>4. CASE key = 0
  <2>1. \A s \in Sessions : send_counter'[s] >= send_counter[s]
    BY <1>1
  <2>2. QED
    BY <1>1, <1>3, <1>4, <2>1 DEF CountersOK
<1>5. CASE key # 0
  <2> DEFINE n0 == send_counter[a]
  <2>1. sealed' = [sealed EXCEPT ![a] = [sealed[a] EXCEPT ![n0] = @ + 1]]
    BY <1>1, <1>2, <1>5, Zenon
  <2>2. /\ sealed' \in [Sessions -> [0 .. MaxSend -> Nat]]
    BY <1>1, <1>2, <2>1
  <2>3. ASSUME NEW s \in Sessions, NEW n \in 0 .. MaxSend
        PROVE  sealed'[s][n] <= 1 /\ (n >= send_counter'[s] => sealed'[s][n] = 0)
    <3>1. CASE s # a
      BY <1>1, <2>1, <3>1
    <3>2. CASE s = a /\ n # n0
      <4>1. sealed'[s][n] = sealed[a][n] /\ send_counter'[s] = n0 + 1
        BY <1>1, <2>1, <3>2
      <4>2. QED
        BY <1>1, <3>2, <4>1
    <3>3. CASE s = a /\ n = n0
      <4>1. sealed'[s][n] = sealed[a][n0] + 1 /\ send_counter'[s] = n0 + 1
        <5>1. sealed'[a] = [sealed[a] EXCEPT ![n0] = @ + 1] /\ send_counter'[a] = n0 + 1
          BY <1>1, <2>1, Zenon
        <5>2. sealed[a] \in [0 .. MaxSend -> Nat] /\ n0 \in 0 .. MaxSend
          BY <1>1, <1>2
        <5>3. QED
          BY <3>3, <5>1, <5>2, Zenon
      <4>2. QED
        BY <1>1, <1>2, <3>3, <4>1
    <3>4. QED
      BY <3>1, <3>2, <3>3
  <2>4. QED
    BY <1>3, <2>2, <2>3 DEF CountersOK
<1>6. QED
  BY <1>4, <1>5

\* Admitting a packet to be sealed keeps the invariant.
LEMMA ReserveOutboundKeeps ==
    ASSUME IInv, NEW x \in contexts, ReserveOutbound(x)
    PROVE  IInv'
<1> DEFINE p == current_headers(owner, x)
           a == authority_for(owner, p.epoch)
           key == seal_key(owner, p.epoch)
           e == [open |-> FALSE, session |-> a, key |-> key, counter |-> send_counter[a],
                 k |-> p.k, generation |-> owner.generation, receiver_idx |-> p.receiver_idx]
<1>1. /\ registered /\ a # 0 /\ send_counter[a] < world.sends
      /\ send_counter' = [send_counter EXCEPT ![a] = @ + 1]
      /\ sealed' = IF key = 0 THEN sealed
                   ELSE [sealed EXCEPT ![key][send_counter[a]] = @ + 1]
      /\ slots' = Append(slots, e)
      /\ node' = node /\ world' = world /\ registered' = registered /\ owner' = owner
      /\ contexts' = contexts /\ lost' = lost /\ deliveries' = deliveries
  BY Zenon DEF ReserveOutbound, CanReserve, NoSession
<1>2. Registered /\ OwnerOK /\ CountersOK /\ ReservationsOK /\ DeliveriesOK
      /\ SlotsOK(node, owner, world) /\ ContextOK(x, node, world) /\ NodeOK(node, world)
      /\ \A c \in contexts : ContextOK(c, node, world)
  BY <1>1, RegisteredOwner DEF IInv, SlotsOK
<1>3. OneSession(p, a, key)
  BY <1>2, OutboundChoice
<1> HIDE DEF p, a, key
<1>4. e.open = FALSE /\ e.key = key /\ e.k = p.k /\ e.receiver_idx = p.receiver_idx
  OBVIOUS
<1> HIDE DEF e
<1>5. SealOK(e, node, owner, world)
  BY <1>3, <1>4 DEF SealOK, OneSession
<1>6. (\E S : slots \in Seq(S)) /\ (\E S : slots' \in Seq(S))
      /\ SlotsInFlight' = SlotsInFlight \cup {e}
  BY <1>1, <1>2, SlotAppended DEF OwnerOK
<1>7. \A y \in SlotsInFlight' :
          IF y.open THEN OpenOK(y, owner', world') /\ KeyOK(y, node', owner')
          ELSE SealOK(y, node', owner', world')
  BY <1>1, <1>2, <1>4, <1>5, <1>6 DEF SlotsOK
<1>8. OwnerOK'
  BY <1>1, <1>2, <1>6 DEF OwnerOK
<1>9. CountersOK'
  <2>1. a \in Sessions /\ (key # 0 => key = a)
    BY <1>1, <1>2, <1>3, OwnerAssumption DEF NodeOK, Sessions, OneSession
  <2>2. send_counter[a] < MaxSend
    BY <1>1, <1>2, <2>1, OwnerAssumption DEF NodeOK, CountersOK
  <2>3. QED
    BY <1>1, <1>2, <2>1, <2>2, NonceDrawn, Zenon
<1>10. ReservationsOK'
  BY <1>1, <1>2, <1>4, <1>6, SealAdded
<1>11. DeliveriesOK'
  BY <1>1, <1>2, WindowsRead DEF SameCurrent, SamePrevious, SamePending
<1>12. QED
  BY <1>1, <1>2, <1>7, <1>8, <1>9, <1>10, <1>11 DEF IInv
=============================================================================
