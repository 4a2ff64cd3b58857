----------------------- MODULE DataplaneOwner_proofs ------------------------
(***************************************************************************)
(* Completion, registration and retirement keep the invariant too; what     *)
(* follows for every behaviour of an owner.                                 *)
(***************************************************************************)
EXTENDS DataplaneOwner_steps

\* The provers for a step that names none, in the order in which they are tried.
USE SMTT(10), Zenon, SMTT(30)

-----------------------------------------------------------------------------
(* Packets are completed and applied.                                        *)

\* A live epoch has a session, a window of its own and its memory.
LEMMA LiveEpoch ==
    ASSUME Registered, DeliveriesOK, NEW id, Live(id, owner)
    PROVE  LET e == id[1]
               w == replay_window_for_epoch(owner, e)
           IN  /\ e \in ReceiveEpochs
               /\ open_key(owner, e) \in 1 .. world.sessions
               /\ open_key(owner, e) \in {owner.crypto_keys, owner.previous_open, node.pending}
               /\ owner.pending_open = 0 => open_key(owner, e) # node.pending
               /\ w \in WindowType /\ Remembers(w, Delivered(open_key(owner, e)))
<1>1. CASE id = <<"Current", 0>>
  <2>1. /\ id[1] = "Current" /\ owner.crypto_keys = node.session /\ node.session # 0
        /\ node.session \in 1 .. world.sessions /\ node.session # node.pending
    BY <1>1 DEF Registered, Before, NodeOK, Follows, CurrentIs
  <2>2. QED
    BY <2>1 DEF DeliveriesOK, WindowFollowsKey, open_key, replay_window_for_epoch,
                ReceiveEpochs, NoSession
<1>2. CASE id = <<"Previous", 0>> /\ owner.previous_open # 0
  <2>1. /\ id[1] = "Previous" /\ owner.previous_open \in 1 .. world.sessions
        /\ owner.previous_open # node.pending
    BY <1>2 DEF Registered, Before, NodeOK, Drains
  <2>2. QED
    BY <1>2, <2>1 DEF DeliveriesOK, WindowFollowsKey, open_key, replay_window_for_epoch,
                      ReceiveEpochs, NoSession
<1>3. CASE id = <<"Pending", owner.pending_receive_epoch_instance>> /\ owner.pending_open # 0
  <2>1. /\ id[1] = "Pending" /\ owner.pending_open \in 1 .. world.sessions
        /\ owner.pending_open = node.pending
    BY <1>3 DEF Registered, Before, NodeOK, Follows
  <2>2. QED
    BY <1>3, <2>1 DEF DeliveriesOK, WindowFollowsKey, open_key, replay_window_for_epoch,
                      ReceiveEpochs, NoSession
<1>4. QED
  BY <1>1, <1>2, <1>3 DEF Live

\* The packet is handed up where its window takes it.
Accepts(e, key, c) ==
    LET result == AcceptResult(replay_window_for_epoch(owner, e), c)
    IN  /\ owner'.replay_window = IF e = "Current" THEN result.window ELSE owner.replay_window
        /\ owner'.previous_replay_window =
              IF e = "Previous" THEN result.window ELSE owner.previous_replay_window
        /\ owner'.pending_replay_window =
              IF e = "Pending" THEN result.window ELSE owner.pending_replay_window
        /\ deliveries' = IF result.ok THEN [deliveries EXCEPT ![key][c] = @ + 1] ELSE deliveries

\* Then the windows go on remembering what was handed up, each for its own key, and nothing
\* is handed up twice.
LEMMA DeliveryAccepted ==
    ASSUME Registered, DeliveriesOK, NEW id, Live(id, owner), NEW c \in Counters,
           NEW key, key = open_key(owner, id[1]), Accepts(id[1], key, c),
           SameEpochs(owner', owner), node' = node, world' = world, registered' = registered
    PROVE  DeliveriesOK'
<1> DEFINE e == id[1]
           w == replay_window_for_epoch(owner, e)
           result == AcceptResult(w, c)
           D(s) == Delivered(s)
           E(s) == Delivered(s)'
<1>1. /\ e \in ReceiveEpochs /\ key \in 1 .. world.sessions
      /\ owner.pending_open = 0 => key # node.pending
      /\ w \in WindowType /\ Remembers(w, D(key))
  BY LiveEpoch
<1>2. key \in Sessions
  BY <1>1, OwnerAssumption DEF Registered, Before, NodeOK, Sessions
<1>3. /\ result.ok \in BOOLEAN /\ (result.ok <=> FreshFor(D(key), c))
      /\ result.window \in WindowType
      /\ Remembers(result.window, IF result.ok THEN D(key) \cup {c} ELSE D(key))
  BY <1>1, AcceptRemembers
<1>4. /\ owner'.replay_window = IF e = "Current" THEN result.window ELSE owner.replay_window
      /\ owner'.previous_replay_window =
            IF e = "Previous" THEN result.window ELSE owner.previous_replay_window
      /\ owner'.pending_replay_window =
            IF e = "Pending" THEN result.window ELSE owner.pending_replay_window
      /\ deliveries' = IF result.ok THEN [deliveries EXCEPT ![key][c] = @ + 1] ELSE deliveries
  BY Zenon DEF Accepts
<1> HIDE DEF e, w, result
<1>5. /\ deliveries \in [Sessions -> [Counters -> Nat]]
      /\ \A s \in Sessions, d \in Counters : deliveries[s][d] <= 1
  BY DEF DeliveriesOK, AtMostOnce
<1>6. /\ deliveries' \in [Sessions -> [Counters -> Nat]]
      /\ \A s \in Sessions, d \in Counters : deliveries'[s][d] <= 1
      /\ E(key) = IF result.ok THEN D(key) \cup {c} ELSE D(key)
      /\ \A s \in Sessions : s # key => E(s) = D(s)
  <2>1. CASE ~ result.ok
    BY <1>4, <1>5, <2>1 DEF Delivered
  <2>2. CASE result.ok
    <3>1. deliveries[key][c] = 0
      BY <1>2, <1>3, <1>5, <2>2 DEF FreshFor, Delivered
    <3> DEFINE f == [deliveries[key] EXCEPT ![c] = @ + 1]
    <3>2. deliveries[key] \in [Counters -> Nat]
      BY <1>2, <1>5
    <3>3. f \in [Counters -> Nat] /\ f[c] = 1 /\ \A d \in Counters : d # c => f[d] = deliveries[key][d]
      BY <3>1, <3>2
    <3>4. deliveries' = [deliveries EXCEPT ![key] = f]
      BY <1>4, <2>2
    <3> HIDE DEF f
    <3>5. /\ deliveries' \in [Sessions -> [Counters -> Nat]] /\ deliveries'[key] = f
          /\ \A s \in Sessions : s # key => deliveries'[s] = deliveries[s]
      BY <1>2, <1>5, <3>3, <3>4
    <3>6. \A s \in Sessions, d \in Counters : deliveries'[s][d] <= 1
      BY <1>2, <1>5, <3>3, <3>5
    <3>7. \A s \in Sessions : s # key => E(s) = D(s)
      BY <3>5 DEF Delivered
    <3>8. E(key) = D(key) \cup {c}
      BY <1>2, <1>5, <3>3, <3>5 DEF Delivered
    <3>9. QED
      BY <2>2, <3>5, <3>6, <3>7, <3>8
  <2>3. QED
    BY <2>1, <2>2
<1>7. /\ \A s \in Sessions : s > world.sessions => D(s) = {}
      /\ node.pending # 0 /\ owner.pending_open = 0 => D(node.pending) = {}
      /\ owner.replay_window \in WindowType /\ owner.previous_replay_window \in WindowType
      /\ owner.pending_replay_window \in WindowType
      /\ owner.crypto_keys # 0 => Remembers(owner.replay_window, D(owner.crypto_keys))
      /\ owner.previous_open # 0 =>
            Remembers(owner.previous_replay_window, D(owner.previous_open))
      /\ owner.pending_open # 0 =>
            Remembers(owner.pending_replay_window, D(owner.pending_open))
  BY DEF DeliveriesOK, WindowFollowsKey, NoSession
<1>8. /\ owner.crypto_keys \in Sessions
      /\ owner.previous_open # 0 =>
            owner.previous_open \in Sessions /\ owner.previous_open # owner.crypto_keys
      /\ owner.pending_open # 0 =>
            /\ owner.pending_open \in Sessions /\ owner.pending_open # owner.crypto_keys
            /\ owner.pending_open # owner.previous_open
      /\ node.pending # 0 => node.pending \in Sessions
  BY OwnerAssumption DEF Registered, Before, NodeOK, Follows, CurrentIs, Drains, Sessions
<1>9. /\ e = "Current" => key = owner.crypto_keys
      /\ e = "Previous" => key = owner.previous_open
      /\ e = "Pending" => key = owner.pending_open
      /\ e = "Previous" => owner.previous_open # 0
      /\ e = "Pending" => owner.pending_open # 0
  BY DEF open_key, Live, e
<1>10. Remembers(result.window, E(key))
  BY <1>3, <1>6, SMTT(20), SMTT(30)
<1> HIDE DEF D, E
<1>11. /\ Remembers(owner'.replay_window, E(owner.crypto_keys))
       /\ owner'.replay_window \in WindowType
  BY <1>1, <1>3, <1>4, <1>6, <1>7, <1>8, <1>9, <1>10, OwnerAssumption, SMTT(20), SMTT(30) DEF Sessions, ReceiveEpochs
<1>12. /\ owner.previous_open # 0 =>
             Remembers(owner'.previous_replay_window, E(owner.previous_open))
       /\ owner'.previous_replay_window \in WindowType
  BY <1>1, <1>3, <1>4, <1>6, <1>7, <1>8, <1>9, <1>10, SMTT(20), SMTT(30) DEF ReceiveEpochs
<1>13. /\ owner.pending_open # 0 =>
             Remembers(owner'.pending_replay_window, E(owner.pending_open))
       /\ owner'.pending_replay_window \in WindowType
  BY <1>1, <1>3, <1>4, <1>6, <1>7, <1>8, <1>9, <1>10, SMTT(20), SMTT(30) DEF ReceiveEpochs
<1>14. /\ \A s \in Sessions : s > world.sessions => E(s) = {}
       /\ node.pending # 0 /\ owner.pending_open = 0 => E(node.pending) = {}
  <2>1. \A s \in Sessions : s > world.sessions => s # key
    BY <1>1, OwnerAssumption DEF Registered, Before, NodeOK, Sessions
  <2>2. QED
    BY <1>1, <1>6, <1>7, <1>8, <2>1
<1>15. WindowFollowsKey'
  <2>1. /\ owner'.crypto_keys = owner.crypto_keys /\ owner'.previous_open = owner.previous_open
        /\ owner'.pending_open = owner.pending_open
    BY DEF SameEpochs
  <2>2. QED
    BY <1>11, <1>12, <1>13, <2>1, Zenon DEF WindowFollowsKey, NoSession, E
<1>16. registered' /\ owner'.pending_open = owner.pending_open
  BY DEF Registered, SameEpochs
<1>17. AtMostOnce'
  BY <1>6 DEF AtMostOnce
<1>18. QED
  BY <1>6, <1>11, <1>12, <1>13, <1>14, <1>15, <1>16, <1>17, Zenon DEF DeliveriesOK, E

\* What complete_replay_reservation does to a slot that is not stale: it finds no epoch,
\* releases the reservation only, or asks the window of a live epoch.
Completes(h, authentic, q, ok) ==
    LET id == identity_now(owner, h)
        Freed == owner.pending_replay_counters \ {Reserved(h, owner)}
    IN  \/ id = NoEpoch /\ q = owner /\ ok = FALSE
        \/ /\ id # NoEpoch /\ q = [owner EXCEPT !.pending_replay_counters = Freed]
           /\ authentic => ok = FALSE
        \/ /\ authentic /\ id # NoEpoch /\ Live(id, owner)
           /\ DOMAIN q = OwnerFields /\ SameEpochs(q, owner)
           /\ q.protocol = owner.protocol
           /\ q.send_counter_authority = owner.send_counter_authority
           /\ q.send_headers = owner.send_headers /\ q.current_k_bit = owner.current_k_bit
           /\ q.previous_draining_k_bit = owner.previous_draining_k_bit
           /\ q.pending_seal = owner.pending_seal
           /\ q.pending_authority = owner.pending_authority
           /\ q.pending_k_bit = owner.pending_k_bit
           /\ q.pending_replay_counters = Freed
           /\ LET result == AcceptResult(replay_window_for_epoch(owner, id[1]), h.counter)
              IN  /\ ok = result.ok
                  /\ q.replay_window =
                        IF id[1] = "Current" THEN result.window ELSE owner.replay_window
                  /\ q.previous_replay_window =
                        IF id[1] = "Previous" THEN result.window ELSE owner.previous_replay_window
                  /\ q.pending_replay_window =
                        IF id[1] = "Pending" THEN result.window ELSE owner.pending_replay_window

\* complete_replay_reservation does one of these.
LEMMA Completion ==
    ASSUME Registered, NEW h, OpenOK(h, owner, world), NEW authentic \in BOOLEAN
    PROVE  LET r == complete_replay_reservation(owner, h, authentic)
           IN  Completes(h, authentic, r.owner, r.ok)
<1> DEFINE r == complete_replay_reservation(owner, h, authentic)
           id == identity_now(owner, h)
           entry == <<id, h.counter>>
           Freed == owner.pending_replay_counters \ {entry}
           released == [owner EXCEPT !.pending_replay_counters = Freed]
           result == AcceptResult(replay_window_for_epoch(owner, id[1]), h.counter)
           accepted == WithWindow(released, id[1], result.window)
<1>1. /\ Reserved(h, owner) = entry
      /\ released = Released(owner, entry, authentic)
  BY DEF Reserved, Released
<1>2. r = IF id = NoEpoch THEN [ok |-> FALSE, owner |-> owner]
          ELSE IF ~ authentic THEN [ok |-> TRUE, owner |-> released]
          ELSE IF id[1] = "Pending" /\ id[2] # owner.pending_receive_epoch_instance
          THEN [ok |-> FALSE, owner |-> released]
          ELSE IF entry \notin owner.pending_replay_counters \/ ~ has_window(owner, id[1])
          THEN [ok |-> FALSE, owner |-> released]
          ELSE [ok |-> result.ok,
                owner |-> IF /\ result.ok
                             /\ owner.protocol = "Fmp"
                             /\ id[1] = "Pending"
                             /\ owner.pending_authenticated_k_bit = NoBit
                          THEN [accepted EXCEPT !.pending_authenticated_k_bit = h.k]
                          ELSE accepted]
  BY <1>1, Zenon DEF complete_replay_reservation
<1>3. id = NoEpoch \/ Identity(id, owner)
  BY DEF OpenOK, identity_now, remap_draining_receive_epoch, Identity, NoEpoch
<1>4. /\ DOMAIN released = OwnerFields
      /\ SameCurrent(released, owner) /\ SamePrevious(released, owner)
      /\ SamePending(released, owner) /\ released.pending_replay_counters = Freed
      /\ released.pending_receive_epoch_instance = owner.pending_receive_epoch_instance
  BY DEF Registered, OwnerFields, SameCurrent, SamePrevious, SamePending
<1>5. CASE id = NoEpoch
  BY <1>2, <1>5 DEF Completes
<1>6. CASE id # NoEpoch /\ r.owner = released /\ (authentic => r.ok = FALSE)
  BY <1>1, <1>6 DEF Completes
<1>7. CASE /\ id # NoEpoch /\ authentic
           /\ ~ (id[1] = "Pending" /\ id[2] # owner.pending_receive_epoch_instance)
           /\ ~ (entry \notin owner.pending_replay_counters \/ ~ has_window(owner, id[1]))
  <2>1. Live(id, owner)
    BY <1>3, <1>7 DEF Identity, Live, has_window, open_key, NoSession
  <2>2. id[1] \in ReceiveEpochs
    BY <2>1 DEF Live, ReceiveEpochs
  <2> HIDE DEF released, result, id, entry, Freed
  <2>3. /\ DOMAIN accepted = OwnerFields
        /\ SameEpochs(accepted, owner) /\ accepted.protocol = owner.protocol
        /\ accepted.send_counter_authority = owner.send_counter_authority
        /\ accepted.send_headers = owner.send_headers
        /\ accepted.current_k_bit = owner.current_k_bit
        /\ accepted.previous_draining_k_bit = owner.previous_draining_k_bit
        /\ accepted.pending_seal = owner.pending_seal
        /\ accepted.pending_authority = owner.pending_authority
        /\ accepted.pending_k_bit = owner.pending_k_bit
        /\ accepted.pending_replay_counters = Freed
        /\ accepted.replay_window =
              IF id[1] = "Current" THEN result.window ELSE owner.replay_window
        /\ accepted.previous_replay_window =
              IF id[1] = "Previous" THEN result.window ELSE owner.previous_replay_window
        /\ accepted.pending_replay_window =
              IF id[1] = "Pending" THEN result.window ELSE owner.pending_replay_window
    BY <1>4, <2>2 DEF WithWindow, ReceiveEpochs, OwnerFields, SameCurrent, SamePrevious,
                      SamePending, SameEpochs
  <2> HIDE DEF accepted
  <2>4. r.ok = result.ok /\ r.owner \in {accepted, [accepted EXCEPT !.pending_authenticated_k_bit = h.k]}
    <3> DEFINE q == IF /\ result.ok
                       /\ owner.protocol = "Fmp"
                       /\ id[1] = "Pending"
                       /\ owner.pending_authenticated_k_bit = NoBit
                    THEN [accepted EXCEPT !.pending_authenticated_k_bit = h.k]
                    ELSE accepted
    <3>1. r = [ok |-> result.ok, owner |-> q]
      BY <1>2, <1>7, Zenon
    <3>2. q \in {accepted, [accepted EXCEPT !.pending_authenticated_k_bit = h.k]}
      BY Zenon
    <3> HIDE DEF q, r
    <3>3. QED
      BY <3>1, <3>2
  <2> HIDE DEF r
  <2>5. Completes(h, authentic, r.owner, r.ok)
    <3>1. CASE r.owner = accepted
      BY <1>1, <1>7, <2>1, <2>3, <2>4, <3>1 DEF Completes, id, entry, Freed, result
    <3>2. CASE r.owner = [accepted EXCEPT !.pending_authenticated_k_bit = h.k]
      BY <1>1, <1>7, <2>1, <2>3, <2>4, <3>2
         DEF Completes, id, entry, Freed, result, OwnerFields, SameEpochs
    <3>3. QED
      BY <2>4, <3>1, <3>2
  <2>6. QED
    BY <2>5 DEF r
<1> HIDE DEF id, entry, released, result, accepted
<1>8. \/ id = NoEpoch
      \/ id # NoEpoch /\ ~ authentic /\ r = [ok |-> TRUE, owner |-> released]
      \/ id # NoEpoch /\ r = [ok |-> FALSE, owner |-> released]
      \/ /\ id # NoEpoch /\ authentic
         /\ ~ (id[1] = "Pending" /\ id[2] # owner.pending_receive_epoch_instance)
         /\ ~ (entry \notin owner.pending_replay_counters \/ ~ has_window(owner, id[1]))
  BY <1>2, Zenon
<1> HIDE DEF r
<1>9. CASE id # NoEpoch /\ ~ authentic /\ r = [ok |-> TRUE, owner |-> released]
  BY <1>6, <1>9
<1>10. CASE id # NoEpoch /\ r = [ok |-> FALSE, owner |-> released]
  BY <1>6, <1>10
<1>11. QED
  BY <1>5, <1>7, <1>8, <1>9, <1>10, Zenon DEF r

\* A slot of one of the owner's two generations that goes by no epoch has a dead key.

-----------------------------------------------------------------------------
(* An owner comes and goes.                                                  *)

\* An owner that was just registered.
LEMMA OwnerIsNew ==
    ASSUME NEW p, NEW g, NEW k, NEW d
    PROVE  LET o == NewOwner(p, g, k, d)
           IN  /\ DOMAIN o = OwnerFields /\ o.protocol = p /\ o.generation = g
               /\ o.crypto_keys = 0 /\ o.replay_window = EmptyWindow
               /\ NoPrevious(o) /\ NoPending(o)
               /\ o.pending_receive_epoch_instance = 0 /\ o.pending_replay_counters = {}
  BY Zenon DEF NewOwner, OwnerFields, NoPrevious, NoPending, NoSession

\* Deliveries are counted from the registration on.
LEMMA NothingDelivered ==
    /\ NoDeliveries \in [Sessions -> [Counters -> Nat]]
    /\ deliveries = NoDeliveries => AtMostOnce /\ \A s \in Sessions : Delivered(s) = {}
  BY DEF NoDeliveries, AtMostOnce, Delivered

\* An owner without work has no reservations to account for.
Idle ==
    /\ SlotsInFlight = {} /\ \E S : slots \in Seq(S)
    /\ owner.pending_replay_counters = {} => ReservationsOK

\* So it is with an empty queue.
LEMMA NothingInFlight == slots = <<>> => Idle
<1> SUFFICES ASSUME slots = <<>> PROVE Idle
  OBVIOUS
<1>1. DOMAIN slots = {}
  OBVIOUS
<1>2. SlotsInFlight = {}
  BY <1>1 DEF SlotsInFlight
<1>3. slots \in Seq({})
  OBVIOUS
<1>4. owner.pending_replay_counters = {} => ReservationsOK
  BY <1>1, <1>2, Zenon DEF ReservationsOK
<1>5. QED
  BY <1>2, <1>3, <1>4 DEF Idle

\* With nothing delivered, empty windows remember what they should.
Unused ==
    /\ NodeOK(node, world) /\ deliveries = NoDeliveries
    /\ owner.replay_window = EmptyWindow /\ owner.previous_replay_window = EmptyWindow
    /\ owner.pending_replay_window = EmptyWindow
    /\ owner.crypto_keys \in 0 .. world.sessions /\ owner.previous_open = 0
    /\ owner.pending_open = 0

\* Such an owner's deliveries are as they should be.
LEMMA EmptyWindows == Unused => DeliveriesOK
<1> SUFFICES ASSUME Unused PROVE DeliveriesOK
  OBVIOUS
<1> USE DEF Unused
<1>1. \A s \in 1 .. world.sessions : s \in Sessions
  BY OwnerAssumption DEF NodeOK, Sessions
<1>2. /\ owner.crypto_keys # 0 => Delivered(owner.crypto_keys) = {}
      /\ node.pending # 0 => Delivered(node.pending) = {}
  BY <1>1, NothingDelivered DEF NodeOK
<1>3. WindowFollowsKey
  BY <1>2, EmptyRemembers DEF WindowFollowsKey, NoSession
<1>4. QED
  BY <1>2, <1>3, NothingDelivered, EmptyRemembers DEF DeliveriesOK

\* unregister_owner drops the work with the owner.
LEMMA UnregisterKeeps == ASSUME IInv, Unregister PROVE IInv'
<1> DEFINE o == NewOwner(world.protocol, 0, 0, NoBit)
<1>1. /\ registered' = FALSE /\ owner' = o /\ slots' = <<>> /\ deliveries' = NoDeliveries
      /\ node' = node /\ world' = world /\ contexts' = contexts
      /\ send_counter' = send_counter /\ sealed' = sealed
  BY DEF Unregister
<1>2. /\ DOMAIN o = OwnerFields /\ o.protocol = world.protocol
      /\ o.crypto_keys = 0 /\ o.replay_window = EmptyWindow
      /\ NoPrevious(o) /\ NoPending(o) /\ o.pending_replay_counters = {}
  BY OwnerIsNew
<1>3. NodeOK(node, world) /\ CountersOK /\ \A c \in contexts : ContextOK(c, node, world)
  BY DEF IInv
<1>4. /\ SlotsInFlight' = {} /\ (\E S : slots' \in Seq(S)) /\ ReservationsOK'
  <2>1. (slots = <<>> => Idle)'
    BY NothingInFlight, PTL
  <2>2. QED
    BY <1>1, <1>2, <2>1 DEF Idle
<1>5. OwnerOK'
  BY <1>1, <1>2, <1>4, Zenon DEF OwnerOK
<1>6. CountersOK'
  BY <1>1, <1>3 DEF CountersOK
<1>7. 0 \in 0 .. world.sessions
  BY <1>3 DEF NodeOK
<1>8. DeliveriesOK'
  <2>1. (Unused => DeliveriesOK)'
    BY EmptyWindows, PTL
  <2>2. Unused'
    BY <1>1, <1>2, <1>3, <1>7 DEF Unused, NoPrevious, NoPending, NoSession
  <2>3. QED
    BY <2>1, <2>2
<1>9. QED
  BY <1>1, <1>3, <1>4, <1>5, <1>6, <1>8 DEF IInv

\* A new owner is given the node's session, and not the pending one.
LEMMA RegisterKeeps == ASSUME IInv, Register PROVE IInv'
<1>1. /\ ~ registered /\ owner = NewOwner(world.protocol, 0, 0, NoBit)
      /\ slots = <<>> /\ deliveries = NoDeliveries
      /\ NodeOK(node, world) /\ CountersOK /\ \A c \in contexts : ContextOK(c, node, world)
  BY DEF IInv, OwnerOK, DeliveriesOK, Register
<1>2. PICK s \in {node.session, world.sessions + 1} \cap Sessions :
         LET new == s = world.sessions + 1
             n   == IF new THEN [session |-> s, pending |-> NoSession,
                                 generation |-> node.generation + 1,
                                 k |-> 0, draining |-> NoBit]
                           ELSE node
         IN  /\ world' = IF new THEN [world EXCEPT !.sessions = s] ELSE world
             /\ SyncTo(n, NewOwner(world.protocol, n.generation, n.k, n.draining))
  BY DEF Register
<1> DEFINE new == s = world.sessions + 1
           o == NewOwner(world.protocol, node'.generation, node'.k, node'.draining)
<1>3. /\ node' = IF new THEN [session |-> s, pending |-> NoSession,
                              generation |-> node.generation + 1,
                              k |-> 0, draining |-> NoBit]
                 ELSE node
      /\ world' = IF new THEN [world EXCEPT !.sessions = s] ELSE world
      /\ owner' = install_session(o, ConfigOf(node'))
      /\ contexts' = contexts \cup ContextsOf(owner')
  BY <1>2, Zenon DEF SyncTo
<1>4. /\ registered' = TRUE /\ slots' = slots /\ deliveries' = deliveries
      /\ send_counter' = send_counter /\ sealed' = sealed
  BY DEF Register
<1>5. /\ NodeOK(node', world') /\ node'.session # 0 /\ world'.protocol = world.protocol
      /\ node'.generation >= node.generation
      /\ node'.generation = node.generation => node' = node
  <2>1. CASE new
    <3>1. /\ DOMAIN world' = WorldFields /\ world'.protocol = world.protocol
          /\ world'.counters = world.counters /\ world'.sends = world.sends
          /\ world'.sessions = s
      BY <1>1, <1>3, <2>1 DEF NodeOK, WorldFields
    <3>2. /\ DOMAIN node' = NodeFields /\ node'.session = s /\ node'.pending = 0
          /\ node'.generation = node.generation + 1 /\ node'.k = 0 /\ node'.draining = NoBit
      BY <1>3, <2>1 DEF NodeFields, NoSession
    <3>3. QED
      BY <1>1, <1>2, <2>1, <3>1, <3>2, OwnerAssumption, SMTT(20), SMTT(30) DEF NodeOK, Sessions, KBits
  <2>2. CASE ~ new
    BY <1>1, <1>2, <1>3, <2>2, OwnerAssumption DEF NodeOK, Sessions
  <2>3. QED
    BY <2>1, <2>2
<1>6. /\ DOMAIN o = OwnerFields /\ o.protocol = world.protocol
      /\ o.generation = node'.generation
      /\ o.crypto_keys = 0 /\ o.replay_window = EmptyWindow
      /\ NoPrevious(o) /\ NoPending(o)
      /\ o.pending_receive_epoch_instance = 0 /\ o.pending_replay_counters = {}
  BY OwnerIsNew
<1> HIDE DEF o, new
<1>7. owner' = install_session(o, [generation |-> o.generation, session |-> node'.session,
                                   k |-> node'.k, draining |-> node'.draining])
  BY <1>3, <1>6 DEF ConfigOf
<1>8. o.pending_k_bit # node'.k
  BY <1>5, <1>6 DEF NoPending, NodeOK, KBits, NoBit
<1>9. /\ DOMAIN owner' = OwnerFields /\ owner'.protocol = world.protocol
      /\ CurrentIs(owner', node'.generation, node'.session, node'.k, node'.draining)
      /\ owner'.replay_window = EmptyWindow /\ NoPrevious(owner') /\ NoPending(owner')
      /\ owner'.pending_receive_epoch_instance = 0 /\ owner'.pending_replay_counters = {}
  <2>1. /\ DOMAIN owner' = OwnerFields /\ owner'.protocol = o.protocol
        /\ CurrentIs(owner', o.generation, node'.session, node'.k, node'.draining)
        /\ owner'.replay_window = o.replay_window
        /\ IF node'.draining = NoBit THEN NoPrevious(owner') ELSE SamePrevious(owner', o)
        /\ SamePending(owner', o) /\ SameInFlight(owner', o)
    <3>1. Refreshed(owner', o, node'.session, node'.k, node'.draining)
      BY <1>6, <1>7, <1>8, SessionRefreshed
    <3>2. QED
      BY <3>1, Zenon DEF Refreshed
  <2>2. QED
    BY <1>6, <2>1 DEF NoPrevious, SamePrevious, NoPending, SamePending, SameInFlight
<1>10. /\ SlotsInFlight' = {} /\ (\E S : slots' \in Seq(S)) /\ ReservationsOK'
  <2>1. (slots = <<>> => Idle)'
    BY NothingInFlight, PTL
  <2>2. QED
    BY <1>1, <1>4, <1>9, <2>1, Zenon DEF Idle
<1>11. Follows(node', owner') /\ Drains(node', owner', world')
  BY <1>5, <1>9 DEF Follows, Drains, NoPrevious, NoPending, NoSession
<1>12. OwnerOK'
  BY <1>4, <1>5, <1>9, <1>10, <1>11 DEF OwnerOK
<1>13. CountersOK'
  BY <1>1, <1>4 DEF CountersOK
<1>14. \A c \in contexts' : ContextOK(c, node', world')
  <2>1. ASSUME NEW c \in ContextsOf(owner') PROVE ContextOK(c, node', world')
    BY <1>5, <1>9, <2>1 DEF ContextsOf, ContextOK, NodeOK, CurrentIs, NoPending
  <2>2. ASSUME NEW c \in contexts PROVE ContextOK(c, node', world')
    BY <1>1, <1>5, <2>2 DEF ContextOK, NodeOK
  <2>3. QED
    BY <1>3, <2>1, <2>2
<1>15. DeliveriesOK'
  <2>1. owner'.crypto_keys \in 0 .. world'.sessions
    BY <1>5, <1>9 DEF CurrentIs, NodeOK
  <2>2. deliveries' = NoDeliveries
    BY <1>1, <1>4
  <2>3. (Unused => DeliveriesOK)'
    BY EmptyWindows, PTL
  <2>4. QED
    BY <1>5, <1>9, <2>1, <2>2, <2>3 DEF Unused, NoPrevious, NoPending, NoSession
<1>16. QED
  BY <1>5, <1>10, <1>12, <1>13, <1>14, <1>15 DEF IInv

\* A packet that goes by no epoch has a key that no live epoch has.
LEMMA NoEpochDeadKey ==
    ASSUME Registered, DeliveriesOK, NEW h, KeyOK(h, node, owner),
           identity_now(owner, h) = NoEpoch,
           h.generation = owner.generation \/ retains_draining_generation(owner, h.generation),
           NEW j, Live(j, owner)
    PROVE  h.key # open_key(owner, j[1])
<1>1. ~ Live(NoEpoch, owner)
  BY DEF Live, NoEpoch
<1>2. h.key # owner.crypto_keys /\ h.key # owner.previous_open /\ h.key # node.pending
  BY <1>1 DEF KeyOK
<1>3. open_key(owner, j[1]) \in {owner.crypto_keys, owner.previous_open, node.pending}
  BY LiveEpoch
<1>4. QED
  BY <1>2, <1>3

\* Retiring the packet at the head, sealed or opened, authentic or not, and under an owner
\* that may have changed its epochs any number of times since.
LEMMA RetireKeeps == ASSUME IInv, Retire PROVE IInv'
<1> DEFINE h == Head(slots)
           stale == /\ h.generation # owner.generation
                    /\ ~ retains_draining_generation(owner, h.generation)
           result == complete_replay_reservation(owner, h, Authentic(h))
<1>1. /\ registered /\ slots # <<>> /\ slots' = Tail(slots)
      /\ IF stale \/ ~ h.open
         THEN /\ owner' = owner /\ deliveries' = deliveries
              /\ lost' = IF h.open THEN lost \cup {<<h.key, h.counter>>} ELSE lost
         ELSE /\ owner' = result.owner /\ lost' = lost
              /\ deliveries' = IF Authentic(h) /\ result.ok
                               THEN [deliveries EXCEPT ![h.session][h.counter] = @ + 1]
                               ELSE deliveries
      /\ node' = node /\ world' = world /\ registered' = registered /\ contexts' = contexts
      /\ send_counter' = send_counter /\ sealed' = sealed
  BY DEF Retire
<1>2. Registered /\ OwnerOK /\ CountersOK /\ ReservationsOK /\ DeliveriesOK
      /\ SlotsOK(node, owner, world) /\ NodeOK(node, world)
      /\ (\E S : slots \in Seq(S)) /\ (\A c \in contexts : ContextOK(c, node, world))
  BY <1>1, RegisteredOwner DEF IInv, SlotsOK, OwnerOK
<1>3. (\E S : slots' \in Seq(S)) /\ SlotsInFlight = SlotsInFlight' \cup {h}
  BY <1>1, <1>2, HeadRetired
<1>4. h.open => OpenOK(h, owner, world) /\ KeyOK(h, node, owner)
  BY <1>2, <1>3 DEF SlotsOK
<1> HIDE DEF h
\* The rest follows from these.
<1>5. SUFFICES /\ OwnerOK' /\ SameEpochs(owner', owner) /\ lost \subseteq lost'
               /\ Unreserved(h) /\ DeliveriesOK'
  <2>1. \A x \in SlotsInFlight' :
            IF x.open THEN OpenOK(x, owner', world') /\ KeyOK(x, node', owner')
            ELSE SealOK(x, node', owner', world')
    BY <1>1, <1>2, <1>3, <1>5, SlotsRead, SMTT(20), SMTT(30)
  <2>2. ReservationsOK'
    BY <1>1, <1>2, <1>5, ReservationRetired DEF h
  <2>3. CountersOK'
    BY <1>1, <1>2 DEF CountersOK
  <2>4. QED
    BY <1>1, <1>2, <1>5, <2>1, <2>2, <2>3, SMTT(20), SMTT(30) DEF IInv
<1>6. ASSUME owner' = owner, deliveries' = deliveries, lost \subseteq lost', Unreserved(h)
      PROVE  /\ OwnerOK' /\ SameEpochs(owner', owner) /\ lost \subseteq lost'
             /\ Unreserved(h) /\ DeliveriesOK'
  <2>1. OwnerOK' /\ SameEpochs(owner', owner)
    BY <1>1, <1>2, <1>3, <1>6 DEF OwnerOK, SameEpochs
  <2>2. DeliveriesOK'
    BY <1>1, <1>2, <1>6, WindowsRead DEF SameCurrent, SamePrevious, SamePending
  <2>3. QED
    BY <1>6, <2>1, <2>2
<1>7. CASE stale \/ ~ h.open
  <2>1. owner' = owner /\ deliveries' = deliveries /\ lost \subseteq lost'
        /\ (h.open => <<h.key, h.counter>> \in lost')
    BY <1>1, <1>7
  <2>2. h.open => identity_now(owner, h) = NoEpoch
    BY <1>7 DEF identity_now
  <2>3. Unreserved(h)
    BY <2>1, <2>2 DEF Unreserved
  <2>4. QED
    BY <1>6, <2>1, <2>3
<1>8. CASE ~ stale /\ h.open
  <2>1. /\ owner' = result.owner /\ lost' = lost
        /\ deliveries' = IF Authentic(h) /\ result.ok
                         THEN [deliveries EXCEPT ![h.session][h.counter] = @ + 1]
                         ELSE deliveries
    BY <1>1, <1>8
  <2>2. Completes(h, Authentic(h), owner', result.ok)
    <3>1. Authentic(h) \in BOOLEAN
      BY DEF Authentic
    <3>2. QED
      BY <1>2, <1>4, <1>8, <2>1, <3>1, Completion
  <2> DEFINE id == identity_now(owner, h)
             Freed == owner.pending_replay_counters \ {Reserved(h, owner)}
             ok == result.ok
  <2> HIDE DEF result
  <2>3. CASE id = NoEpoch /\ owner' = owner /\ ok = FALSE
    <3>1. \A j : Live(j, owner) => h.key # open_key(owner, j[1])
      BY <1>2, <1>4, <1>8, <2>3, NoEpochDeadKey
    <3>2. Unreserved(h)
      BY <2>3, <3>1 DEF Unreserved
    <3>3. QED
      BY <1>6, <2>1, <2>3, <3>2
  <2>4. CASE /\ id # NoEpoch /\ owner' = [owner EXCEPT !.pending_replay_counters = Freed]
             /\ Authentic(h) => ok = FALSE
    <3>1. deliveries' = deliveries /\ lost \subseteq lost'
      BY <2>1, <2>4
    <3> HIDE DEF Freed
    <3>2. /\ DOMAIN owner' = OwnerFields
          /\ SameCurrent(owner', owner) /\ SamePrevious(owner', owner)
          /\ SamePending(owner', owner) /\ owner'.pending_replay_counters = Freed
          /\ owner'.pending_receive_epoch_instance = owner.pending_receive_epoch_instance
      BY <1>2, <2>4 DEF Registered, OwnerFields, SameCurrent, SamePrevious, SamePending
    <3>3. OwnerOK' /\ SameEpochs(owner', owner)
      BY <1>1, <1>2, <1>3, <3>2, OwnerRead DEF SamePending
    <3>4. Unreserved(h)
      BY <1>8, <2>4, <3>2 DEF Unreserved, Freed
    <3>5. DeliveriesOK'
      BY <1>1, <1>2, <3>1, <3>2, WindowsRead, SMTT(20), SMTT(30)
    <3>6. QED
      BY <3>1, <3>3, <3>4, <3>5
  <2>5. CASE /\ Authentic(h) /\ id # NoEpoch /\ Live(id, owner)
             /\ DOMAIN owner' = OwnerFields /\ SameEpochs(owner', owner)
             /\ owner'.protocol = owner.protocol
             /\ owner'.send_counter_authority = owner.send_counter_authority
             /\ owner'.send_headers = owner.send_headers
             /\ owner'.current_k_bit = owner.current_k_bit
             /\ owner'.previous_draining_k_bit = owner.previous_draining_k_bit
             /\ owner'.pending_seal = owner.pending_seal
             /\ owner'.pending_authority = owner.pending_authority
             /\ owner'.pending_k_bit = owner.pending_k_bit
             /\ owner'.pending_replay_counters = Freed
             /\ LET accept == AcceptResult(replay_window_for_epoch(owner, id[1]), h.counter)
                IN  /\ ok = accept.ok
                    /\ owner'.replay_window =
                          IF id[1] = "Current" THEN accept.window ELSE owner.replay_window
                    /\ owner'.previous_replay_window =
                          IF id[1] = "Previous" THEN accept.window
                          ELSE owner.previous_replay_window
                    /\ owner'.pending_replay_window =
                          IF id[1] = "Pending" THEN accept.window
                          ELSE owner.pending_replay_window
    <3>1. h.counter \in Counters /\ h.key = open_key(owner, id[1]) /\ h.session = h.key
      BY <1>4, <1>8, <2>5, SMTT(20), SMTT(30) DEF OpenOK, KeyOK, Authentic
    <3>2. Accepts(id[1], h.key, h.counter)
      BY <2>1, <2>5, <3>1, SMTT(20), SMTT(30) DEF Accepts
    <3>3. OwnerOK'
      <4>1. Follows(node', owner')
        BY <1>1, <1>2, <2>5, SMTT(20), SMTT(30) DEF Registered, Before, Follows, CurrentIs, SameEpochs
      <4>2. Drains(node', owner', world')
        BY <1>1, <1>2, <2>5, SMTT(20), SMTT(30) DEF Registered, Before, Drains, SameEpochs
      <4>3. QED
        BY <1>1, <1>2, <1>3, <2>5, <4>1, <4>2, SMTT(20), SMTT(30) DEF OwnerOK
    <3>4. Unreserved(h)
      BY <1>8, <2>5, SMTT(20), SMTT(30) DEF Unreserved
    <3>5. DeliveriesOK'
      BY <1>1, <1>2, <2>5, <3>1, <3>2, DeliveryAccepted, SMTT(20), SMTT(30)
    <3>6. QED
      BY <2>1, <2>5, <3>3, <3>4, <3>5, SMTT(20), SMTT(30)
  <2>6. QED
    BY <2>2, <2>3, <2>4, <2>5, Zenon DEF Completes
<1>9. QED
  BY <1>7, <1>8

-----------------------------------------------------------------------------
(* The theorems.                                                             *)

\* The invariant holds before the owner is registered.
LEMMA InvariantHoldsFirst == Init => IInv
<1> SUFFICES ASSUME Init PROVE IInv
  OBVIOUS
<1>1. /\ node = [session |-> 0, pending |-> 0, generation |-> 0, k |-> 0, draining |-> NoBit]
      /\ registered = FALSE /\ owner = NewOwner(world.protocol, 0, 0, NoBit)
      /\ contexts = {} /\ slots = <<>> /\ deliveries = NoDeliveries
      /\ send_counter = [s \in Sessions |-> 0]
      /\ sealed = [s \in Sessions |-> [n \in 0 .. MaxSend |-> 0]]
  BY DEF Init, NoSession
<1>2. PICK w \in Worlds :
         world = [protocol |-> w.protocol, in_flight_limit |-> w.in_flight_limit,
                  counters |-> w.counters, sends |-> w.sends, sessions |-> 0]
  BY DEF Init
<1>3. /\ w.protocol \in {"Fmp", "Fsp"} /\ w.counters \in Counters /\ w.sends \in 0 .. MaxSend
  BY OwnerAssumption
<1>4. /\ DOMAIN world = WorldFields /\ world.protocol \in {"Fmp", "Fsp"}
      /\ world.counters \in Counters /\ world.sends \in 0 .. MaxSend /\ world.sessions = 0
  BY <1>2, <1>3 DEF WorldFields
<1>5. /\ DOMAIN node = NodeFields /\ node.session = 0 /\ node.pending = 0
      /\ node.generation = 0 /\ node.k = 0 /\ node.draining = NoBit
  BY <1>1 DEF NodeFields
<1>6. NodeOK(node, world)
  BY <1>4, <1>5, OwnerAssumption DEF NodeOK, KBits
<1>7. /\ DOMAIN owner = OwnerFields /\ owner.protocol = world.protocol
      /\ owner.crypto_keys = 0 /\ owner.replay_window = EmptyWindow
      /\ NoPrevious(owner) /\ NoPending(owner) /\ owner.pending_replay_counters = {}
  BY <1>1, OwnerIsNew
<1>8. SlotsInFlight = {} /\ (\E S : slots \in Seq(S)) /\ ReservationsOK
  BY <1>1, <1>7, NothingInFlight DEF Idle
<1>9. OwnerOK
  BY <1>1, <1>7, <1>8, Zenon DEF OwnerOK
<1>10. CountersOK
  BY <1>1 DEF CountersOK
<1>11. DeliveriesOK
  BY <1>1, <1>4, <1>6, <1>7, EmptyWindows DEF Unused, NoPrevious, NoPending, NoSession
<1>12. QED
  BY <1>1, <1>6, <1>8, <1>9, <1>10, <1>11 DEF IInv

\* Every step keeps it.
LEMMA InvariantKept == IInv /\ [Next]_vars => IInv'
<1> SUFFICES ASSUME IInv, [Next]_vars PROVE IInv'
  OBVIOUS
<1>1. CASE Register
  BY <1>1, RegisterKeeps
<1>2. CASE Unregister
  BY <1>2, UnregisterKeeps
<1>3. CASE \/ Refresh \/ CompleteDrain \/ AbandonPending \/ InstallPending
           \/ Cutover \/ ConfirmPending \/ ReplaceSession
  BY <1>3, CallsKeep
<1>4. CASE \E s \in 1 .. world.sessions, c \in 0 .. world.counters, tag \in tags, k \in KBits :
               Reserve(s, c, tag, k)
  BY <1>4, ReserveKeeps
<1>5. CASE \E context \in contexts : ReserveOutbound(context)
  BY <1>5, ReserveOutboundKeeps
<1>6. CASE Retire
  BY <1>6, RetireKeeps
<1>7. CASE UNCHANGED vars
  <2>1. /\ node' = node /\ world' = world /\ registered' = registered /\ owner' = owner
        /\ contexts' = contexts /\ slots' = slots /\ lost' = lost /\ deliveries' = deliveries
        /\ send_counter' = send_counter /\ sealed' = sealed
    BY <1>7 DEF vars
  <2>2. SlotsInFlight' = SlotsInFlight /\ \A s : Delivered(s)' = Delivered(s)
    BY <2>1 DEF SlotsInFlight, Delivered
  <2>3. OwnerOK' /\ CountersOK'
    BY <2>1 DEF IInv, OwnerOK, CountersOK
  <2>4. ReservationsOK'
    BY <2>1, <2>2 DEF IInv, ReservationsOK
  <2>5. DeliveriesOK'
    BY <2>1, <2>2, Zenon DEF IInv, DeliveriesOK, AtMostOnce, WindowFollowsKey
  <2>6. QED
    BY <2>1, <2>2, <2>3, <2>4, <2>5 DEF IInv
<1>8. QED
  BY <1>1, <1>2, <1>3, <1>4, <1>5, <1>6, <1>7, SMTT(20), SMTT(30) DEF Next

\* The invariant holds in every world, for every number of sessions, counters and sends.
THEOREM InvariantHolds == Spec => []IInv
  BY InvariantHoldsFirst, InvariantKept, PTL DEF Spec

\* It makes every session the owner has keys for readable.
LEMMA SessionsAreReadable == IInv => RetainedSessionsReadable
<1> SUFFICES ASSUME IInv PROVE RetainedSessionsReadable
  OBVIOUS
<1>1. CASE ~ registered
  <2>1. owner.crypto_keys = 0 /\ owner.previous_open = 0 /\ owner.pending_open = 0
    BY <1>1, OwnerIsNew DEF IInv, OwnerOK, NoPrevious, NoPending, NoSession
  <2>2. QED
    BY <2>1, Zenon, ZenonT(30) DEF RetainedSessionsReadable, NoSession
<1>2. CASE registered
  <2>1. Registered
    BY <1>2, RegisteredOwner
  <2>2. /\ owner.protocol = world.protocol /\ world.protocol \in {"Fmp", "Fsp"}
        /\ owner.current_k_bit = node.k /\ owner.previous_draining_k_bit = node.draining
        /\ owner.pending_k_bit = IF owner.pending_open = 0 THEN NoBit ELSE 1 - node.k
        /\ node.k \in KBits /\ owner.generation \in Nat
        /\ world.protocol = "Fsp" /\ node.draining # NoBit =>
              node.draining = 1 - node.k /\ owner.pending_open = 0
        /\ owner.previous_open # 0 =>
              /\ node.draining # NoBit
              /\ owner.draining_generation.generation \in 1 .. owner.generation - 1
    BY <2>1 DEF Registered, Before, NodeOK, Follows, CurrentIs, Drains
  <2> USE DEF Readable, routed_epoch, receive_epoch, uses_previous, uses_pending, open_key,
              NoSession, NoEpoch, KBits, NoBit
  <2>3. Readable(owner.generation, "Current", owner.crypto_keys, owner.current_k_bit)
    BY <2>2
  <2>4. owner.pending_open # 0 =>
            Readable(owner.generation, "Pending", owner.pending_open, owner.pending_k_bit)
    BY <2>2, SMTT(20), SMTT(30)
  <2>5. ASSUME owner.previous_open # 0
        PROVE  LET draining == owner.draining_generation
                   k        == owner.previous_draining_k_bit
               IN  /\ Readable(owner.generation, "Previous", owner.previous_open, k)
                   /\ Readable(draining.generation, "Current", owner.previous_open, k)
                   /\ draining.promoted # NoInstance =>
                          Readable(draining.generation, "Pending", owner.crypto_keys,
                                   owner.current_k_bit)
    <3> DEFINE d == owner.draining_generation
    <3>1. retains_draining_generation(owner, d.generation) /\ d.generation # owner.generation
      BY <2>2, <2>5 DEF retains_draining_generation, NotDraining
    <3>2. Readable(owner.generation, "Previous", owner.previous_open, node.draining)
      BY <2>2, <2>5
    <3>3. Readable(d.generation, "Current", owner.previous_open, node.draining)
      BY <2>2, <2>5, <3>1, SMTT(20), SMTT(30) DEF remap_draining_receive_epoch
    <3>4. d.promoted # NoInstance =>
              Readable(d.generation, "Pending", owner.crypto_keys, owner.current_k_bit)
      BY <2>2, <2>5, <3>1 DEF remap_draining_receive_epoch
    <3>5. QED
      BY <2>2, <3>2, <3>3, <3>4, Zenon, ZenonT(30)
  <2>6. QED
    BY <2>3, <2>4, <2>5, Zenon DEF RetainedSessionsReadable
<1>3. QED
  BY <1>1, <1>2

\* A packet of a session the owner has a key for is opened with that key, tagged now or
\* before the last cutover (OwnerState::reserve).
THEOREM SessionsReadable == Spec => []RetainedSessionsReadable
  BY InvariantHolds, SessionsAreReadable, PTL

\* The run's notion of a live epoch is the invariant's.
LEMMA LiveIdentitiesAreLive == \A id : id \in LiveIdentities <=> Live(id, owner)
  BY DEF LiveIdentities, Live, NoSession

\* It lets every reservation be released.
LEMMA CountersAreFreed == IInv => DeliveredOnce
<1> SUFFICES ASSUME IInv PROVE DeliveredOnce
  OBVIOUS
<1>1. AtMostOnce /\ ReservationsOK
  BY DEF IInv, DeliveriesOK
<1>2. NoStuckCounter
  BY <1>1, LiveIdentitiesAreLive, SMTT(20), SMTT(30) DEF ReservationsOK, Covered, NoStuckCounter, OpenSlots
<1>3. QED
  BY <1>1, <1>2 DEF DeliveredOnce

\* No packet is handed up twice under its key, and no counter stays reserved once the packet
\* that reserved it has gone (complete_replay_reservation).
THEOREM Delivery == Spec => []DeliveredOnce
  BY InvariantHolds, CountersAreFreed, PTL

\* It binds windows and packets to keys.
LEMMA WorkIsKept == IInv => KeysKeepTheirWork
<1> SUFFICES ASSUME IInv PROVE KeysKeepTheirWork
  OBVIOUS
<1>1. WindowFollowsKey /\ ReservationsOK
  BY DEF IInv, DeliveriesOK
<1>2. \A x \in SlotsInFlight : x.open => KeyOK(x, node, owner)
  BY DEF IInv
<1>3. WorkKeepsItsKey
  BY <1>1, <1>2, LiveIdentitiesAreLive
     DEF ReservationsOK, WorkKeepsItsKey, WillBeDelivered, OpenSlots, KeyOK, Reserved
<1>4. QED
  BY <1>1, <1>3 DEF KeysKeepTheirWork

\* Through cutovers, drains and replacements, windows and packets in flight stay with the key
\* they were made for (install_session, retire).
THEOREM Work == Spec => []KeysKeepTheirWork
  BY InvariantHolds, WorkIsKept, PTL

\* It lets the header of a sealed packet name its key.
LEMMA SealsNameKeys == IInv => SealedOnce
<1> SUFFICES ASSUME IInv PROVE SealedOnce
  OBVIOUS
<1>1. NonceOnce
  BY DEF IInv, CountersOK, NonceOnce
<1>2. ASSUME NEW x \in SealSlots
      PROVE  /\ world.protocol = "Fmp" /\ x.key # NoSession => x.receiver_idx = x.key
             /\ world.protocol = "Fsp" =>
                   /\ x.key \in LiveKeys /\ x.key = owner.crypto_keys =>
                          x.k = owner.current_k_bit
                   /\ x.key \in LiveKeys /\ x.key = owner.previous_open =>
                          x.k = owner.previous_draining_k_bit
                   /\ x.key \in LiveKeys /\ x.key = owner.pending_seal =>
                          x.k = owner.pending_k_bit
  <2>1. registered
    <3>1. SlotsInFlight # {}
      BY <1>2 DEF SealSlots
    <3>2. QED
      BY <3>1, NothingInFlight DEF IInv, OwnerOK, Idle
  <2>2. Registered /\ SealOK(x, node, owner, world)
    BY <1>2, <2>1, RegisteredOwner DEF IInv, SealSlots
  <2>3. QED
    BY <2>2, SMTT(20), SMTT(30) DEF Registered, Before, NodeOK, Follows, CurrentIs, SealOK, LiveKeys, NoSession
<1>3. HeaderNamesKey
  BY <1>2, Zenon DEF HeaderNamesKey
<1>4. QED
  BY <1>1, <1>3 DEF SealedOnce

\* Under each key every nonce seals at most one packet, and its header leads the receiver to
\* that key, however old the send context was (reserve_outbound).
THEOREM Sealing == Spec => []SealedOnce
  BY InvariantHolds, SealsNameKeys, PTL
=============================================================================
