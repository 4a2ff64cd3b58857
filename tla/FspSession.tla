------------------------------ MODULE FspSession ------------------------------
(***************************************************************************)
(* The end-to-end sessions (FSP) of two nodes with each other: the          *)
(* three-message Noise XK handshake, its retransmission, rekeys beside a    *)
(* live session, the K-bit cutover and its drain, and the recovery of a     *)
(* session whose ends no longer share keys.  Each node is a SessionEntry    *)
(* (node/session.rs) together with the dataplane owner it programs          *)
(* (OwnerEpochs); both ends run the same code.                              *)
(*                                                                          *)
(* A Noise handshake is known by the ephemeral i of its initiator and the   *)
(* ephemeral s of its responder, drawn from one supply of numbers; s also   *)
(* names the session that comes out of it.  A message authenticates exactly *)
(* when it belongs to the handshake or to the session that reads it.        *)
(*                                                                          *)
(* The network loses, repeats and reorders.  Deadlines of the code are      *)
(* events that may happen at any time at which they are armed.              *)
(***************************************************************************)
EXTENDS OwnerEpochs, FiniteSets, FiniteSetsExt

CONSTANT Worlds         \* the surroundings to consider, see WorldType

\* What the two nodes and the network may do in a behaviour.
WorldType ==
    [established : BOOLEAN,         \* does the behaviour start with a session?
     ephemerals : Nat,              \* bound on the ephemerals drawn by both nodes
     in_flight : Nat,               \* bound on messages on the way when a timer sends another
     faults : Nat,                  \* bound on messages lost and messages repeated
     restarts : Nat,                \* bound on process restarts
     handshake_max_resends : Nat,
     rekey_enabled : BOOLEAN,       \* node.rekey.enabled
     routine : Nat,                 \* bound on the numbers drawn when a routine rekey starts
     expiry : BOOLEAN,              \* may an entry expire (handshake or idle timeout)?
     recovery : {"Off", "Silent", "Lossy"},  \* who counts as unresponsive: nobody, a
                                    \* peer that cannot be understood, any peer
     stale_pending : BOOLEAN,       \* may a pending epoch outlive the idle timeout?
     long_patience : BOOLEAN,       \* do timers that give up outlast messages on the way?
     long_drain : BOOLEAN]          \* does a drain outlast the other side's cutover?

ASSUME WorldsAssumption == \A w \in Worlds : w \in WorldType

VARIABLES
    sessions,       \* node -> its SessionEntry for the other node
    owners,         \* node -> the OwnerState programmed from that entry
    confirmed,      \* node -> fsp_lifecycle_confirmed of the owner
    startup_epoch,  \* node -> startup_epoch
    ephemerals,     \* numbers drawn so far
    net,            \* messages on the way
    world           \* a member of Worlds; its faults are those still to come

vars == <<sessions, owners, confirmed, startup_epoch, ephemerals, net, world>>

\* The nodes are their addresses: the smaller one wins a tie.
Nodes == {1, 2}
PeerOf(n) == 3 - n

NoMessage == [type |-> "None", to |-> 0, i |-> 0, s |-> 0, epoch |-> 0, k |-> 0]
Setup(n, i) == [NoMessage EXCEPT !.type = "SessionSetup", !.to = PeerOf(n), !.i = i]
Ack(n, i, s) == [NoMessage EXCEPT !.type = "SessionAck", !.to = PeerOf(n), !.i = i,
                                  !.s = s, !.epoch = startup_epoch[n]]
Msg3(n, s) == [NoMessage EXCEPT !.type = "SessionMsg3", !.to = PeerOf(n), !.s = s,
                                !.epoch = startup_epoch[n]]
Data(n, s, k) == [NoMessage EXCEPT !.type = "Data", !.to = PeerOf(n), !.s = s, !.k = k]

-----------------------------------------------------------------------------
(* SessionEntry.  session, hs and rekey_state hold the number of a session   *)
(* or, on the initiating side, of the ephemeral that was sent.  A deadline   *)
(* that is set is a Boolean: due_at stands for next_resend_at_ms > 0.        *)

NoEntry ==
    [state |-> "None", hs |-> 0, session |-> NoSession, remote_epoch |-> 0,
     is_initiator |-> FALSE,
     handshake_payload |-> NoMessage, due_at |-> FALSE, resend_count |-> 0,
     current_k_bit |-> 0, draining |-> FALSE,
     rekey_state |-> 0, rekey_handshake_initiator |-> FALSE,
     pending_new_session |-> NoSession, pending_rekey_initiator |-> FALSE,
     rekey_msg3_payload |-> NoMessage, rekey_msg3_resend_count |-> 0]

NewEntry(state, hs, initiator) ==
    [NoEntry EXCEPT !.state = state, !.hs = hs, !.is_initiator = initiator]

is_established(e) == e.state = "Established"
has_rekey_in_progress(e) == e.rekey_state # 0
has_pending(e) == e.pending_new_session # NoSession

set_handshake_payload(e, payload) ==
    [e EXCEPT !.handshake_payload = payload, !.resend_count = 0, !.due_at = TRUE]

clear_handshake_payload(e) ==
    [e EXCEPT !.handshake_payload = NoMessage, !.due_at = FALSE]

\* Only < max and >= max are ever asked of a resend count, so it stops at max.
OneMore(count) == IF count < world.handshake_max_resends THEN count + 1 ELSE count

record_resend(e) == [e EXCEPT !.resend_count = OneMore(@), !.due_at = TRUE]

clear_rekey_msg3_payload(e) ==
    [e EXCEPT !.rekey_msg3_payload = NoMessage, !.rekey_msg3_resend_count = 0]

\* Mutant: a fresh epoch keeps the K bit of the session it replaces.
establish_keeping_k(e, session, remote_epoch) ==
    [clear_rekey_msg3_payload(e) EXCEPT
        !.state = "Established", !.hs = 0, !.session = session,
        !.remote_epoch = remote_epoch, !.draining = FALSE,
        !.rekey_state = 0, !.rekey_handshake_initiator = FALSE,
        !.pending_new_session = NoSession, !.pending_rekey_initiator = FALSE]

establish(e, session, remote_epoch) ==
    [clear_rekey_msg3_payload(e) EXCEPT
        !.state = "Established", !.hs = 0, !.session = session,
        !.remote_epoch = remote_epoch,
        !.current_k_bit = 0, !.draining = FALSE,
        !.rekey_state = 0, !.rekey_handshake_initiator = FALSE,
        !.pending_new_session = NoSession, !.pending_rekey_initiator = FALSE]

\* Mutant: the role of the handshake is forgotten with it.
set_pending_session_no_role(e, session) ==
    [clear_rekey_msg3_payload(e) EXCEPT
        !.pending_new_session = session,
        !.rekey_state = 0, !.rekey_handshake_initiator = FALSE]

set_pending_session(e, session) ==
    [clear_rekey_msg3_payload(e) EXCEPT
        !.pending_new_session = session,
        !.pending_rekey_initiator = e.rekey_handshake_initiator,
        !.rekey_state = 0, !.rekey_handshake_initiator = FALSE]

set_rekey_state(e, hs, initiator) ==
    [e EXCEPT !.rekey_state = hs, !.rekey_handshake_initiator = initiator]

abandon_handshake(e) ==
    [clear_handshake_payload(e) EXCEPT
        !.rekey_state = 0, !.rekey_handshake_initiator = FALSE]

promote_pending(e) ==
    [clear_handshake_payload(e) EXCEPT
        !.session = e.pending_new_session, !.pending_new_session = NoSession,
        !.draining = TRUE, !.current_k_bit = 1 - @,
        !.rekey_state = 0, !.rekey_handshake_initiator = FALSE,
        !.pending_rekey_initiator = FALSE]

\* clear_dataplane_confirmed_fsp_retransmits, for a confirmed owner
ClearConfirmed(e, is_confirmed) ==
    LET unpended == is_confirmed /\ is_established(e) /\ ~ has_pending(e)
        without3 == IF unpended /\ e.rekey_msg3_payload # NoMessage
                    THEN clear_rekey_msg3_payload(e) ELSE e
    IN  IF /\ unpended /\ ~ has_rekey_in_progress(e)
           /\ e.handshake_payload # NoMessage
        THEN clear_handshake_payload(without3) ELSE without3

-----------------------------------------------------------------------------
(* What a node writes in one step: its entry, its owner, what it sends.      *)

NoOwner == NewOwner("Fsp", 0, 0, NoBit)

\* Mutant: the owner is never told of a drain.
dataplane_fsp_owner_epoch_none(e) == NoBit

dataplane_fsp_owner_epoch(e) ==
    IF e.draining THEN 1 - e.current_k_bit ELSE NoBit

\* sync_dataplane_fsp_owner_from_current_session: the generation is the start
\* time of the session, different for every session.
SyncedOwner(n, e) ==
    install_session(owners[n],
        [generation |-> e.session, session |-> e.session,
         k |-> e.current_k_bit, draining |-> dataplane_fsp_owner_epoch(e)])

KeepEntry(n) == UNCHANGED <<sessions, owners, confirmed>>

SetEntry(n, e) ==
    /\ sessions' = [sessions EXCEPT ![n] = e]
    /\ UNCHANGED <<owners, confirmed>>

\* Mutant: the owner is left with the previous session.
SetSession_unsynced(n, e) ==
    /\ sessions' = [sessions EXCEPT ![n] = e]
    /\ UNCHANGED <<owners, confirmed>>

\* The entry with a new current session, and the owner synchronised with it.
SetSession(n, e) ==
    /\ sessions' = [sessions EXCEPT ![n] = e]
    /\ owners' = [owners EXCEPT ![n] = SyncedOwner(n, e)]
    /\ confirmed' = [confirmed EXCEPT ![n] = FALSE]

\* The entry with a completed epoch beside the current one, which the owner
\* is given too (install_dataplane_fsp_pending_epoch).
SetPending(n, e) ==
    /\ sessions' = [sessions EXCEPT ![n] = e]
    /\ owners' = [owners EXCEPT ![n] =
                     install_pending_epoch(@, 1 - e.current_k_bit, e.pending_new_session)]
    /\ UNCHANGED confirmed

RemoveEntry(n) ==
    /\ sessions' = [sessions EXCEPT ![n] = NoEntry]
    /\ owners' = [owners EXCEPT ![n] = NoOwner]
    /\ confirmed' = [confirmed EXCEPT ![n] = FALSE]

\* A step that answers nothing and sends the messages of a set.  A timer is
\* slower than the network: what it sent before has arrived or is lost.
Send(messages) ==
    /\ messages # {} => Cardinality(net) < world.in_flight /\ messages \cap net = {}
    /\ net' = net \cup messages
    /\ UNCHANGED world

\* A step that takes message m off the network and answers with a set.  The
\* network may also have repeated m.
Answer(m, messages) ==
    /\ m \in net
    /\ \/ /\ net' = (net \ {m}) \cup messages
          /\ UNCHANGED world
       \/ /\ world.faults > 0
          /\ world' = [world EXCEPT !.faults = @ - 1]
          /\ net' = net \cup messages

Lose ==
    /\ world.faults > 0
    /\ world' = [world EXCEPT !.faults = @ - 1]
    /\ \E m \in net : net' = net \ {m}
    /\ UNCHANGED <<sessions, owners, confirmed, startup_epoch, ephemerals>>

CanDraw == ephemerals < world.ephemerals
Fresh == ephemerals + 1
Draw == CanDraw /\ ephemerals' = Fresh

-----------------------------------------------------------------------------
(* Handshake messages *)

\* initiate_session
initiate_session(n) ==
    /\ sessions[n].state = "None"
    /\ Draw
    /\ SetEntry(n, set_handshake_payload(NewEntry("Initiating", Fresh, TRUE), Setup(n, Fresh)))
    /\ Send({Setup(n, Fresh)})
    /\ UNCHANGED startup_epoch

\* Mutant: neither end of a simultaneous first handshake gives way.
SetupDropped_no_tie_break(n, e, stale) ==
    \/ is_established(e) /\ e.draining
    \/ e.state = "Initiating"

\* The setup is dropped: the handshake has to be retried later, lost a tie, or
\* is late.
SetupDropped(n, e, stale) ==
    \/ is_established(e) /\ e.draining
    \/ e.state = "Initiating" /\ n < PeerOf(n)
    \/ /\ is_established(e) /\ e.is_initiator /\ ~ has_rekey_in_progress(e)
       /\ ~ has_pending(e) /\ e.handshake_payload # NoMessage
    \/ /\ is_established(e) /\ has_rekey_in_progress(e)
       /\ e.rekey_handshake_initiator /\ n < PeerOf(n)
    \/ /\ is_established(e) /\ ~ has_rekey_in_progress(e)
       /\ has_pending(e) /\ ~ stale

\* A retransmitted setup is answered with the retained ack.
SetupRepeated(e) ==
    /\ e.handshake_payload # NoMessage
    /\ \/ e.state = "AwaitingMsg3"
       \/ is_established(e) /\ has_rekey_in_progress(e) /\ ~ e.rekey_handshake_initiator

\* handle_session_setup.  Refusals of the rate limiter are losses.
handle_session_setup(n, m) ==
    LET e == sessions[n]
        ack == Ack(n, m.i, Fresh)
    IN  /\ m.type = "SessionSetup" /\ m.to = n
        /\ UNCHANGED startup_epoch
        /\ \E stale \in IF world.stale_pending THEN BOOLEAN ELSE {FALSE} :
           \/ /\ SetupDropped(n, e, stale)
              /\ KeepEntry(n) /\ Answer(m, {}) /\ UNCHANGED ephemerals
           \/ /\ ~ SetupDropped(n, e, stale) /\ SetupRepeated(e)
              /\ SetEntry(n, IF is_established(e) THEN record_resend(e) ELSE e)
              /\ Answer(m, {e.handshake_payload}) /\ UNCHANGED ephemerals
           \/ /\ ~ SetupDropped(n, e, stale) /\ ~ SetupRepeated(e)
              /\ Draw
              /\ SetEntry(n, IF is_established(e)
                             THEN set_handshake_payload(
                                      set_rekey_state(IF has_rekey_in_progress(e)
                                                      THEN abandon_handshake(e) ELSE e,
                                                      Fresh, FALSE), ack)
                             ELSE set_handshake_payload(NewEntry("AwaitingMsg3", Fresh, FALSE), ack))
              /\ Answer(m, {ack})

\* Mutant: a restarted peer is taken for the one the session was made with.
remote_epoch_changed_never(e, remote_epoch) == FALSE

remote_epoch_changed(e, remote_epoch) == e.remote_epoch # remote_epoch

\* handle_session_ack
handle_session_ack(n, m) ==
    LET e == sessions[n]
        rekeys == is_established(e) /\ has_rekey_in_progress(e) /\ e.rekey_handshake_initiator
        msg3 == Msg3(n, m.s)
    IN  /\ m.type = "SessionAck" /\ m.to = n
        /\ UNCHANGED <<startup_epoch, ephemerals>>
        /\ \/ /\ rekeys /\ e.rekey_state = m.i /\ remote_epoch_changed(e, m.epoch)
              /\ SetSession(n, set_handshake_payload(establish(e, m.s, m.epoch), msg3))
              /\ Answer(m, {msg3})
           \/ /\ rekeys /\ e.rekey_state = m.i /\ ~ remote_epoch_changed(e, m.epoch)
              /\ SetPending(n, [clear_handshake_payload(set_pending_session(e, m.s))
                                   EXCEPT !.rekey_msg3_payload = msg3])
              /\ Answer(m, {msg3})
           \/ /\ is_established(e) /\ ~ rekeys
              /\ KeepEntry(n)
              /\ Answer(m, {e.handshake_payload} \ {NoMessage})
           \/ /\ e.state = "Initiating" /\ e.hs = m.i
              /\ SetSession(n, set_handshake_payload(establish(e, m.s, m.epoch), msg3))
              /\ Answer(m, {msg3})
           \/ /\ \/ rekeys /\ e.rekey_state # m.i
                 \/ e.state = "Initiating" /\ e.hs # m.i
                 \/ e.state \in {"None", "AwaitingMsg3"}
              /\ KeepEntry(n) /\ Answer(m, {})

\* handle_session_msg3
handle_session_msg3(n, m) ==
    LET e == sessions[n]
        rekeys == is_established(e) /\ has_rekey_in_progress(e) /\ ~ e.rekey_handshake_initiator
    IN  /\ m.type = "SessionMsg3" /\ m.to = n
        /\ UNCHANGED <<startup_epoch, ephemerals>>
        /\ Answer(m, {})
        /\ \/ /\ rekeys /\ e.rekey_state # m.s
              /\ SetEntry(n, abandon_handshake(e))
           \/ /\ rekeys /\ e.rekey_state = m.s /\ remote_epoch_changed(e, m.epoch)
              /\ SetSession(n, establish(e, m.s, m.epoch))
           \/ /\ rekeys /\ e.rekey_state = m.s /\ ~ remote_epoch_changed(e, m.epoch)
              /\ SetPending(n, clear_handshake_payload(set_pending_session(e, m.s)))
           \/ /\ e.state = "AwaitingMsg3" /\ e.hs = m.s
              /\ SetSession(n, establish(e, m.s, m.epoch))
           \/ /\ e.state = "AwaitingMsg3" /\ e.hs # m.s
              /\ RemoveEntry(n)
           \/ /\ ~ rekeys /\ e.state # "AwaitingMsg3"
              /\ KeepEntry(n)

-----------------------------------------------------------------------------
(* Maintenance ticks *)

\* With long patience, nobody gives up on what is still on the way.
Patience == world.long_patience => \A m \in net : m.type = "Data"

\* resend_pending_session_handshakes: expiry, then what the dataplane has
\* confirmed is cleared, then one due payload is given up or sent again.
resend_pending_session_handshakes(n) ==
    LET e == sessions[n]
        cleared == ClearConfirmed(e, confirmed[n])
        due == cleared.handshake_payload # NoMessage /\ cleared.due_at
        spent == cleared.resend_count >= world.handshake_max_resends
    IN  /\ UNCHANGED <<startup_epoch, ephemerals>>
        /\ \/ /\ world.expiry /\ e.state \in {"Initiating", "AwaitingMsg3"}
              /\ RemoveEntry(n) /\ Send({})
           \/ /\ due /\ spent /\ is_established(e) /\ Patience
              /\ SetEntry(n, IF has_rekey_in_progress(cleared) THEN abandon_handshake(cleared)
                             ELSE [cleared EXCEPT !.due_at = FALSE])
              /\ Send({})
           \/ /\ due /\ ~ spent
              /\ SetEntry(n, record_resend(cleared))
              /\ Send({cleared.handshake_payload})
           \/ /\ ~ due /\ cleared # e
              /\ SetEntry(n, cleared) /\ Send({})

\* resend_pending_session_msg3
resend_pending_session_msg3(n) ==
    LET e == sessions[n]
        spent == e.rekey_msg3_resend_count >= world.handshake_max_resends
    IN  /\ e.rekey_msg3_payload # NoMessage
        /\ spent => Patience
        /\ UNCHANGED <<startup_epoch, ephemerals>>
        /\ SetEntry(n, IF spent THEN clear_rekey_msg3_payload(e)
                       ELSE [e EXCEPT !.rekey_msg3_resend_count = OneMore(@)])
        /\ Send(IF spent THEN {} ELSE {e.rekey_msg3_payload})

\* check_session_rekey, a completed epoch this node initiated: send under its
\* key while everything else stays on the current one.
Probe(n) ==
    LET e == sessions[n]
    IN  /\ is_established(e) /\ ~ e.draining
        /\ has_pending(e) /\ ~ has_rekey_in_progress(e) /\ e.pending_rekey_initiator
        /\ Send({Data(n, seal_key(owners[n], "Pending"), owners[n].pending_k_bit)})
        /\ UNCHANGED <<sessions, owners, confirmed, startup_epoch, ephemerals>>

\* check_session_rekey, the end of a drain: after FSP_DRAIN_WINDOW_SECS.
CompleteDrain(n) ==
    LET e == sessions[n]
        drained == [e EXCEPT !.draining = FALSE]
    IN  /\ is_established(e) /\ e.draining
        /\ world.long_drain => sessions[PeerOf(n)].session # owners[n].previous_open
        /\ sessions' = [sessions EXCEPT ![n] = drained]
        /\ owners' = [owners EXCEPT ![n] =
                         set_epoch(@, e.current_k_bit, dataplane_fsp_owner_epoch(drained))]
        /\ UNCHANGED <<confirmed, startup_epoch, ephemerals, net, world>>

\* Mutant: a rekey starts while the previous epoch drains.
initiate_session_rekey_draining(n) ==
    LET e == sessions[n]
    IN  /\ world.rekey_enabled
        /\ is_established(e) /\ ~ has_rekey_in_progress(e)
        /\ Draw
        /\ SetEntry(n, set_handshake_payload(set_rekey_state(e, Fresh, TRUE), Setup(n, Fresh)))
        /\ UNCHANGED startup_epoch

\* initiate_session_rekey, for a routine rekey and for a recovery alike
initiate_session_rekey(n) ==
    LET e == sessions[n]
    IN  /\ world.rekey_enabled
        /\ is_established(e) /\ ~ has_rekey_in_progress(e) /\ ~ e.draining
        /\ Draw
        /\ SetEntry(n, set_handshake_payload(set_rekey_state(e, Fresh, TRUE), Setup(n, Fresh)))
        /\ UNCHANGED startup_epoch

\* check_session_rekey, the rekey timer or the send counter
RoutineRekey(n) ==
    /\ ephemerals < world.routine
    /\ ~ has_pending(sessions[n])
    /\ sessions[n].rekey_msg3_payload = NoMessage
    /\ initiate_session_rekey(n)
    /\ Send({Setup(n, Fresh)})

\* The key under which the owner of n would open a packet with K bit k.
OpenKey(n, k) == open_key(owners[n], receive_epoch(owners[n], [k |-> k], "Current"))

\* What n sends now can be opened by the other node.
Understood(n) ==
    LET e == sessions[n]
    IN  /\ is_established(e)
        /\ is_established(sessions[PeerOf(n)])
        /\ OpenKey(PeerOf(n), e.current_k_bit) = e.session

Unresponsive(n) ==
    /\ world.recovery # "Off"
    /\ world.recovery = "Silent" => ~ (Understood(n) /\ Understood(PeerOf(n)))
    /\ Patience /\ (world.long_patience => ~ has_rekey_in_progress(sessions[PeerOf(n)]))

\* recover_unresponsive_sessions, and the recovery that decrypt failures start
recover_unresponsive_sessions(n) ==
    /\ Unresponsive(n)
    /\ initiate_session_rekey(n)
    /\ Send({Setup(n, Fresh)})

-----------------------------------------------------------------------------
(* Established traffic *)

\* Application data and reports, under the current key.
SendData(n) ==
    LET e == sessions[n]
    IN  /\ is_established(e)
        /\ Send({Data(n, seal_key(owners[n], "Current"), owners[n].current_k_bit)})
        /\ UNCHANGED <<sessions, owners, confirmed, startup_epoch, ephemerals>>

\* A packet that opens: the owner notes that its current epoch is in use, a
\* packet under the pending epoch promotes it, and what is confirmed now need
\* not be retransmitted.
ReceiveData(n, m) ==
    LET e == sessions[n]
        confirms == confirmed[n] \/ m.k = owners[n].current_k_bit
        promotes == /\ has_pending_receive_epoch(owners[n], m.k)
                    /\ has_pending(e) /\ m.k # e.current_k_bit
        promoted == clear_rekey_msg3_payload(promote_pending(e))
    IN  /\ m.type = "Data" /\ m.to = n
        /\ is_established(e) /\ OpenKey(n, m.k) = m.s
        /\ IF promotes THEN SetSession(n, promoted)
           ELSE /\ sessions' = [sessions EXCEPT ![n] = ClearConfirmed(e, confirms)]
                /\ confirmed' = [confirmed EXCEPT ![n] = confirms]
                /\ UNCHANGED owners
        /\ Answer(m, {})
        /\ UNCHANGED <<startup_epoch, ephemerals>>

\* handle_reported_fsp_decrypt_failure.  Failures of the epoch that drains are
\* ignored; enough others start a recovery rekey and, if that does not help,
\* evict the session.
DecryptFailure(n, m) ==
    LET e == sessions[n]
        stale == owners[n].previous_draining_k_bit = m.k /\ m.k # owners[n].current_k_bit
    IN  /\ m.type = "Data" /\ m.to = n
        /\ ~ (is_established(e) /\ OpenKey(n, m.k) = m.s)
        /\ UNCHANGED startup_epoch
        /\ \/ KeepEntry(n) /\ Answer(m, {}) /\ UNCHANGED ephemerals
           \/ /\ is_established(e) /\ ~ stale /\ Unresponsive(n)
              /\ initiate_session_rekey(n)
              /\ Answer(m, {Setup(n, Fresh)})
           \/ /\ is_established(e) /\ ~ stale /\ world.expiry
              /\ RemoveEntry(n) /\ Answer(m, {}) /\ UNCHANGED ephemerals

\* purge_idle_sessions, and the removal of the peer by the link layer
purge_idle_sessions(n) ==
    /\ world.expiry /\ is_established(sessions[n])
    /\ RemoveEntry(n)
    /\ UNCHANGED <<startup_epoch, ephemerals, net, world>>

\* The process ends and starts again with a new startup epoch.
Restart(n) ==
    /\ startup_epoch[1] + startup_epoch[2] < world.restarts
    /\ startup_epoch' = [startup_epoch EXCEPT ![n] = @ + 1]
    /\ RemoveEntry(n)
    /\ UNCHANGED <<ephemerals, net, world>>

\* Two nodes that have never heard of each other.
InitFresh ==
    /\ sessions = [n \in Nodes |-> NoEntry]
    /\ owners = [n \in Nodes |-> NoOwner]
    /\ confirmed = [n \in Nodes |-> FALSE]
    /\ ephemerals = 0

\* A session that node a initiated, once both ends have heard of each other:
\* the state InitFresh reaches without faults, as a start for what comes later.
InitEstablished ==
    /\ \E a \in Nodes :
        sessions = [n \in Nodes |-> [NoEntry EXCEPT !.state = "Established",
                                                    !.session = 2, !.is_initiator = (n = a)]]
    /\ owners = [n \in Nodes |->
                    install_session(NoOwner, [generation |-> 2, session |-> 2,
                                              k |-> 0, draining |-> NoBit])]
    /\ confirmed = [n \in Nodes |-> TRUE]
    /\ ephemerals = 2

Init ==
    /\ world \in Worlds
    /\ IF world.established THEN InitEstablished ELSE InitFresh
    /\ startup_epoch = [n \in Nodes |-> 0]
    /\ net = {}

\* The sessions that can come to exist in some world.
Sessions == 1 .. Max({w.ephemerals : w \in Worlds})

ReceiveSetup(n) == \E m \in net : handle_session_setup(n, m)
ReceiveAck(n) == \E m \in net : handle_session_ack(n, m)
ReceiveMsg3(n) == \E m \in net : handle_session_msg3(n, m)
ReceivePacket(n, s) == \E m \in net : m.s = s /\ (ReceiveData(n, m) \/ DecryptFailure(n, m))

Receive(n) ==
    \/ ReceiveSetup(n) \/ ReceiveAck(n) \/ ReceiveMsg3(n)
    \/ \E s \in Sessions : ReceivePacket(n, s)

Maintain(n) ==
    \/ resend_pending_session_handshakes(n) \/ resend_pending_session_msg3(n)
    \/ Probe(n) \/ CompleteDrain(n) \/ RoutineRekey(n)
    \/ recover_unresponsive_sessions(n) \/ purge_idle_sessions(n)

Next ==
    \/ \E n \in Nodes : \/ initiate_session(n) \/ SendData(n) \/ Restart(n)
                        \/ Receive(n) \/ Maintain(n)
    \/ Lose

Spec == Init /\ [][Next]_vars

\* Messages of a type on the way to n; packets are told apart by their session.
Coming(n, type, s) == {m \in net : m.to = n /\ m.type = type /\ (type = "Data" => m.s = s)}

\* A message that is neither lost nor overtaken for ever arrives.  Acks, third
\* messages and packets are always taken off the network by their handlers.
Delivery(n, type, s) ==
    []<>(Coming(n, type, s) = {}) \/ []<><<Coming(n, type, s) \ net' # {}>>_net

-----------------------------------------------------------------------------
\* K is one bit: while the previous epoch drains there is no name left for a
\* pending one, so a node never holds both (handle_session_setup defers a rekey
\* until the drain completes, prepare_session_rekey_initiation skips it).
OneBitNamesTwoEpochs ==
    \A n \in Nodes : ~ (sessions[n].draining /\ has_pending(sessions[n]))

\* The dataplane owner reads and writes with exactly the epochs of the entry
\* that programs it: the same current key and K bit, and a pending key under
\* the other K bit exactly when the entry has one.
OwnerFollowsEntry ==
    \A n \in Nodes :
        LET e == sessions[n]
            o == owners[n]
        IN  IF ~ is_established(e) THEN o = NoOwner
            ELSE /\ o.crypto_keys = e.session /\ o.current_k_bit = e.current_k_bit
                 /\ o.pending_open = e.pending_new_session
                 /\ has_pending(e) => o.pending_k_bit = 1 - e.current_k_bit
                 /\ o.previous_draining_k_bit = dataplane_fsp_owner_epoch(e)

\* Two nodes whose current session is the same name its epoch by the same K
\* bit: whatever mixture of first handshakes, rekeys and restarts led there.
SameSessionSameBit ==
    /\ is_established(sessions[1]) /\ is_established(sessions[2])
    /\ sessions[1].session = sessions[2].session
    => sessions[1].current_k_bit = sessions[2].current_k_bit

\* When both ends wait with the same completed epoch, exactly one of them
\* probes it, so that somebody makes the first move and only one does.
OneSideProbes ==
    /\ has_pending(sessions[1])
    /\ sessions[1].pending_new_session = sessions[2].pending_new_session
    => sessions[1].pending_rekey_initiator # sessions[2].pending_rekey_initiator

\* What either end sends under its current key can be opened by the other end,
\* at every moment at which both are established, through any number of rekeys
\* and whatever the network loses, repeats or reorders, where no end forgets
\* its session and a drain outlasts the other end's cutover.
EpochsNeverSplit ==
    /\ world.long_drain /\ ~ world.expiry /\ world.restarts = 0 /\ world.recovery = "Off"
    /\ is_established(sessions[1]) /\ is_established(sessions[2])
    => Understood(1) /\ Understood(2)

\* A completed epoch that the other end already sends under stays readable: it
\* is promoted or kept, as long as this end stays established.
KeysInUseAreKept ==
    [][\A n \in Nodes :
          /\ has_pending(sessions[n]) /\ is_established(sessions[n]')
          /\ is_established(sessions[PeerOf(n)])
          /\ sessions[PeerOf(n)].session = sessions[n].pending_new_session
          => sessions[n].pending_new_session
                \in {sessions[n].session, sessions[n].pending_new_session}']_vars

Agreed ==
    /\ is_established(sessions[1]) /\ is_established(sessions[2])
    /\ sessions[1].session = sessions[2].session

\* Both ends use one session, and no epoch that both have completed is still to be
\* introduced.
Settled ==
    /\ Agreed
    /\ has_pending(sessions[1]) =>
        sessions[1].pending_new_session # sessions[2].pending_new_session

\* A K bit names one key: an end never holds three epochs (handle_session_setup refuses a
\* rekey during a drain), and ends with the same session have the same bit for it.
BitsNameEpochs == OneBitNamesTwoEpochs /\ SameSessionSameBit

\* Exactly one end introduces an epoch that both have completed (check_session_rekey),
\* and whatever one end sends under its current key the other can open.
EndsStayTogether == OneSideProbes /\ EpochsNeverSplit
=============================================================================
