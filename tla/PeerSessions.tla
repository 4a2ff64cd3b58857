---------------------------- MODULE PeerSessions ----------------------------
(***************************************************************************)
(* The FMP session slots of one active peer (ActivePeer and its rekey       *)
(* half), and the node-wide tables that must follow them: the index         *)
(* allocator, the receiver-index dispatch table, the pending-outbound       *)
(* table, the link registry and the pending connections.                    *)
(*                                                                          *)
(* The state of a node is one record s:                                     *)
(*   epoch             the startup epoch of the running process             *)
(*   next              the next fresh index (indices are drawn at random    *)
(*                     from 2^32 values by the code, so a fresh one never   *)
(*                     repeats an old one here)                             *)
(*   peer              None or the ActivePeer of the one remote node        *)
(*   conns             the pending PeerConnections                          *)
(*   links, addr       LinkRegistry: the links and the reverse address map  *)
(*   in_use            IndexAllocator.in_use                                *)
(*   index             the receiver-index dispatch table                    *)
(*   pending_outbound  the indices whose msg2 is awaited                    *)
(*   fsp               0, or the remote epoch of the FSP session held       *)
(*   damp              the restart dampener holds an entry for the peer     *)
(*   degr              direct payload validation: 0 none, 1 pending,        *)
(*                     2 pending and held                                   *)
(*                                                                          *)
(* A Noise session is named by its initiator and the two indices its        *)
(* handshake exchanged.  A link is named by the index its handshake drew.   *)
(***************************************************************************)
EXTENDS Naturals, FiniteSets

CONSTANTS None, Path

Session(init, ii, ri) == [init |-> init, ii |-> ii, ri |-> ri]

our_index(n, sess) == IF sess = None THEN 0 ELSE IF sess.init = n THEN sess.ii ELSE sess.ri

their_index(n, sess) == IF sess = None THEN 0 ELSE IF sess.init = n THEN sess.ri ELSE sess.ii

(***************************************************************************)
(* ActivePeer.                                                              *)
(***************************************************************************)
\* ActivePeer::with_session
with_session(link, sess, path, init, epoch) ==
    [link |-> link, cur |-> sess, path |-> path, init |-> init, epoch |-> epoch,
     healthy |-> TRUE, quiet |-> 0, auth |-> FALSE, aged |-> FALSE,
     prev |-> None, pend |-> None, pend_init |-> FALSE, rekey |-> 0,
     msg2 |-> None, dampened |-> FALSE]

rekey_in_progress(p) == p.rekey # 0

is_draining(p) == p.prev # None

\* fmp_cutover_is_unconfirmed: draining, and no frame opened by the current keys yet.
fmp_cutover_is_unconfirmed(p) == is_draining(p) /\ ~p.auth

\* abandon_rekey gives back rekey_our_index, or else pending_our_index.
abandoned_index(n, p) == IF p.rekey # 0 THEN p.rekey ELSE our_index(n, p.pend)

abandon_rekey(p) == [p EXCEPT !.rekey = 0, !.pend = None, !.pend_init = FALSE]

set_rekey_state(p, idx) == [p EXCEPT !.rekey = idx]

set_pending_session(p, sess, initiated_by_local) ==
    [p EXCEPT !.pend = sess, !.pend_init = initiated_by_local, !.rekey = 0]

confirm_pending_session(p) ==
    [p EXCEPT !.prev = p.cur, !.cur = p.pend, !.pend = None, !.pend_init = FALSE,
              !.auth = FALSE, !.aged = FALSE, !.dampened = TRUE]

complete_drain(p) == [p EXCEPT !.prev = None]

\* replace_session: the old current session drains, every rekey slot is dropped.
replace_session(p, sess) ==
    [abandon_rekey(p) EXCEPT !.msg2 = None, !.prev = p.cur, !.cur = sess,
                             !.auth = FALSE, !.aged = FALSE]

touch(p) == [p EXCEPT !.healthy = TRUE, !.quiet = 0]

\* active_peer_session_indices: current, rekey, pending and previous.
session_indices(n, p) ==
    IF p = None THEN {}
    ELSE {our_index(n, p.cur), p.rekey, our_index(n, p.pend), our_index(n, p.prev)} \ {0}

(***************************************************************************)
(* The tables of the node.                                                  *)
(***************************************************************************)
allocate(s) == [s EXCEPT !.next = @ + 1, !.in_use = @ \cup {s.next}]

free(s, indices) == [s EXCEPT !.in_use = @ \ indices]

deregister_session_index(s, indices) == [s EXCEPT !.index = @ \ indices]

forget_outbound(s, indices) == [s EXCEPT !.pending_outbound = @ \ indices]

\* Deregister, drop the pending-outbound entry and free.
release(s, indices) == free(forget_outbound(deregister_session_index(s, indices), indices), indices)

\* retire_superseded_session_indices followed by free_retired_peer_session_indices.
retire_superseded(n, s, p) ==
    [release(s, session_indices(n, s.peer) \ session_indices(n, p)) EXCEPT !.peer = p]

\* LinkRegistry.
insert_link(s, id, out, path) ==
    [s EXCEPT !.links = @ \cup {[id |-> id, out |-> out, path |-> path]}, !.addr[path] = id]

remove_link(s, id) ==
    [s EXCEPT !.links = {l \in @ : l.id # id},
              !.addr = [p \in Path |-> IF @[p] = id THEN 0 ELSE @[p]]]

restore_link_address(s, id) ==
    [s EXCEPT !.addr = [p \in Path |->
        IF \E l \in s.links : l.id = id /\ l.path = p THEN id ELSE @[p]]]

\* active_link_for_carrier: the link of the active peer when it uses this path.
active_link_for_carrier(s, path) ==
    IF s.peer # None /\ s.peer.path = path THEN s.peer.link ELSE 0

restore_winner(s, path) == restore_link_address(s, active_link_for_carrier(s, path))

\* retire_connection_candidate (and the clean-up of a superseded candidate).
retire_connection_candidate(s, c) ==
    restore_winner(remove_link(free(forget_outbound([s EXCEPT !.conns = @ \ {c}], {c.idx}),
                                    {c.idx}), c.idx), c.path)

\* insert_with_current_session_index, after promotion's own checks.
insert_peer(n, s, p) == [s EXCEPT !.peer = p, !.index = @ \cup {our_index(n, p.cur)}]

\* Mutant: the indices of the superseded slots are not given back.
replace_current_session_and_path_Leaking(n, s, sess, link, path, init, epoch) ==
    [s EXCEPT !.peer = [replace_session(s.peer, sess)
                            EXCEPT !.link = link, !.path = path, !.init = init,
                                   !.epoch = epoch, !.healthy = TRUE, !.quiet = 0],
              !.index = @ \cup {our_index(n, sess)}]

\* replace_current_session_and_path + finish_active_peer_session_replacement.
replace_current_session_and_path(n, s, sess, link, path, init, epoch) ==
    [retire_superseded(n, s,
        [replace_session(s.peer, sess) EXCEPT !.link = link, !.path = path, !.init = init,
                                              !.epoch = epoch, !.healthy = TRUE, !.quiet = 0])
     EXCEPT !.index = @ \cup {our_index(n, sess)}]

install_pending_rekey_session_and_index(n, s, sess, initiated_by_local, epoch) ==
    [s EXCEPT !.peer = [set_pending_session(@, sess, initiated_by_local)
                            EXCEPT !.epoch = epoch,
                                   !.dampened = @ \/ ~initiated_by_local],
              !.index = @ \cup {our_index(n, sess)}]

\* confirm_pending_peer_session + free_retired_peer_session_indices.
confirm_pending_peer_session(n, s) == retire_superseded(n, s, confirm_pending_session(s.peer))

\* Mutant: the stored msg2 survives the keys it advertises.
abandon_fmp_rekey_for_peer_KeepsMsg2(n, s) ==
    [release(s, {abandoned_index(n, s.peer)}) EXCEPT !.peer = abandon_rekey(@)]

\* abandon_fmp_rekey_for_peer: also forgets the stored msg2.
abandon_fmp_rekey_for_peer(n, s) ==
    [release(s, {abandoned_index(n, s.peer)})
        EXCEPT !.peer = [abandon_rekey(@) EXCEPT !.msg2 = None]]

\* The dual-initiation and retry-exhaustion clean-ups keep the stored msg2.
abandon_own_rekey(n, s) ==
    [release(s, {abandoned_index(n, s.peer)}) EXCEPT !.peer = abandon_rekey(@)]

\* complete_due_fmp_rekey_drain and retire_fmp_rekey_drain_for_dead_path.
retire_drain(n, s) ==
    [free(deregister_session_index(s, {our_index(n, s.peer.prev)}), {our_index(n, s.peer.prev)})
        EXCEPT !.peer = complete_drain(@)]

\* remove_active_peer_inner
remove_active_peer_inner(n, s, preserve_end_to_end) ==
    [remove_link(free(deregister_session_index(forget_outbound(s, {s.peer.rekey}),
                                               session_indices(n, s.peer)),
                      session_indices(n, s.peer)), s.peer.link)
        EXCEPT !.peer = None, !.fsp = IF preserve_end_to_end THEN @ ELSE 0]

\* clear_stale_fsp_unless_recovered_to_remote_epoch
clear_stale_fsp(s, epoch) == [s EXCEPT !.fsp = IF @ = epoch THEN @ ELSE 0]

\* release_hold_for_validation
release_hold(s) == [s EXCEPT !.degr = IF @ = 2 THEN 1 ELSE @]
=============================================================================
