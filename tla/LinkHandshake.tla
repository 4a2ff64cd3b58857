---------------------------- MODULE LinkHandshake ----------------------------
(***************************************************************************)
(* Two nodes establish, refresh, rekey and lose their FMP link.             *)
(*                                                                          *)
(* Each node may dial, answer msg1, complete on msg2, keep an answered      *)
(* handshake as a candidate until a frame proves its keys, rekey on the     *)
(* active link, declare the link dead, and restart.  Messages are delayed,  *)
(* reordered, lost and duplicated.  Node 1 has the smaller NodeAddr.        *)
(*                                                                          *)
(* Timers are events: what the code does once a deadline has passed is an   *)
(* action that may happen at any time.  The idle time of the active peer    *)
(* is kept as a level, quiet: 0 is below one second, 1 below the heartbeat  *)
(* interval, 2 beyond the fifteen seconds that also admit a restart.        *)
(***************************************************************************)
EXTENDS PeerSessions

CONSTANT Worlds

VARIABLES st, net, world

vars == <<st, net, world>>

Node == {1, 2}

Other(n) == 3 - n

\* The other end's name for a path is the same in the model: a path is a pair
\* of UDP socket addresses.
Msg1(n, idx, epoch, path) == [t |-> "msg1", from |-> n, idx |-> idx, epoch |-> epoch, path |-> path]

Msg2(n, sess, epoch, path) == [t |-> "msg2", from |-> n, sess |-> sess, epoch |-> epoch, path |-> path]

Frame(n, sess, path) == [t |-> "frame", from |-> n, sess |-> sess, path |-> path]

\* What a handler leaves behind: the node's state and the messages it sent.
Did(s, out) == [s |-> s, out |-> out]

Ignored(s) == Did(s, {})

MAX_PARALLEL_PATH_CANDIDATES_PER_PEER == 4

\* Mutant: each end lets its own outbound handshake win.
cross_connection_winner_Outbound(n, outbound) == outbound

\* cross_connection_winner: the smaller node's outbound handshake wins.
cross_connection_winner(n, outbound) == (n = 1) = outbound

\* alternate_path_priority_allows_replace: a strictly better (smaller) priority.
alternate_path_priority_allows_replace(n, p, path) ==
    world.priority[n][path] < world.priority[n][p.path]

\* IndexAllocator::allocate fails once no index is left.
exhausted(n, s) == s.next > world.indices[n]

outbound_handshake_slots(s) == world.slots > Cardinality(s.conns)

peer_candidate_slots(s) == MAX_PARALLEL_PATH_CANDIDATES_PER_PEER > Cardinality(s.conns)

outbound_conns(s) == {c \in s.conns : c.out}

(***************************************************************************)
(* Dialling: initiate_connection and start_handshake.                       *)
(***************************************************************************)
fmp_rekey_owns_path(s, path) ==
    /\ s.peer # None
    /\ rekey_in_progress(s.peer) \/ s.peer.pend # None \/ fmp_cutover_is_unconfirmed(s.peer)
    /\ s.peer.path = path \/ s.addr[path] = s.peer.link

has_pending_connection_on_path(s, path) ==
    \E c \in s.conns : c.path = path \/ s.addr[path] = c.idx

is_connecting_to_peer_on_path(s, path) ==
    fmp_rekey_owns_path(s, path) \/ has_pending_connection_on_path(s, path)

outbound_connection(idx, path) ==
    [out |-> TRUE, idx |-> idx, sess |-> None, path |-> path, epoch |-> 0,
     owner |-> 0, owner_unconfirmed |-> FALSE]

start_handshake(s, idx, path) ==
    [insert_link(allocate(s), idx, TRUE, path)
        EXCEPT !.conns = @ \cup {outbound_connection(idx, path)},
               !.pending_outbound = @ \cup {idx}]

(***************************************************************************)
(* Promotion of an answered handshake.                                      *)
(***************************************************************************)
confirms_refresh_of(n, p, c, confirmed) == confirmed /\ c.owner = our_index(n, p.cur)

\* Mutant: a dead path no longer yields to a fresh handshake.
inbound_wins_OverDeadPath(n, s, p, c, confirmed) ==
    \/ c.epoch # p.epoch
    \/ c.path = p.path /\ p.init /\ cross_connection_winner(n, FALSE)

\* this_wins of promote_connection_with_rotation for an inbound connection; an
\* outbound one meets an active peer only in finish_completed_outbound_handshake.
inbound_wins(n, s, p, c, confirmed) ==
    \/ c.epoch # p.epoch
    \/ ~p.healthy
    \/ s.degr = 2
    \/ c.path # p.path /\ p.quiet >= 1
    \/ c.path = p.path /\ c.epoch = p.epoch /\ confirms_refresh_of(n, p, c, confirmed)
    \/ /\ c.path # p.path
       /\ confirms_refresh_of(n, p, c, confirmed) /\ c.owner_unconfirmed
       /\ ~p.init /\ p.msg2 # None
       /\ ~rekey_in_progress(p) /\ p.pend = None /\ ~is_draining(p)
       /\ c.epoch = p.epoch
    \/ c.path # p.path /\ alternate_path_priority_allows_replace(n, p, c.path)
    \/ c.path = p.path /\ p.init /\ cross_connection_winner(n, FALSE)

\* The stored msg2 remembers which of our own dials were already under way when
\* it was generated (handshake_msg2_generated_at >= outbound started_at).
retained_msg2(s, sess) == [sess |-> sess, crossed |-> {c.idx : c \in outbound_conns(s)}]

\* Promotion next to an active peer; a changed epoch drops the old peer without
\* a drain and frees its current index only.
promote_over_active(n, s, c) ==
    IF c.epoch # s.peer.epoch
    THEN clear_stale_fsp(
            insert_peer(n,
                free(deregister_session_index(s, {our_index(n, s.peer.cur)}),
                     {our_index(n, s.peer.cur)}),
                with_session(c.idx, c.sess, c.path, FALSE, c.epoch)),
            c.epoch)
    ELSE replace_current_session_and_path(n, s, c.sess, c.idx, c.path, FALSE, c.epoch)

\* Promotion without an active peer; an FSP session of another epoch goes.
promote_new(n, s, sess, link, path, init, epoch) ==
    clear_stale_fsp(insert_peer(n, s, with_session(link, sess, path, init, epoch)), epoch)

set_handshake_msg2(s, sess) == [s EXCEPT !.peer.msg2 = retained_msg2(s, sess)]

msg2_unless(confirmed, n, s, sess, path) ==
    IF confirmed THEN {} ELSE {Msg2(n, sess, s.epoch, path)}

finish_inbound_won(n, s, c, loser, confirmed) ==
    Did(restore_link_address(remove_link(release_hold(set_handshake_msg2(s, c.sess)), loser), c.idx),
        msg2_unless(confirmed, n, s, c.sess, c.path))

finish_inbound_lost(s, c) ==
    Ignored([restore_winner(remove_link(free(s, {c.idx}), c.idx), c.path)
                EXCEPT !.addr[c.path] = s.peer.link])

\* finish_inbound_handshake of the connection c, which is taken out of conns.
finish_inbound_handshake(n, s, c, confirmed) ==
    IF s.peer = None
    THEN finish_inbound_won(n, promote_new(n, s, c.sess, c.idx, c.path, FALSE, c.epoch),
                            c, 0, confirmed)
    ELSE IF inbound_wins(n, s, s.peer, c, confirmed)
         THEN finish_inbound_won(n, promote_over_active(n, s, c), c, s.peer.link, confirmed)
         ELSE finish_inbound_lost(s, c)

(***************************************************************************)
(* handle_msg1.                                                             *)
(***************************************************************************)
\* reclaim_crossed_handshake_slot: at capacity, the losing side gives up its own
\* unanswered refresh on this carrier.
reclaim_crossed_handshake_slot(n, s, path) ==
    LET losers == {c \in outbound_conns(s) : c.path = path} IN
    IF /\ cross_connection_winner(n, FALSE)
       /\ ~outbound_handshake_slots(s)
       /\ s.peer # None /\ s.peer.path = path
       /\ losers # {}
    THEN retire_connection_candidate(s, CHOOSE c \in losers : TRUE)
    ELSE s

\* has_unpaired_outbound_handshake
has_unpaired_outbound_handshake(s) == s.conns # {} /\ \A c \in s.conns : c.out

refuses_candidate(s) ==
    \/ ~has_unpaired_outbound_handshake(s) /\ ~peer_candidate_slots(s)
    \/ /\ s.peer # None \/ ~has_unpaired_outbound_handshake(s)
       /\ ~outbound_handshake_slots(s)

binds_refresh_owner(p) == p # None /\ (~p.init \/ p.auth)

inbound_connection(n, s, m, idx) ==
    [out |-> FALSE, idx |-> idx, sess |-> Session(m.from, m.idx, idx), path |-> m.path,
     epoch |-> m.epoch,
     owner |-> IF binds_refresh_owner(s.peer) THEN our_index(n, s.peer.cur) ELSE 0,
     owner_unconfirmed |-> binds_refresh_owner(s.peer) /\ ~s.peer.auth]

await_confirmation(s) == s.peer # None \/ s.fsp # 0

admit_connection(n, s, c) ==
    IF await_confirmation(s)
    THEN Did([s EXCEPT !.conns = @ \cup {c}], {Msg2(n, c.sess, s.epoch, c.path)})
    ELSE finish_inbound_handshake(n, s, c, FALSE)

accept_reclaimed(n, s, m) ==
    IF refuses_candidate(s) \/ exhausted(n, s) THEN Ignored(s)
    ELSE admit_connection(n, insert_link(allocate(s), s.next, FALSE, m.path),
                          inbound_connection(n, s, m, s.next))

\* From the ACL check on: a fresh inbound handshake.
accept_handshake(n, s, m, superseded) ==
    accept_reclaimed(n,
        reclaim_crossed_handshake_slot(n,
            IF superseded = {} THEN s
            ELSE retire_connection_candidate(s, CHOOSE c \in superseded : TRUE),
            m.path),
        m)

\* same_epoch_msg1_is_direct_path_recovery
same_epoch_msg1_is_direct_path_recovery(s) == ~s.peer.healthy \/ s.degr = 2

\* same_path_msg1_is_established_rekey
same_path_msg1_is_established_rekey(s, m) ==
    /\ ~\E c \in outbound_conns(s) : c.path = m.path
    /\ world.rekey
    /\ s.peer.auth \/ s.degr > 0 \/ is_draining(s.peer) \/ s.peer.aged
    /\ s.peer.path = m.path

duplicate_rekey_msg1(n, p, m) ==
    /\ \/ their_index(n, p.pend) = m.idx
       \/ is_draining(p) /\ their_index(n, p.cur) = m.idx
    /\ p.msg2 # None

install_responder_rekey(n, s, sess, path) ==
    Did(set_handshake_msg2(
            install_pending_rekey_session_and_index(n, s, sess, FALSE, s.peer.epoch), sess),
        {Msg2(n, sess, s.epoch, path)})

respond_as_responder(n, s, m) ==
    IF exhausted(n, s) THEN Ignored(s)
    ELSE install_responder_rekey(n, allocate(s), Session(m.from, m.idx, s.next), m.path)

\* The dual-initiation rule, after an orphaned responder session was dropped.
resolve_dual_initiation(n, s, m, local_rekey) ==
    IF local_rekey /\ n = 1 THEN Ignored(s)
    ELSE respond_as_responder(n, IF local_rekey THEN abandon_own_rekey(n, s) ELSE s, m)

respond_to_rekey(n, s, m) ==
    IF s.peer.pend # None /\ s.peer.pend_init THEN Ignored(s)
    ELSE resolve_dual_initiation(n,
            IF s.peer.pend # None THEN abandon_fmp_rekey_for_peer(n, s) ELSE s,
            m, rekey_in_progress(s.peer))

resend_msg2(n, s, path) == Did(s, {Msg2(n, s.peer.msg2.sess, s.epoch, path)})

\* A msg1 of the epoch we know, while the peer is active.
same_epoch_msg1(n, s, m, superseded) ==
    IF duplicate_rekey_msg1(n, s.peer, m) THEN resend_msg2(n, s, m.path)
    ELSE IF same_path_msg1_is_established_rekey(s, m) THEN respond_to_rekey(n, s, m)
    ELSE IF /\ ~same_epoch_msg1_is_direct_path_recovery(s)
            /\ their_index(n, s.peer.cur) = m.idx /\ s.peer.msg2 # None
    THEN resend_msg2(n, s, m.path)
    ELSE accept_handshake(n, s, m, superseded)

\* A msg1 of another epoch: a restart, unless the peering is live or dampened.
restart_msg1(n, s, m, superseded) ==
    IF s.peer.quiet < 2 \/ s.damp THEN Ignored(s)
    ELSE accept_handshake(n,
            [remove_active_peer_inner(n, s, s.fsp = m.epoch) EXCEPT !.damp = TRUE],
            m, superseded)

\* A msg1 is swallowed when its address names an inbound link that neither the
\* active peer nor a connection owns.
address_is_orphaned(s, path) ==
    /\ \E l \in s.links : l.id = s.addr[path] /\ ~l.out
    /\ s.peer = None \/ s.peer.link # s.addr[path]
    /\ ~\E c \in s.conns : c.idx = s.addr[path]

classified_msg1(n, s, m, retained) ==
    IF \E c \in retained : c.sess.ii = m.idx
    THEN Did(s, {Msg2(n, c.sess, s.epoch, m.path) : c \in {d \in retained : d.sess.ii = m.idx}})
    ELSE IF retained = {} /\ address_is_orphaned(s, m.path) THEN Ignored(s)
    ELSE IF s.peer = None THEN accept_handshake(n, s, m, retained)
    ELSE IF m.epoch # s.peer.epoch THEN restart_msg1(n, s, m, retained)
    ELSE same_epoch_msg1(n, s, m, retained)

handle_msg1(n, s, m) ==
    classified_msg1(n, s, m, {c \in s.conns : ~c.out /\ c.path = m.path})

(***************************************************************************)
(* handle_msg2.                                                             *)
(***************************************************************************)
\* Take the finished outbound connection out and drop its table entries.
drop_outbound(s, c) ==
    remove_link(free(forget_outbound([s EXCEPT !.conns = @ \ {c}], {c.idx}), {c.idx}), c.idx)

\* The outbound handshake loses to the active session.
keep_active(s, c) == restore_link_address(drop_outbound(s, c), s.peer.link)

take_outbound(n, s, c, sess, epoch) ==
    restore_link_address(
        remove_link(
            forget_outbound(
                replace_current_session_and_path(n, [s EXCEPT !.conns = @ \ {c}],
                                                 sess, c.idx, c.path, TRUE, epoch),
                {c.idx}),
            s.peer.link),
        c.idx)

\* handshake_msg2_generated_at >= outbound_started_at
simultaneous_inbound_session(p, c) == p.msg2 # None /\ c.idx \in p.msg2.crossed

active_peer_unusable(p) == ~p.healthy \/ fmp_cutover_is_unconfirmed(p)

existing_path_unusable(s, p, c) ==
    /\ ~simultaneous_inbound_session(p, c)
    /\ active_peer_unusable(p) \/ (c.path = p.path /\ p.quiet = 2) \/ s.degr = 2

\* The current carrier is kept: it is live, or this is a late duplicate of it, or
\* the other path has no better priority.
preserves_carrier(n, s, p, c) ==
    /\ ~existing_path_unusable(s, p, c)
    /\ \/ /\ ~simultaneous_inbound_session(p, c) /\ ~active_peer_unusable(p)
          /\ p.quiet < 2 \/ c.path = p.path
       \/ c.path # p.path /\ ~alternate_path_priority_allows_replace(n, p, c.path)

\* The fresh keys carry a heartbeat at once (complete_outbound_handshake_bootstrap).
bootstrap(n, s) == Did(s, {Frame(n, s.peer.cur, s.peer.path)})

complete_over_active(n, s, p, c, m) ==
    IF m.epoch # p.epoch
    THEN bootstrap(n, clear_stale_fsp(release_hold(take_outbound(n, s, c, m.sess, m.epoch)), m.epoch))
    ELSE IF preserves_carrier(n, s, p, c) THEN Ignored(keep_active(s, c))
    ELSE IF existing_path_unusable(s, p, c) \/ c.path # p.path
    THEN bootstrap(n, release_hold(take_outbound(n, s, c, m.sess, m.epoch)))
    ELSE IF cross_connection_winner(n, TRUE)
    THEN bootstrap(n, take_outbound(n, s, c, m.sess, p.epoch))
    ELSE bootstrap(n, keep_active(s, c))

\* retire_losing_inbound_handshakes, after our outbound was promoted.
losing_inbound(n, s) ==
    {c \in s.conns : /\ cross_connection_winner(n, TRUE)
                     /\ ~c.out /\ c.epoch = s.peer.epoch /\ c.path = s.peer.path}

retire_losing_inbound_handshakes(n, s) ==
    IF losing_inbound(n, s) = {} THEN s
    ELSE retire_connection_candidate(s, CHOOSE c \in losing_inbound(n, s) : TRUE)

promote_outbound(n, s, c, m) ==
    retire_losing_inbound_handshakes(n,
        release_hold(promote_new(n, forget_outbound([s EXCEPT !.conns = @ \ {c}], {c.idx}),
                                 m.sess, c.idx, c.path, TRUE, m.epoch)))

finish_completed_outbound_handshake(n, s, c, m) ==
    IF s.peer = None THEN bootstrap(n, promote_outbound(n, s, c, m))
    ELSE complete_over_active(n, s, s.peer, c, m)

\* The msg2 of a rekey: the pending session waits for the cutover.
complete_rekey(n, s, m) ==
    forget_outbound(
        IF m.epoch = s.peer.epoch
        THEN install_pending_rekey_session_and_index(n, s, m.sess, TRUE, m.epoch)
        ELSE clear_stale_fsp(
                install_pending_rekey_session_and_index(n, s, m.sess, TRUE, m.epoch), m.epoch),
        {m.sess.ii})

handle_msg2(n, s, m) ==
    IF m.sess.ii \notin s.pending_outbound THEN Ignored(s)
    ELSE IF \E c \in outbound_conns(s) : c.idx = m.sess.ii
    THEN finish_completed_outbound_handshake(n, s,
            CHOOSE c \in outbound_conns(s) : c.idx = m.sess.ii, m)
    ELSE IF s.peer # None /\ s.peer.rekey = m.sess.ii THEN Ignored(complete_rekey(n, s, m))
    ELSE Ignored(forget_outbound(s, {m.sess.ii}))

(***************************************************************************)
(* An encrypted frame.                                                      *)
(***************************************************************************)
\* record_authenticated_fmp_receive: a same-socket UDP frame moves the path, and
\* authenticated traffic revives a stale peer.
record_authenticated_fmp_receive(s, path) ==
    [s EXCEPT !.peer = [touch(@) EXCEPT !.path = path]]

authenticated_frame(s, sess, path) ==
    release_hold([record_authenticated_fmp_receive(s, path)
                    EXCEPT !.peer.auth = @ \/ sess = s.peer.cur])

\* A frame opened by the pending keys first makes them current.
receive_on_owner(n, s, f) ==
    authenticated_frame(IF f.sess = s.peer.pend THEN confirm_pending_peer_session(n, s) ELSE s,
                        f.sess, f.path)

\* The proof is deferred to the owner it just created.
deliver_proof(n, did, f) ==
    IF did.s.peer.cur = f.sess THEN Did(receive_on_owner(n, did.s, f), did.out) ELSE did

confirm_candidate(n, s, c, f) ==
    IF s.peer # None /\ s.peer.epoch # c.epoch
    THEN Ignored(retire_connection_candidate(s, c))
    ELSE deliver_proof(n, finish_inbound_handshake(n, [s EXCEPT !.conns = @ \ {c}], c, TRUE), f)

candidates_of(s, f) == {c \in s.conns : ~c.out /\ c.sess = f.sess /\ c.path = f.path}

receive_frame(n, s, f) ==
    IF candidates_of(s, f) # {}
    THEN confirm_candidate(n, s, CHOOSE c \in candidates_of(s, f) : TRUE, f)
    ELSE IF /\ s.peer # None /\ our_index(n, f.sess) \in s.index
            /\ f.sess \in {s.peer.cur, s.peer.pend, s.peer.prev}
    THEN Ignored(receive_on_owner(n, s, f))
    ELSE Ignored(s)

(***************************************************************************)
(* The behaviours.                                                          *)
(***************************************************************************)
FreshNode ==
    [epoch |-> 1, next |-> 1, peer |-> None, conns |-> {}, links |-> {},
     addr |-> [p \in Path |-> 0], in_use |-> {}, index |-> {}, pending_outbound |-> {},
     fsp |-> 0, damp |-> FALSE, degr |-> 0]

\* The link node 1 dialled over the first path, up and proven at both ends.
UpNode(n) ==
    [insert_peer(n, insert_link(allocate(FreshNode), 1, n = 1, world.first),
                 [with_session(1, Session(1, 1, 1), world.first, n = 1, 1)
                     EXCEPT !.auth = TRUE,
                            !.msg2 = IF n = 1 THEN None
                                     ELSE [sess |-> Session(1, 1, 1), crossed |-> {}]])
        EXCEPT !.fsp = IF world.fsp THEN 1 ELSE 0]

Init ==
    /\ world \in Worlds
    /\ st = [n \in Node |-> IF world.up THEN UpNode(n) ELSE FreshNode]
    /\ net = {}

Step(n, did) == st' = [st EXCEPT ![n] = did.s] /\ net' = net \cup did.out

Local(n, s) == st' = [st EXCEPT ![n] = s] /\ UNCHANGED net

InFlight(kind, n) == \E m \in net : m.t = kind /\ m.from = n

\* The timers that run in this world.
Runs(timer) == timer \in world.timers

Spend(budget) ==
    /\ world[budget] > 0
    /\ world' = [world EXCEPT ![budget] = @ - 1]

handle(n, s, m) ==
    CASE m.t = "msg1" -> handle_msg1(n, s, m)
      [] m.t = "msg2" -> handle_msg2(n, s, m)
      [] OTHER -> receive_frame(n, s, m)

Receive(m, did) ==
    /\ st' = [st EXCEPT ![Other(m.from)] = did.s]
    /\ net' = (net \ {m}) \cup did.out

Deliver(m) ==
    /\ m \in net
    /\ Receive(m, handle(Other(m.from), st[Other(m.from)], m))
    /\ UNCHANGED world

\* A duplicate stays behind; the replay window rejects a repeated frame.
Duplicate(m) ==
    /\ m \in net /\ m.t # "frame"
    /\ Spend("duplicates")
    /\ Step(Other(m.from), handle(Other(m.from), st[Other(m.from)], m))

Lose(m) == m \in net /\ Spend("losses") /\ net' = net \ {m} /\ UNCHANGED st

\* try_peer_addresses dials a missing peer, a better path, and refreshes a stale
\* or quiet one.
wants_dial(s, path) ==
    s.peer # None => (path # s.peer.path \/ ~s.peer.healthy \/ s.peer.quiet = 2)

Dial(n, path) ==
    /\ path \in world.paths /\ n \in world.dialers
    /\ wants_dial(st[n], path)
    /\ ~is_connecting_to_peer_on_path(st[n], path)
    /\ peer_candidate_slots(st[n]) /\ outbound_handshake_slots(st[n]) /\ ~exhausted(n, st[n])
    /\ Step(n, Did(start_handshake(st[n], st[n].next, path),
                   {Msg1(n, st[n].next, st[n].epoch, path)}))
    /\ UNCHANGED world

\* resend_pending_handshakes
ResendMsg1(n) ==
    /\ Spend("resends")
    /\ \E c \in outbound_conns(st[n]) :
          /\ Msg1(n, c.idx, st[n].epoch, c.path) \notin net
          /\ Step(n, Did(st[n], {Msg1(n, c.idx, st[n].epoch, c.path)}))

\* Deadlines of a prompt world are longer than any exchange: they pass only when
\* nothing is on its way, and for an answered handshake only when
\* the initiator neither awaits nor uses its keys.
Overdue(n) ==
    /\ st[n].peer # None /\ st[n].peer.healthy /\ st[n].peer.quiet = 2
    /\ ~rekey_in_progress(st[n].peer)

Calm(n) == world.prompt => net = {} /\ ~Overdue(Other(n))

Undecided(n, sess) ==
    \/ sess.ii \in st[Other(n)].pending_outbound
    \/ st[Other(n)].peer # None /\ sess \in {st[Other(n)].peer.cur, st[Other(n)].peer.pend}

\* The other end sends on keys this end can open.
HeartbeatsArrive(n) ==
    /\ st[Other(n)].peer # None
    /\ st[Other(n)].peer.cur \in {st[n].peer.cur, st[n].peer.pend, st[n].peer.prev}
                                \cup {c.sess : c \in st[n].conns}

\* The thirty seconds of a handshake are longer than the silence that makes a
\* peer dead.
Noticed(n) == st[n].peer # None => st[n].peer.quiet = 2 \/ HeartbeatsArrive(n)

\* check_timeouts
Timeout(n) ==
    /\ Runs("timeout") /\ Calm(n)
    /\ \E c \in st[n].conns :
          /\ world.prompt => IF c.out THEN Noticed(Other(n)) ELSE ~Undecided(n, c.sess)
          /\ Local(n, retire_connection_candidate(st[n], c))
    /\ UNCHANGED world

\* A heartbeat or any other frame on the current keys.
SendFrame(n) ==
    /\ st[n].peer # None
    /\ Frame(n, st[n].peer.cur, st[n].peer.path) \notin net
    /\ IF world.prompt THEN ~InFlight("frame", n) /\ UNCHANGED world ELSE Spend("frames")
    /\ Step(n, Did(st[n], {Frame(n, st[n].peer.cur, st[n].peer.path)}))

(***************************************************************************)
(* Rekeying the active link: check_rekey and resend_pending_rekeys.         *)
(***************************************************************************)
may_initiate_rekey(n, s) ==
    ~is_connecting_to_peer_on_path(s, s.peer.path) /\ ~exhausted(n, s)

initiate_rekey(n, s) ==
    Did([allocate(s) EXCEPT !.peer = set_rekey_state(@, s.next),
                            !.pending_outbound = @ \cup {s.next}],
        {Msg1(n, s.next, s.epoch, s.peer.path)})

RekeyInitiate(n) ==
    LET p == st[n].peer IN
    /\ world.rekey /\ p # None /\ Spend("rekeys")
    /\ p.healthy /\ ~rekey_in_progress(p) /\ p.pend = None /\ ~is_draining(p) /\ ~p.dampened
    /\ may_initiate_rekey(n, st[n])
    /\ Step(n, initiate_rekey(n, st[n]))

\* handle_decrypt_failure at its threshold: a rekey is started on any link, stale,
\* draining or dampened; the peer goes if none can be started or rekeys are off.
DecryptFailures(n) ==
    LET p == st[n].peer IN
    /\ p # None /\ Spend("failures")
    /\ world.rekey => ~rekey_in_progress(p) /\ p.pend = None
    /\ IF world.rekey /\ may_initiate_rekey(n, st[n])
       THEN Step(n, initiate_rekey(n, st[n]))
       ELSE Local(n, remove_active_peer_inner(n, st[n], FALSE))

ResendRekey(n) ==
    LET p == st[n].peer IN
    /\ Spend("resends")
    /\ p # None /\ rekey_in_progress(p)
    /\ Msg1(n, p.rekey, st[n].epoch, p.path) \notin net
    /\ Step(n, Did(st[n], {Msg1(n, p.rekey, st[n].epoch, p.path)}))

\* exhaust_fmp_rekey_msg1_resend_budgets
RekeyExhausted(n) ==
    /\ Runs("timeout") /\ Calm(n)
    /\ st[n].peer # None /\ rekey_in_progress(st[n].peer)
    /\ Local(n, abandon_own_rekey(n, st[n]))
    /\ UNCHANGED world

\* cutover_due_fmp_rekey: the initiator switches after its grace period.
Cutover(n) ==
    /\ st[n].peer # None /\ st[n].peer.pend # None /\ st[n].peer.pend_init
    /\ ~rekey_in_progress(st[n].peer)
    /\ Local(n, release_hold(confirm_pending_peer_session(n, st[n])))
    /\ UNCHANGED world

\* complete_due_fmp_rekey_drain
DrainDone(n) ==
    /\ Runs("drain") /\ Calm(n)
    /\ st[n].peer # None /\ is_draining(st[n].peer)
    /\ Local(n, retire_drain(n, st[n]))
    /\ UNCHANGED world

\* expire_unconfirmed_fmp_rekeys
ExpireUnconfirmed(n) ==
    /\ Runs("timeout") /\ Calm(n)
    /\ st[n].peer # None /\ st[n].peer.pend # None /\ ~st[n].peer.pend_init
    /\ world.prompt => ~Undecided(n, st[n].peer.pend)
    /\ Local(n, abandon_fmp_rekey_for_peer(n, st[n]))
    /\ UNCHANGED world

(***************************************************************************)
(* Time, liveness and removal.                                              *)
(***************************************************************************)
\* No authenticated frame for longer; thirty seconds since the keys were made;
\* the rekey and the restart dampeners run out; the payload hold runs out.
Quiet(n) ==
    /\ Runs("quiet")
    /\ st[n].peer # None /\ st[n].peer.quiet < 2
    /\ (world.prompt /\ st[n].peer.quiet = 1) =>
          Calm(n) /\ ~HeartbeatsArrive(n)
    /\ Local(n, [st[n] EXCEPT !.peer.quiet = @ + 1])
    /\ UNCHANGED world

Age(n) ==
    /\ Runs("age")
    /\ st[n].peer # None /\ ~st[n].peer.aged
    /\ Local(n, [st[n] EXCEPT !.peer.aged = TRUE])
    /\ UNCHANGED world

DampenerExpires(n) ==
    /\ Runs("dampener")
    /\ \/ st[n].damp /\ Local(n, [st[n] EXCEPT !.damp = FALSE])
       \/ /\ st[n].peer # None /\ st[n].peer.dampened
          /\ Local(n, [st[n] EXCEPT !.peer.dampened = FALSE])
    /\ UNCHANGED world

HoldExpires(n) == Runs("hold") /\ st[n].degr = 2 /\ Local(n, release_hold(st[n])) /\ UNCHANGED world

\* check_link_heartbeats for a configured peer: the rekey and the drain go, the
\* path is marked stale and its payload held back.
LinkDead(n) ==
    /\ Runs("dead") /\ Overdue(n)
    /\ world.prompt => net = {}
    /\ Local(n, [retire_drain(n, abandon_fmp_rekey_for_peer(n, st[n]))
                    EXCEPT !.peer.healthy = FALSE, !.degr = 2])
    /\ UNCHANGED world

\* clear_session_direct_path_degraded, once payload came back on the direct path.
PayloadValidated(n) ==
    /\ Runs("validate")
    /\ st[n].degr > 0 /\ st[n].peer # None /\ ~rekey_in_progress(st[n].peer)
    /\ Local(n, [abandon_fmp_rekey_for_peer(n, st[n]) EXCEPT !.degr = 0])
    /\ UNCHANGED world

\* remove_active_peer: a disconnect, a dead discovered peer.
RemovePeer(n) ==
    /\ st[n].peer # None
    /\ Spend("removals")
    /\ Local(n, remove_active_peer_inner(n, st[n], FALSE))

\* A new process: a new startup epoch, everything else empty.
Restart(n) ==
    /\ Spend("restarts")
    /\ Local(n, [FreshNode EXCEPT !.epoch = st[n].epoch + 1, !.next = st[n].next])

\* An end-to-end session with the other process, possibly over another route.
RoutedFsp(n) ==
    /\ world.fsp /\ st[n].fsp # st[Other(n)].epoch
    /\ Local(n, [st[n] EXCEPT !.fsp = st[Other(n)].epoch])
    /\ UNCHANGED world

NodeStep(n) ==
    \/ \E path \in Path : Dial(n, path)
    \/ ResendMsg1(n) \/ Timeout(n) \/ SendFrame(n)
    \/ RekeyInitiate(n) \/ DecryptFailures(n) \/ ResendRekey(n) \/ RekeyExhausted(n)
    \/ Cutover(n) \/ DrainDone(n) \/ ExpireUnconfirmed(n)
    \/ Quiet(n) \/ Age(n) \/ DampenerExpires(n) \/ HoldExpires(n)
    \/ LinkDead(n) \/ PayloadValidated(n)
    \/ RemovePeer(n) \/ Restart(n) \/ RoutedFsp(n)

Next ==
    \/ \E m \in net : Deliver(m) \/ Duplicate(m) \/ Lose(m)
    \/ \E n \in Node : NodeStep(n)

(***************************************************************************)
(* Properties.                                                              *)
(***************************************************************************)
conn_indices(s) == {c.idx : c \in s.conns}

\* Every allocated index has exactly one owner that will free it, every dispatch
\* and pending-outbound entry leads to its owner, and every link is owned.
IndicesAccounted ==
    \A n \in Node : LET s == st[n] IN
        /\ s.in_use = conn_indices(s) \cup session_indices(n, s.peer)
        /\ s.peer # None =>
              /\ conn_indices(s) \cap session_indices(n, s.peer) = {}
              /\ s.index = session_indices(n, s.peer) \ {s.peer.rekey}
        /\ s.peer = None => s.index = {}
        /\ s.pending_outbound = {c.idx : c \in outbound_conns(s)}
                \cup (IF s.peer # None THEN {s.peer.rekey} \ {0} ELSE {})
        /\ {l.id : l \in s.links} =
                conn_indices(s) \cup (IF s.peer # None THEN {s.peer.link} ELSE {})
        /\ \A p \in Path : s.addr[p] # 0 => s.addr[p] \in {l.id : l \in s.links}

Holds(n, sess) ==
    \/ \E c \in st[n].conns : c.sess = sess
    \/ st[n].peer # None /\ sess \in {st[n].peer.cur, st[n].peer.pend, st[n].peer.prev}

\* A msg2, first or repeated, names keys that the responder holds.
AnswersAreHeld ==
    [][\A m \in net' \ net : m.t = "msg2" =>
          Holds(m.from, m.sess)']_vars

Matched ==
    /\ \A n \in Node : st[n].peer # None
    /\ \A n \in Node : st[n].peer.auth /\ st[n].peer.healthy
    /\ st[1].peer.cur = st[2].peer.cur

\* When deadlines are longer than exchanges, proven keys that both ends use are
\* given up, short of a restart, only for keys the other end already holds.
MatchedLinkIsKept ==
    [][\A n \in Node :
         (/\ world.prompt /\ Matched
          /\ st'[n].peer # None /\ st'[n].peer.cur # st[n].peer.cur
          /\ st'[n].peer.epoch = st[n].peer.epoch)
         => Holds(Other(n), st'[n].peer.cur)]_vars

\* Once faults stop and deadlines are longer than exchanges, the two ends settle
\* on one proven link and keep it.
LinkHeals == world.prompt => <>[]Matched

\* What the periodic ticks of a node do once their deadlines pass.
Tick(n) ==
    \/ \E path \in Path : Dial(n, path)
    \/ Timeout(n) \/ RekeyExhausted(n) \/ Cutover(n) \/ DrainDone(n) \/ ExpireUnconfirmed(n)
    \/ DampenerExpires(n) \/ HoldExpires(n) \/ LinkDead(n)

Fairness ==
    /\ []<>(net = {})
    /\ \A n \in Node : SF_vars(Tick(n)) /\ SF_vars(Quiet(n)) /\ WF_vars(SendFrame(n))

Spec == Init /\ [][Next]_vars /\ (world.prompt => Fairness)
=============================================================================
