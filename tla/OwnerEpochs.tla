----------------------------- MODULE OwnerEpochs -----------------------------
(***************************************************************************)
(* The key epochs of one dataplane owner (OwnerState in                     *)
(* dataplane/owner_state.rs) as operators on a record.  An owner serves one *)
(* protocol, "Fmp" or "Fsp" (OwnerId::protocol), so the fmp_ and fsp_ twins *)
(* of a field are one field here.                                           *)
(*                                                                          *)
(* A Noise session is a number: it stands for its open key, its seal key    *)
(* and its SendCounterAuthority, which the code always installs together    *)
(* (same_session compares the authorities by identity).                     *)
(***************************************************************************)
EXTENDS ReplayRing

NoSession == 0          \* None of an Option holding a key or an authority
NoBit == -1             \* None of an Option<bool>
KBits == {0, 1}
ReceiveEpochs == {"Current", "Previous", "Pending"}
NoEpoch == <<"None", 0>>
NoInstance == -1
NotDraining == [generation |-> 0, promoted |-> NoInstance]

\* OwnerState::new
NewOwner(protocol, generation, k, draining) ==
    [protocol |-> protocol,
     generation |-> generation,
     crypto_keys |-> NoSession,
     send_counter_authority |-> NoSession,
     send_headers |-> [receiver_idx |-> NoSession, k |-> 0],
     replay_window |-> EmptyWindow,
     current_k_bit |-> k,
     previous_draining_k_bit |-> draining,
     previous_open |-> NoSession,
     previous_replay_window |-> EmptyWindow,
     draining_generation |-> NotDraining,
     pending_open |-> NoSession,
     pending_seal |-> NoSession,
     pending_authority |-> NoSession,
     pending_k_bit |-> NoBit,
     pending_authenticated_k_bit |-> NoBit,
     pending_replay_window |-> EmptyWindow,
     pending_receive_epoch_instance |-> 0,
     pending_replay_counters |-> {}]

\* The fields of the pending epoch, which are always reset together.
WithoutPending(o) ==
    [o EXCEPT !.pending_open = NoSession, !.pending_seal = NoSession,
              !.pending_authority = NoSession, !.pending_k_bit = NoBit,
              !.pending_authenticated_k_bit = NoBit,
              !.pending_replay_window = EmptyWindow]

WithoutPrevious(o) ==
    [o EXCEPT !.previous_open = NoSession,
              !.previous_replay_window = EmptyWindow,
              !.draining_generation = NotDraining]

advance_pending_receive_epoch(o) ==
    [o EXCEPT !.pending_receive_epoch_instance = @ + 1,
              !.pending_replay_counters = {r \in @ : r[1][1] # "Pending"}]

clear_pending_receive_epoch(o) == WithoutPending(advance_pending_receive_epoch(o))

\* rekey: everything that belongs to the old generation is forgotten.
rekey(o, generation) ==
    [WithoutPrevious(WithoutPending(o)) EXCEPT
        !.generation = generation,
        !.replay_window = EmptyWindow,
        !.pending_replay_counters = {},
        !.send_counter_authority = NoSession,
        !.crypto_keys = NoSession,
        !.send_headers = [receiver_idx |-> NoSession, k |-> 0],
        !.current_k_bit = 0,
        !.previous_draining_k_bit = NoBit]

set_epoch(o, k, draining) ==
    LET keyed == [o EXCEPT !.current_k_bit = k,
                           !.previous_draining_k_bit = draining]
        drained == IF draining = NoBit THEN WithoutPrevious(keyed) ELSE keyed
    IN  IF o.pending_k_bit = k THEN clear_pending_receive_epoch(drained) ELSE drained

\* A config carries [generation, session, k, draining].
apply_live_config(o, config) ==
    LET rekeyed == IF config.generation # o.generation
                   THEN rekey(o, config.generation) ELSE o
    IN  set_epoch([rekeyed EXCEPT
                      !.send_counter_authority = config.session,
                      !.send_headers = [receiver_idx |-> config.session, k |-> config.k]],
                  config.k, config.draining)

is_pending_session(o, session) ==
    o.pending_authority # NoSession /\ o.pending_authority = session

retains_draining_generation(o, generation) ==
    /\ o.draining_generation # NotDraining
    /\ o.draining_generation.generation = generation
    /\ o.previous_open # NoSession

remap_draining_receive_epoch(draining, id) ==
    IF id[1] = "Current" THEN <<"Previous", 0>>
    ELSE IF /\ id[1] = "Pending"
            /\ draining.promoted # NoInstance
            /\ draining.promoted = id[2]
         THEN <<"Current", 0>>
    ELSE NoEpoch

\* Mutant: reservations of the old epoch are dropped at the cutover.
RemappedReservations_dropped(draining, reservations) == {}

RemappedReservations(draining, reservations) ==
    {<<remap_draining_receive_epoch(draining, r[1]), r[2]>> :
        r \in {x \in reservations :
                  remap_draining_receive_epoch(draining, x[1]) # NoEpoch}}

\* Mutant: the promoted epoch starts with an empty replay window.
promoted_pending_replay_lost(o) == EmptyWindow

promoted_pending_replay(o) == o.pending_replay_window

\* install_fmp_session and install_fsp_session
install_session(o, config) ==
    LET changed  == config.generation # o.generation
        promoted == changed /\ is_pending_session(o, config.session)
        drains   == changed /\ config.draining # NoBit /\ o.crypto_keys # NoSession
        draining == [generation |-> o.generation,
                     promoted |-> IF promoted THEN o.pending_receive_epoch_instance
                                              ELSE NoInstance]
        applied  == [apply_live_config(o, config) EXCEPT !.crypto_keys = config.session]
        live     == IF promoted
                    THEN [WithoutPending(applied) EXCEPT !.replay_window = promoted_pending_replay(o)]
                    ELSE applied
    IN  IF drains
        THEN [live EXCEPT
                 !.previous_open = o.crypto_keys,
                 !.previous_replay_window = o.replay_window,
                 !.draining_generation = draining,
                 !.pending_replay_counters =
                     @ \cup RemappedReservations(draining, o.pending_replay_counters)]
        ELSE IF live.previous_draining_k_bit = NoBit THEN WithoutPrevious(live) ELSE live

\* install_fmp_pending_receive_epoch and install_fsp_pending_epoch; FMP keeps
\* no seal key beside the pending open key.
install_pending_epoch(o, k, session) ==
    IF k = o.current_k_bit THEN o
    ELSE [advance_pending_receive_epoch(o) EXCEPT
             !.pending_open = session,
             !.pending_seal = IF o.protocol = "Fsp" THEN session ELSE NoSession,
             !.pending_authority = session,
             !.pending_k_bit = k,
             !.pending_authenticated_k_bit = NoBit,
             !.pending_replay_window = EmptyWindow]

has_pending_receive_epoch(o, k) ==
    o.pending_k_bit = k /\ o.pending_open # NoSession

\* confirm_fmp_pending_receive_epoch, when it returns true
confirm_pending_receive_epoch(o, k) == [o EXCEPT !.pending_k_bit = k]

-----------------------------------------------------------------------------
open_key(o, epoch) ==
    CASE epoch = "Current"  -> o.crypto_keys
      [] epoch = "Previous" -> o.previous_open
      [] epoch = "Pending"  -> o.pending_open

seal_key(o, epoch) == IF epoch = "Pending" THEN o.pending_seal ELSE o.crypto_keys

replay_window_for_epoch(o, epoch) ==
    CASE epoch = "Current"  -> o.replay_window
      [] epoch = "Previous" -> o.previous_replay_window
      [] epoch = "Pending"  -> o.pending_replay_window

\* An epoch whose window is None cannot accept.
has_window(o, epoch) == epoch = "Current" \/ open_key(o, epoch) # NoSession

WithWindow(o, epoch, window) ==
    CASE epoch = "Current"  -> [o EXCEPT !.replay_window = window]
      [] epoch = "Previous" -> [o EXCEPT !.previous_replay_window = window]
      [] epoch = "Pending"  -> [o EXCEPT !.pending_replay_window = window]

\* The epoch under which a packet is read: FMP trusts the ingress route's tag,
\* FSP the K flag of the packet.  NoEpoch is StaleGeneration.
routed_epoch(o, packet) ==
    IF packet.generation = o.generation THEN <<packet.epoch, 0>>
    ELSE IF ~ retains_draining_generation(o, packet.generation) THEN NoEpoch
    ELSE IF o.protocol = "Fsp" THEN <<packet.epoch, 0>>
    ELSE remap_draining_receive_epoch(o.draining_generation,
             <<packet.epoch, o.draining_generation.promoted>>)

\* Mutant: a draining epoch is read under the current key.
uses_previous_never(o, packet, routed) == FALSE

uses_previous(o, packet, routed) ==
    /\ o.previous_open # NoSession
    /\ IF o.protocol = "Fmp" THEN routed = "Previous"
       ELSE /\ o.previous_draining_k_bit = packet.k
            /\ packet.k # o.current_k_bit

uses_pending(o, packet, routed) ==
    /\ o.pending_open # NoSession
    /\ IF o.protocol = "Fmp" THEN routed = "Pending"
       ELSE /\ o.pending_k_bit = packet.k
            /\ packet.k # o.current_k_bit

receive_epoch(o, packet, routed) ==
    IF uses_previous(o, packet, routed) THEN "Previous"
    ELSE IF uses_pending(o, packet, routed) THEN "Pending"
    ELSE "Current"

epoch_identity(o, epoch) ==
    <<epoch, IF epoch = "Pending" THEN o.pending_receive_epoch_instance ELSE 0>>

\* The identity a reservation goes by in the owner's present generation.
identity_now(o, reservation) ==
    IF reservation.generation = o.generation THEN reservation.receive_epoch
    ELSE IF retains_draining_generation(o, reservation.generation)
    THEN remap_draining_receive_epoch(o.draining_generation, reservation.receive_epoch)
    ELSE NoEpoch

\* Mutant: a packet that fails to authenticate keeps its counter reserved.
Released_if_authentic(o, entry, authenticated) ==
    IF authenticated THEN [o EXCEPT !.pending_replay_counters = @ \ {entry}] ELSE o

Released(o, entry, authenticated) ==
    [o EXCEPT !.pending_replay_counters = @ \ {entry}]

\* complete_replay_reservation returns a verdict and the owner it leaves.
complete_replay_reservation(o, reservation, authenticated) ==
    LET id       == identity_now(o, reservation)
        entry    == <<id, reservation.counter>>
        released == Released(o, entry, authenticated)
        result   == AcceptResult(replay_window_for_epoch(o, id[1]), reservation.counter)
        accepted == WithWindow(released, id[1], result.window)
    IN  IF id = NoEpoch THEN [ok |-> FALSE, owner |-> o]
        ELSE IF ~ authenticated THEN [ok |-> TRUE, owner |-> released]
        ELSE IF id[1] = "Pending" /\ id[2] # o.pending_receive_epoch_instance
        THEN [ok |-> FALSE, owner |-> released]
        ELSE IF entry \notin o.pending_replay_counters \/ ~ has_window(o, id[1])
        THEN [ok |-> FALSE, owner |-> released]
        ELSE [ok |-> result.ok,
              owner |-> IF /\ result.ok
                           /\ o.protocol = "Fmp"
                           /\ id[1] = "Pending"
                           /\ o.pending_authenticated_k_bit = NoBit
                        THEN [accepted EXCEPT !.pending_authenticated_k_bit = reservation.k]
                        ELSE accepted]
=============================================================================
