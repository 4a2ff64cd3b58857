---------------------------- MODULE MCFspSession ----------------------------
(***************************************************************************)
(* Surroundings of two nodes for model checking.                           *)
(***************************************************************************)
EXTENDS FspSession

\* Nothing goes wrong, and nothing but the handshakes happens.
Calm ==
    [established |-> TRUE, ephemerals |-> 6, in_flight |-> 2, faults |-> 0, restarts |-> 0,
     handshake_max_resends |-> 1, rekey_enabled |-> FALSE, routine |-> 6, expiry |-> FALSE,
     recovery |-> "Off", stale_pending |-> FALSE, long_patience |-> FALSE, long_drain |-> TRUE]

\* First handshakes, with a message lost or repeated, timeouts and a restart.
First == [Calm EXCEPT !.established = FALSE, !.ephemerals = 4, !.faults = 1,
                      !.restarts = 1, !.expiry = TRUE]

\* Rekeys from both ends, with a message lost or repeated.
Rekey == [Calm EXCEPT !.faults = 1, !.rekey_enabled = TRUE]

\* Rekeys and recoveries beside timeouts and a restart, drains of any length.
Faults == [Calm EXCEPT !.restarts = 1, !.handshake_max_resends = 0, !.rekey_enabled = TRUE,
                       !.expiry = TRUE, !.recovery = "Lossy", !.stale_pending = TRUE,
                       !.long_drain = FALSE]

SafetyWorlds == {First, Rekey, Faults}

\* A completed epoch outlives the idle timeout.
StaleWorlds == {[Calm EXCEPT !.rekey_enabled = TRUE, !.stale_pending = TRUE,
                             !.long_drain = FALSE]}
=============================================================================
