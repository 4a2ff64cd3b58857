---------------------------- MODULE ReplayGuard ----------------------------
(***************************************************************************)
(* What a replay window promises: a receiver that offers authenticated     *)
(* counters, in any order and any number of times, gets "yes" exactly when  *)
(* the counter is usable, was never taken before, and is at most Span       *)
(* behind the highest counter taken so far.  Nothing here mentions a ring,  *)
(* a block or a bit: this is the specification the ring buffers of          *)
(* dataplane/owner_replay.rs and noise/replay.rs are shown to implement.    *)
(***************************************************************************)
EXTENDS Integers

CONSTANTS
    MaxCounter,     \* u64::MAX, the reserved nonce-exhaustion sentinel
    Span            \* how far behind the highest taken counter is still usable

VARIABLES
    accepted,       \* every counter ever taken
    verdict         \* the last answer: which counter, and yes or no

vars == <<accepted, verdict>>

Counters == 0 .. MaxCounter

Fresh(c) ==
    /\ c # MaxCounter
    /\ c \notin accepted
    /\ \A a \in accepted : a - c <= Span

Init ==
    /\ accepted = {}
    /\ verdict = [counter |-> MaxCounter, ok |-> FALSE]

Offer(c) ==
    /\ verdict' = [counter |-> c, ok |-> Fresh(c)]
    /\ accepted' = IF Fresh(c) THEN accepted \cup {c} ELSE accepted

Next == \E c \in Counters : Offer(c)

Spec == Init /\ [][Next]_vars
=============================================================================
