----------------------------- MODULE ReplayRing -----------------------------
(***************************************************************************)
(* The replay window of a dataplane owner (dataplane/owner_replay.rs): a    *)
(* ring of bit blocks indexed by counter, of which only the blocks the      *)
(* window moves into are cleared.  A block of the ring is a set of bit      *)
(* positions; the masks and shifts of the code are \div and % by the block  *)
(* width and the ring length, which the code fixes at 64 and 128.           *)
(*                                                                          *)
(* The operators work on window values: ReplayWindow drives one window with *)
(* arbitrary counters, DataplaneOwner holds three.                          *)
(***************************************************************************)
EXTENDS Integers

CONSTANTS
    BlockBits,      \* REPLAY_BLOCK_BITS
    RingBlocks,     \* REPLAY_RING_BLOCKS
    MaxCounter      \* u64::MAX

ASSUME RingAssumption ==
    /\ BlockBits \in Nat \ {0}
    /\ RingBlocks \in Nat \ {0}
    /\ MaxCounter \in Nat

Counters == 0 .. MaxCounter
RingIndices == 0 .. RingBlocks - 1
BitPositions == 0 .. BlockBits - 1

\* highest: Option<u64>, with None below every counter
NoCounter == -1

\* Mutant: the window spans the whole ring, the partly expired block included.
REPLAY_WINDOW_SIZE_whole_ring == RingBlocks * BlockBits

REPLAY_WINDOW_SIZE == (RingBlocks - 1) * BlockBits

counter_block(c) == c \div BlockBits
ring_index(c) == counter_block(c) % RingBlocks

counter_bit(c) == c % BlockBits

EmptyWindow == [highest |-> NoCounter, ring |-> [i \in RingIndices |-> {}]]

\* Mutant: the block the new highest counter falls in is not cleared.
advance_stops_short(ring, highest, c) ==
    LET current == counter_block(highest)
        steps   == counter_block(c) - current
        diff    == IF steps > RingBlocks THEN RingBlocks ELSE steps
    IN  [i \in RingIndices |->
            IF \E offset \in 1 .. diff - 1 : i = (current + offset) % RingBlocks
            THEN {}
            ELSE ring[i]]

\* The ring after the blocks between the old and the new highest are zeroed.
advance(ring, highest, c) ==
    LET current == counter_block(highest)
        steps   == counter_block(c) - current
        diff    == IF steps > RingBlocks THEN RingBlocks ELSE steps
    IN  [i \in RingIndices |->
            IF \E offset \in 1 .. diff : i = (current + offset) % RingBlocks
            THEN {}
            ELSE ring[i]]

set_counter_bit(ring, c) ==
    [ring EXCEPT ![ring_index(c)] = @ \cup {counter_bit(c)}]

bit_is_clear(ring, c) == counter_bit(c) \notin ring[ring_index(c)]

can_accept(w, c) ==
    /\ c # MaxCounter
    /\ \/ w.highest = NoCounter
       \/ c > w.highest
       \/ /\ w.highest - c <= REPLAY_WINDOW_SIZE
          /\ bit_is_clear(w.ring, c)

\* accept returns a verdict and leaves a window behind.
AcceptResult(w, c) ==
    IF c = MaxCounter THEN [ok |-> FALSE, window |-> w]
    ELSE IF w.highest = NoCounter
    THEN [ok |-> bit_is_clear(w.ring, c),
          window |-> [highest |-> c, ring |-> set_counter_bit(w.ring, c)]]
    ELSE IF c > w.highest
    THEN LET ring == advance(w.ring, w.highest, c)
         IN  [ok |-> bit_is_clear(ring, c),
              window |-> [highest |-> c, ring |-> set_counter_bit(ring, c)]]
    ELSE IF w.highest - c > REPLAY_WINDOW_SIZE THEN [ok |-> FALSE, window |-> w]
    ELSE [ok |-> bit_is_clear(w.ring, c),
          window |-> [w EXCEPT !.ring = set_counter_bit(w.ring, c)]]

-----------------------------------------------------------------------------
\* When a window value stands for the set A of counters taken so far.
WindowType == [highest : Counters \cup {NoCounter},
               ring : [RingIndices -> SUBSET BitPositions]]

HighestOf(w, A) ==
    IF A = {} THEN w.highest = NoCounter
              ELSE w.highest \in A /\ \A a \in A : a <= w.highest

\* Counter a has left bit b in ring slot i, and has not expired at highest h.
Occupies(a, i, b, h) ==
    /\ ring_index(a) = i
    /\ counter_bit(a) = b
    /\ counter_block(h) - counter_block(a) < RingBlocks

RingOf(ring, A, h) ==
    \A i \in RingIndices, b \in BitPositions :
        b \in ring[i] <=> \E a \in A : Occupies(a, i, b, h)

Remembers(w, A) ==
    /\ A \subseteq Counters \ {MaxCounter}
    /\ HighestOf(w, A)
    /\ RingOf(w.ring, A, w.highest)

\* The counters the window still has to take, by their history alone.
FreshFor(A, c) ==
    /\ c # MaxCounter
    /\ c \notin A
    /\ \A a \in A : a - c <= REPLAY_WINDOW_SIZE
=============================================================================
