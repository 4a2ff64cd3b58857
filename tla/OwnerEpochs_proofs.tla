------------------------- MODULE OwnerEpochs_proofs -------------------------
(***************************************************************************)
(* What the operators on an owner compute, for every block width, ring      *)
(* length and counter range.                                                *)
(*                                                                          *)
(* The ring of dataplane/owner_replay.rs: two counters that share a slot of *)
(* the ring and are less than a ring apart are the same counter (SameSlot), *)
(* so the ring stands for the set of counters taken (Remembers), and every  *)
(* accept keeps it so.                                                      *)
(*                                                                          *)
(* The epochs of dataplane/owner_state.rs: which fields of an owner each    *)
(* operator sets, resets and leaves alone.                                  *)
(***************************************************************************)
EXTENDS OwnerEpochs, TLAPS

\* The provers for a step that names none, in the order in which they are tried.
USE SMTT(10), Zenon, SMTT(30)

-----------------------------------------------------------------------------
(* Arithmetic of blocks.                                                    *)

\* Euclidean division by the block width or the ring length.
LEMMA DivMod ==
    ASSUME NEW a \in Int, NEW n \in Nat \ {0}
    PROVE  /\ a \div n \in Int
           /\ a % n \in 0 .. n - 1
           /\ a = n * (a \div n) + (a % n)
BY SMT

\* Later counters lie in the same block or a later one.
LEMMA DivMonotone ==
    ASSUME NEW p \in Int, NEW q \in Int, NEW n \in Nat \ {0}, p <= q
    PROVE  p \div n <= q \div n
BY SMT

\* Congruent numbers less than the modulus apart are equal.
LEMMA ModInjective ==
    ASSUME NEW p \in Int, NEW q \in Int, NEW n \in Nat \ {0},
           p % n = q % n, q <= p, p - q < n
    PROVE  p = q
<1> DEFINE d == (p \div n) - (q \div n)
<1>1. /\ p = n * (p \div n) + (p % n)
      /\ q = n * (q \div n) + (q % n)
      /\ p \div n \in Int
      /\ q \div n \in Int
    BY DivMod
<1>2. d \in Int /\ p - q = n * d
    BY <1>1, SMT
<1>3. d >= 1 => n * d >= n
    BY <1>2, SMT
<1>4. d <= -1 => n * d <= -n
    BY <1>2, SMT
<1>5. d = 0 => p = q
    BY <1>2, SMT
<1> QED BY <1>2, <1>3, <1>4, <1>5, SMT

\* Adding the modulus changes no residue.
LEMMA ModPeriodic ==
    ASSUME NEW p \in Int, NEW n \in Nat \ {0}
    PROVE  (p + n) % n = p % n
<1> DEFINE d == (p \div n) + 1 - ((p + n) \div n)
           e == ((p + n) % n) - (p % n)
<1>1. /\ p = n * (p \div n) + (p % n)
      /\ p \div n \in Int
      /\ p % n \in 0 .. n - 1
    BY DivMod
<1>2. /\ p + n = n * ((p + n) \div n) + ((p + n) % n)
      /\ (p + n) \div n \in Int
      /\ (p + n) % n \in 0 .. n - 1
    <2>1. p + n \in Int
        OBVIOUS
    <2> QED BY <2>1, DivMod, Zenon
<1>3. d \in Int /\ e \in Int /\ e = n * d /\ e < n /\ e > -n
    BY <1>1, <1>2, SMT
<1> HIDE DEF d, e
<1>4. d >= 1 => n * d >= n
    BY <1>3, SMT
<1>5. d <= -1 => n * d <= -n
    BY <1>3, SMT
<1>6. d = 0 => n * d = 0
    BY <1>3, SMT
<1>7. e = 0
    BY <1>3, <1>4, <1>5, <1>6, SMT
<1> QED BY <1>1, <1>2, <1>7, SMT DEF e

\* A counter no further back than the window lies in a block of the ring.
LEMMA WindowInsideRing ==
    ASSUME NEW h \in Int, NEW c \in Int, h - c <= REPLAY_WINDOW_SIZE
    PROVE  counter_block(h) - counter_block(c) < RingBlocks
<1> DEFINE bh == counter_block(h)
           bc == counter_block(c)
<1>0. BlockBits \in Nat \ {0} /\ RingBlocks \in Nat \ {0}
    BY RingAssumption
<1>1. /\ bh \in Int /\ bc \in Int
      /\ h = BlockBits * bh + (h % BlockBits)
      /\ c = BlockBits * bc + (c % BlockBits)
      /\ h % BlockBits \in 0 .. BlockBits - 1
      /\ c % BlockBits \in 0 .. BlockBits - 1
    BY <1>0, DivMod DEF counter_block
<1> HIDE DEF bh, bc
<1>2. h - c > BlockBits * (bh - bc) - BlockBits
    BY <1>0, <1>1, SMT
<1>3. SUFFICES ASSUME bh - bc >= RingBlocks PROVE FALSE
    BY <1>0, <1>1 DEF bh, bc
<1>4. BlockBits * (bh - bc) >= BlockBits * RingBlocks
    BY <1>0, <1>1, <1>3, SMT
<1>5. REPLAY_WINDOW_SIZE = BlockBits * RingBlocks - BlockBits
    BY <1>0, SMT DEF REPLAY_WINDOW_SIZE
<1> QED BY <1>0, <1>1, <1>2, <1>4, <1>5, SMT DEF REPLAY_WINDOW_SIZE

\* Types of the address of a counter in the ring.
LEMMA SlotType ==
    ASSUME NEW c \in Int
    PROVE  /\ counter_block(c) \in Int
           /\ ring_index(c) \in RingIndices
           /\ counter_bit(c) \in BitPositions
<1>0. BlockBits \in Nat \ {0} /\ RingBlocks \in Nat \ {0}
    BY RingAssumption
<1>1. counter_block(c) \in Int /\ counter_bit(c) \in BitPositions
    BY <1>0, DivMod DEF counter_block, counter_bit, BitPositions
<1>2. ring_index(c) \in RingIndices
    BY <1>0, <1>1, DivMod, Zenon DEF ring_index, RingIndices
<1> QED BY <1>1, <1>2

\* Two counters in the same slot whose blocks are less than a ring apart are
\* one counter: a set bit inside the window names its counter uniquely.
LEMMA SameSlot ==
    ASSUME NEW c \in Int, NEW d \in Int,
           ring_index(c) = ring_index(d), counter_bit(c) = counter_bit(d),
           counter_block(c) - counter_block(d) < RingBlocks,
           counter_block(d) - counter_block(c) < RingBlocks
    PROVE  c = d
<1>0. BlockBits \in Nat \ {0} /\ RingBlocks \in Nat \ {0}
    BY RingAssumption
<1>1. counter_block(c) \in Int /\ counter_block(d) \in Int
    BY SlotType
<1>2. counter_block(c) % RingBlocks = counter_block(d) % RingBlocks
    BY DEF ring_index
<1>3. counter_block(c) = counter_block(d)
    <2>1. CASE counter_block(d) <= counter_block(c)
        BY <1>0, <1>1, <1>2, <2>1, ModInjective
    <2>2. CASE counter_block(c) <= counter_block(d)
        BY <1>0, <1>1, <1>2, <2>2, ModInjective
    <2> QED BY <1>1, <2>1, <2>2, SMT
<1>4. /\ c = BlockBits * counter_block(c) + counter_bit(c)
      /\ d = BlockBits * counter_block(d) + counter_bit(d)
    BY <1>0, DivMod DEF counter_block, counter_bit
<1> QED BY <1>3, <1>4

-----------------------------------------------------------------------------
(* One accept.                                                              *)

\* Clearing the blocks up to the one of a new highest counter c leaves
\* exactly the counters that have not expired at c.
LEMMA AdvanceKeepsUnexpired ==
    ASSUME NEW ring \in [RingIndices -> SUBSET BitPositions],
           NEW A \in SUBSET Counters, NEW h \in A, NEW c \in Counters,
           \A a \in A : a <= h, c > h, RingOf(ring, A, h)
    PROVE  /\ advance(ring, h, c) \in [RingIndices -> SUBSET BitPositions]
           /\ RingOf(advance(ring, h, c), A, c)
<1> DEFINE current == counter_block(h)
           steps   == counter_block(c) - current
           diff    == IF steps > RingBlocks THEN RingBlocks ELSE steps
           Cleared(i) == \E offset \in 1 .. diff : i = (current + offset) % RingBlocks
<1>0. RingBlocks \in Nat \ {0} /\ BlockBits \in Nat \ {0} /\ Counters \subseteq Int
    BY RingAssumption DEF Counters
<1>1. advance(ring, h, c) = [i \in RingIndices |-> IF Cleared(i) THEN {} ELSE ring[i]]
    BY DEF advance
<1>2. current \in Int /\ counter_block(c) \in Int /\ current <= counter_block(c)
    BY <1>0, SlotType, DivMonotone DEF counter_block
<1>3. steps \in Nat /\ diff \in Nat /\ diff <= RingBlocks /\ diff <= steps
    BY <1>0, <1>2, SMT
<1>4. ASSUME NEW a \in A
      PROVE  /\ counter_block(a) \in Int
             /\ counter_block(a) <= current
             /\ ring_index(a) \in RingIndices
             /\ ring_index(a) = counter_block(a) % RingBlocks
             /\ counter_bit(a) \in BitPositions
    BY <1>0, SlotType, DivMonotone, Zenon DEF counter_block, ring_index
<1> HIDE DEF current, steps
<1>5. ASSUME NEW i \in RingIndices, NEW b \in BitPositions,
             NEW a \in A, ~ Cleared(i), Occupies(a, i, b, h)
      PROVE  Occupies(a, i, b, c)
    <2>1. SUFFICES ASSUME counter_block(c) - counter_block(a) >= RingBlocks PROVE FALSE
        BY <1>0, <1>2, <1>4, <1>5 DEF Occupies
    <2> DEFINE offset == counter_block(a) + RingBlocks - current
    <2>2. current - counter_block(a) < RingBlocks
        BY <1>5 DEF Occupies, current
    <2>3. offset \in 1 .. diff
        BY <1>0, <1>2, <1>3, <1>4, <2>1, <2>2, SMT DEF steps
    <2>4. current + offset = counter_block(a) + RingBlocks
        BY <1>0, <1>2, <1>4, SMT
    <2>5. (current + offset) % RingBlocks = i
        BY <1>0, <1>4, <1>5, <2>4, ModPeriodic, Zenon DEF Occupies
    <2> QED BY <1>5, <2>3, <2>5
<1>6. ASSUME NEW i \in RingIndices, NEW b \in BitPositions,
             NEW a \in A, Occupies(a, i, b, c)
      PROVE  Occupies(a, i, b, h) /\ ~ Cleared(i)
    <2>1. Occupies(a, i, b, h)
        BY <1>0, <1>2, <1>4, <1>6 DEF Occupies, current
    <2>2. ASSUME NEW offset \in 1 .. diff, i = (current + offset) % RingBlocks
          PROVE  FALSE
        <3>1. /\ current + offset \in Int
              /\ counter_block(a) < current + offset
              /\ (current + offset) - counter_block(a) < RingBlocks
            BY <1>0, <1>2, <1>3, <1>4, <1>6, SMT DEF Occupies, steps
        <3>2. (current + offset) % RingBlocks = counter_block(a) % RingBlocks
            BY <1>4, <1>6, <2>2 DEF Occupies
        <3>3. current + offset = counter_block(a)
            BY <1>0, <1>4, <3>1, <3>2, ModInjective, SMT
        <3> QED BY <1>4, <3>1, <3>3, SMT
    <2> QED BY <2>1, <2>2
<1> HIDE DEF diff
<1>7. ASSUME NEW i \in RingIndices, NEW b \in BitPositions
      PROVE  b \in advance(ring, h, c)[i] <=> \E a \in A : Occupies(a, i, b, c)
    BY <1>1, <1>5, <1>6 DEF RingOf
<1> QED BY <1>1, <1>7 DEF RingOf

\* Setting the bit of c adds c to the set the ring stands for.
LEMMA SetBitAdds ==
    ASSUME NEW ring \in [RingIndices -> SUBSET BitPositions],
           NEW A \in SUBSET Counters, NEW h \in Counters, NEW c \in Counters,
           counter_block(h) - counter_block(c) < RingBlocks, RingOf(ring, A, h)
    PROVE  /\ set_counter_bit(ring, c) \in [RingIndices -> SUBSET BitPositions]
           /\ RingOf(set_counter_bit(ring, c), A \cup {c}, h)
<1>0. c \in Int
    BY RingAssumption DEF Counters
<1>1. ring_index(c) \in RingIndices /\ counter_bit(c) \in BitPositions
    BY <1>0, SlotType
<1> QED BY <1>1 DEF set_counter_bit, RingOf, Occupies

\* The bit of c is clear exactly when c was not taken, provided c cannot be
\* a ring away from any counter that is still remembered.
LEMMA BitMeansTaken ==
    ASSUME NEW ring \in [RingIndices -> SUBSET BitPositions],
           NEW A \in SUBSET Counters, NEW h \in Counters, NEW c \in Counters,
           c <= h, \A a \in A : a <= h,
           counter_block(h) - counter_block(c) < RingBlocks, RingOf(ring, A, h)
    PROVE  bit_is_clear(ring, c) <=> c \notin A
<1>0. Counters \subseteq Int /\ BlockBits \in Nat \ {0} /\ RingBlocks \in Nat \ {0}
    BY RingAssumption DEF Counters
<1>1. ring_index(c) \in RingIndices /\ counter_bit(c) \in BitPositions
    BY <1>0, SlotType
<1>2. ASSUME NEW a \in A, Occupies(a, ring_index(c), counter_bit(c), h)
      PROVE  a = c
    <2>1. /\ counter_block(a) \in Int /\ counter_block(c) \in Int
          /\ counter_block(h) \in Int
          /\ counter_block(a) <= counter_block(h)
          /\ counter_block(c) <= counter_block(h)
        BY <1>0, SlotType, DivMonotone DEF counter_block
    <2>2. /\ counter_block(a) - counter_block(c) < RingBlocks
          /\ counter_block(c) - counter_block(a) < RingBlocks
        BY <1>0, <1>2, <2>1, SMT DEF Occupies
    <2> QED BY <1>0, <1>2, <2>2, SameSlot DEF Occupies
<1>3. c \in A => Occupies(c, ring_index(c), counter_bit(c), h)
    BY DEF Occupies
<1> QED BY <1>1, <1>2, <1>3 DEF bit_is_clear, RingOf

\* accept answers exactly as the history says, and what it leaves behind
\* stands for the history it makes.
LEMMA AcceptRemembers ==
    ASSUME NEW w \in WindowType, NEW A, Remembers(w, A), NEW c \in Counters
    PROVE  LET result == AcceptResult(w, c)
           IN  /\ result.ok \in BOOLEAN
               /\ result.ok <=> FreshFor(A, c)
               /\ result.window \in WindowType
               /\ Remembers(result.window, IF result.ok THEN A \cup {c} ELSE A)
<1> DEFINE result == AcceptResult(w, c)
           h == w.highest
           Rings == [RingIndices -> SUBSET BitPositions]
<1>0. /\ Counters \subseteq Int /\ MaxCounter \in Nat
      /\ RingBlocks \in Nat \ {0} /\ BlockBits \in Nat \ {0}
      /\ \A x \in Counters : 0 <= x
      /\ REPLAY_WINDOW_SIZE \in Nat
    BY RingAssumption DEF Counters, REPLAY_WINDOW_SIZE
<1>1. /\ w.ring \in Rings /\ h \in Counters \cup {NoCounter}
      /\ A \in SUBSET Counters /\ MaxCounter \notin A
      /\ HighestOf(w, A) /\ RingOf(w.ring, A, h)
    BY DEF WindowType, Remembers
<1>2. NoCounter \notin Counters
    BY <1>0 DEF NoCounter
<1>3. counter_block(c) \in Int /\ counter_block(c) - counter_block(c) < RingBlocks
    BY <1>0, SlotType
<1>8. /\ c \in Int /\ h \in Int /\ REPLAY_WINDOW_SIZE \in Int
      /\ \A a \in A : a \in Int
    BY <1>0, <1>1 DEF NoCounter
<1>4. CASE c = MaxCounter
    BY <1>4 DEF AcceptResult, FreshFor
<1>5. CASE c # MaxCounter /\ h = NoCounter
    <2>1. A = {}
        BY <1>1, <1>2, <1>5 DEF HighestOf
    <2>2. RingOf(w.ring, A, c) /\ \A i \in RingIndices : w.ring[i] = {}
        BY <1>1, <2>1 DEF RingOf
    <2>3. result.ok = bit_is_clear(w.ring, c)
          /\ result.window = [highest |-> c, ring |-> set_counter_bit(w.ring, c)]
        BY <1>5 DEF AcceptResult
    <2>4. bit_is_clear(w.ring, c)
        BY <1>0, <2>2, SlotType DEF bit_is_clear
    <2>5. /\ set_counter_bit(w.ring, c) \in Rings
          /\ RingOf(set_counter_bit(w.ring, c), A \cup {c}, c)
        BY <1>1, <1>3, <2>2, SetBitAdds, Zenon
    <2> QED BY <1>0, <1>5, <2>1, <2>3, <2>4, <2>5
            DEF FreshFor, WindowType, Remembers, HighestOf
<1>6. CASE c # MaxCounter /\ h # NoCounter /\ c > h
    <2> DEFINE ring == advance(w.ring, h, c)
    <2>1. h \in A /\ \A a \in A : a <= h
        BY <1>1, <1>6 DEF HighestOf
    <2>2. ring \in Rings /\ RingOf(ring, A, c)
        BY <1>1, <1>6, <2>1, AdvanceKeepsUnexpired
    <2>3. result.ok = bit_is_clear(ring, c)
          /\ result.window = [highest |-> c, ring |-> set_counter_bit(ring, c)]
        BY <1>6, Zenon DEF AcceptResult
    <2>4. \A a \in A : a <= c /\ a # c /\ a - c <= REPLAY_WINDOW_SIZE
        <3> HIDE DEF h
        <3> QED BY <1>8, <1>0, <1>6, <2>1
    <2>5. bit_is_clear(ring, c)
        <3>1. c <= c /\ c \notin A
            BY <1>0, <2>4
        <3> HIDE DEF ring
        <3> QED BY <1>1, <1>3, <2>2, <2>4, <3>1, BitMeansTaken
    <2>6. /\ set_counter_bit(ring, c) \in Rings
          /\ RingOf(set_counter_bit(ring, c), A \cup {c}, c)
        <3> HIDE DEF ring
        <3> QED BY <1>1, <1>3, <2>2, SetBitAdds, Zenon
    <2> HIDE DEF ring
    <2>7. FreshFor(A, c)
        BY <1>6, <2>4 DEF FreshFor
    <2>8. result.window \in WindowType /\ Remembers(result.window, A \cup {c})
        <3>1. result.window.highest = c /\ result.window.ring = set_counter_bit(ring, c)
            BY <2>3
        <3>2. HighestOf(result.window, A \cup {c})
            BY <1>0, <2>4, <3>1 DEF HighestOf
        <3> QED BY <1>1, <1>6, <2>3, <2>6, <3>1, <3>2 DEF WindowType, Remembers
    <2> QED BY <2>3, <2>5, <2>7, <2>8
<1>7. CASE c # MaxCounter /\ h # NoCounter /\ c <= h
    <2>1. h \in A /\ \A a \in A : a <= h
        BY <1>1, <1>7 DEF HighestOf
    <2>2. h \in Counters /\ ~ (c > h)
        <3> HIDE DEF h
        <3> QED BY <1>8, <1>1, <1>7
    <2>3. CASE h - c > REPLAY_WINDOW_SIZE
        <3>1. result = [ok |-> FALSE, window |-> w]
            BY <1>7, <2>2, <2>3 DEF AcceptResult
        <3>2. ~ FreshFor(A, c)
            <4> HIDE DEF h
            <4> QED BY <1>8, <2>1, <2>3 DEF FreshFor
        <3> QED BY <3>1, <3>2
    <2>4. CASE h - c <= REPLAY_WINDOW_SIZE
        <3> DEFINE ring == set_counter_bit(w.ring, c)
        <3>1. counter_block(h) - counter_block(c) < RingBlocks
            BY <1>0, <2>2, <2>4, WindowInsideRing, Zenon
        <3>2. bit_is_clear(w.ring, c) <=> c \notin A
            BY <1>1, <1>7, <2>1, <2>2, <3>1, BitMeansTaken
        <3>3. ring \in Rings /\ RingOf(ring, A \cup {c}, h)
            BY <1>1, <2>2, <3>1, SetBitAdds, Zenon
        <3>4. ~ (h - c > REPLAY_WINDOW_SIZE)
            <4> HIDE DEF h
            <4> QED BY <1>8, <2>4
        <3>5. result.ok = bit_is_clear(w.ring, c)
              /\ result.window = [w EXCEPT !.ring = ring]
            BY <1>7, <2>2, <3>4, Zenon DEF AcceptResult
        <3>6. FreshFor(A, c) <=> c \notin A
            <4> HIDE DEF h
            <4>1. \A a \in A : a - c <= REPLAY_WINDOW_SIZE
                BY <1>8, <2>1, <2>4
            <4> QED BY <1>7, <4>1 DEF FreshFor
        <3>7. result.ok \in BOOLEAN /\ (result.ok <=> c \notin A)
            BY <3>2, <3>5, Zenon DEF bit_is_clear
        <3>8. (IF result.ok THEN A \cup {c} ELSE A) = A \cup {c}
            BY <3>7
        <3> HIDE DEF ring
        <3>9. result.window.highest = h /\ result.window.ring = ring
              /\ result.window \in WindowType
            BY <3>3, <3>5 DEF WindowType
        <3>10. Remembers(result.window, A \cup {c})
            BY <1>1, <1>7, <2>1, <3>3, <3>9 DEF Remembers, HighestOf
        <3> QED BY <3>6, <3>7, <3>8, <3>9, <3>10
    <2>5. h - c > REPLAY_WINDOW_SIZE \/ h - c <= REPLAY_WINDOW_SIZE
        <3> HIDE DEF h
        <3> QED BY <1>8
    <2> QED BY <2>3, <2>4, <2>5
<1>9. c > h \/ c <= h
    <2> HIDE DEF h
    <2> QED BY <1>8
<1> QED BY <1>4, <1>5, <1>6, <1>7, <1>9

\* can_accept says beforehand what accept will answer.
LEMMA CanAcceptIsFresh ==
    ASSUME NEW w \in WindowType, NEW A, Remembers(w, A), NEW c \in Counters
    PROVE  can_accept(w, c) <=> FreshFor(A, c)
<1> DEFINE h == w.highest
<1>1. /\ w.ring \in [RingIndices -> SUBSET BitPositions]
      /\ h \in Counters \cup {NoCounter}
      /\ A \in SUBSET Counters
      /\ HighestOf(w, A) /\ RingOf(w.ring, A, h)
    BY DEF WindowType, Remembers
<1>2. /\ c \in Int /\ h \in Int /\ REPLAY_WINDOW_SIZE \in Nat
      /\ \A a \in A : a \in Int
      /\ NoCounter \notin Counters
    BY <1>1, RingAssumption DEF Counters, NoCounter, REPLAY_WINDOW_SIZE
<1>3. CASE h = NoCounter
    BY <1>1, <1>2, <1>3, Zenon DEF can_accept, FreshFor, HighestOf
<1>4. CASE h # NoCounter
    <2>1. h \in A /\ h \in Counters /\ \A a \in A : a <= h
        BY <1>1, <1>4 DEF HighestOf
    <2>2. CASE c > h
        <3>1. \A a \in A : a # c /\ a - c <= REPLAY_WINDOW_SIZE
            <4> HIDE DEF h
            <4> QED BY <1>2, <2>1, <2>2
        <3> QED BY <2>2, <3>1 DEF can_accept, FreshFor
    <2>3. CASE c <= h /\ h - c > REPLAY_WINDOW_SIZE
        <3>1. ~ (c > h) /\ ~ (h - c <= REPLAY_WINDOW_SIZE)
            <4> HIDE DEF h
            <4> QED BY <1>2, <2>3
        <3> QED BY <1>4, <2>1, <3>1 DEF can_accept, FreshFor
    <2>4. CASE c <= h /\ h - c <= REPLAY_WINDOW_SIZE
        <3>1. ~ (c > h) /\ \A a \in A : a - c <= REPLAY_WINDOW_SIZE
            <4> HIDE DEF h
            <4> QED BY <1>2, <2>1, <2>4
        <3>2. counter_block(h) - counter_block(c) < RingBlocks
            BY <1>2, <2>4, WindowInsideRing
        <3>3. bit_is_clear(w.ring, c) <=> c \notin A
            BY <1>1, <2>1, <2>4, <3>2, BitMeansTaken
        <3> QED BY <1>4, <2>4, <3>1, <3>3 DEF can_accept, FreshFor
    <2>5. c > h \/ (c <= h /\ h - c > REPLAY_WINDOW_SIZE)
                \/ (c <= h /\ h - c <= REPLAY_WINDOW_SIZE)
        <3> HIDE DEF h
        <3> QED BY <1>2
    <2> QED BY <2>2, <2>3, <2>4, <2>5
<1> QED BY <1>3, <1>4

\* A window fresh from Default has taken nothing.
LEMMA EmptyRemembers == EmptyWindow \in WindowType /\ Remembers(EmptyWindow, {})
<1>1. NoCounter = -1
    BY DEF NoCounter
<1>2. EmptyWindow \in WindowType
    BY DEF EmptyWindow, WindowType
<1>3. Remembers(EmptyWindow, {})
    BY DEF Remembers, HighestOf, RingOf, EmptyWindow
<1> QED BY <1>2, <1>3

-----------------------------------------------------------------------------
(* The fields of an owner.                                                   *)

\* The fields of an owner.
OwnerFields ==
    {"protocol", "generation", "crypto_keys", "send_counter_authority", "send_headers",
     "replay_window", "current_k_bit", "previous_draining_k_bit", "previous_open",
     "previous_replay_window", "draining_generation", "pending_open", "pending_seal",
     "pending_authority", "pending_k_bit", "pending_authenticated_k_bit",
     "pending_replay_window", "pending_receive_epoch_instance", "pending_replay_counters"}

\* Groups of fields that an operator leaves alone or resets together.
SameCurrent(r, o) ==
    /\ r.protocol = o.protocol /\ r.generation = o.generation
    /\ r.crypto_keys = o.crypto_keys /\ r.send_counter_authority = o.send_counter_authority
    /\ r.send_headers = o.send_headers /\ r.replay_window = o.replay_window
    /\ r.current_k_bit = o.current_k_bit
    /\ r.previous_draining_k_bit = o.previous_draining_k_bit

SamePrevious(r, o) ==
    /\ r.previous_open = o.previous_open
    /\ r.previous_replay_window = o.previous_replay_window
    /\ r.draining_generation = o.draining_generation

NoPrevious(r) ==
    /\ r.previous_open = NoSession
    /\ r.previous_replay_window = EmptyWindow
    /\ r.draining_generation = NotDraining

SamePending(r, o) ==
    /\ r.pending_open = o.pending_open /\ r.pending_seal = o.pending_seal
    /\ r.pending_authority = o.pending_authority /\ r.pending_k_bit = o.pending_k_bit
    /\ r.pending_authenticated_k_bit = o.pending_authenticated_k_bit
    /\ r.pending_replay_window = o.pending_replay_window

NoPending(r) ==
    /\ r.pending_open = NoSession /\ r.pending_seal = NoSession
    /\ r.pending_authority = NoSession /\ r.pending_k_bit = NoBit
    /\ r.pending_authenticated_k_bit = NoBit
    /\ r.pending_replay_window = EmptyWindow

SameInFlight(r, o) ==
    /\ r.pending_receive_epoch_instance = o.pending_receive_epoch_instance
    /\ r.pending_replay_counters = o.pending_replay_counters

\* The current epoch as a config gives it.
CurrentIs(r, g, s, k, d) ==
    /\ r.generation = g /\ r.crypto_keys = s /\ r.send_counter_authority = s
    /\ r.send_headers = [receiver_idx |-> s, k |-> k]
    /\ r.current_k_bit = k /\ r.previous_draining_k_bit = d

\* What install_session leaves of owner o, with the generation it has ...
Refreshed(r, o, s, k, d) ==
    /\ DOMAIN r = OwnerFields /\ r.protocol = o.protocol
    /\ CurrentIs(r, o.generation, s, k, d) /\ r.replay_window = o.replay_window
    /\ IF d = NoBit THEN NoPrevious(r) ELSE SamePrevious(r, o)
    /\ SamePending(r, o) /\ SameInFlight(r, o)

\* ... and with another one.
Replaced(r, o, g, s, k, d) ==
    LET promoted == is_pending_session(o, s)
        w == [generation |-> o.generation,
              promoted |-> IF promoted THEN o.pending_receive_epoch_instance ELSE NoInstance]
    IN  /\ DOMAIN r = OwnerFields /\ r.protocol = o.protocol
        /\ CurrentIs(r, g, s, k, d)
        /\ r.replay_window = IF promoted THEN o.pending_replay_window ELSE EmptyWindow
        /\ NoPending(r)
        /\ r.pending_receive_epoch_instance = o.pending_receive_epoch_instance
        /\ IF d # NoBit /\ o.crypto_keys # NoSession
           THEN /\ r.previous_open = o.crypto_keys
                /\ r.previous_replay_window = o.replay_window
                /\ r.draining_generation = w
                /\ r.pending_replay_counters = RemappedReservations(w, o.pending_replay_counters)
           ELSE NoPrevious(r) /\ r.pending_replay_counters = {}

\* What install_pending_epoch leaves of it.
Completed(r, o, k, s) ==
    /\ DOMAIN r = OwnerFields
    /\ SameCurrent(r, o) /\ SamePrevious(r, o)
    /\ r.pending_open = s /\ r.pending_authority = s /\ r.pending_k_bit = k
    /\ r.pending_seal = IF o.protocol = "Fsp" THEN s ELSE NoSession
    /\ r.pending_authenticated_k_bit = NoBit
    /\ r.pending_replay_window = EmptyWindow
    /\ r.pending_receive_epoch_instance = o.pending_receive_epoch_instance + 1
    /\ r.pending_replay_counters = {x \in o.pending_replay_counters : x[1][1] # "Pending"}

\* WithoutPending and WithoutPrevious reset their fields and no other.
LEMMA Resets ==
    ASSUME NEW o, DOMAIN o = OwnerFields
    PROVE  /\ DOMAIN WithoutPending(o) = OwnerFields
           /\ SameCurrent(WithoutPending(o), o) /\ SamePrevious(WithoutPending(o), o)
           /\ NoPending(WithoutPending(o)) /\ SameInFlight(WithoutPending(o), o)
           /\ DOMAIN WithoutPrevious(o) = OwnerFields
           /\ SameCurrent(WithoutPrevious(o), o) /\ NoPrevious(WithoutPrevious(o))
           /\ SamePending(WithoutPrevious(o), o) /\ SameInFlight(WithoutPrevious(o), o)
<1>1. DOMAIN WithoutPending(o) = OwnerFields /\ DOMAIN WithoutPrevious(o) = OwnerFields
  BY DEF WithoutPending, WithoutPrevious
<1>2. /\ SameCurrent(WithoutPending(o), o) /\ SamePrevious(WithoutPending(o), o)
      /\ NoPending(WithoutPending(o)) /\ SameInFlight(WithoutPending(o), o)
  BY DEF OwnerFields, WithoutPending, SameCurrent, SamePrevious, NoPending, SameInFlight
<1>3. /\ SameCurrent(WithoutPrevious(o), o) /\ NoPrevious(WithoutPrevious(o))
      /\ SamePending(WithoutPrevious(o), o) /\ SameInFlight(WithoutPrevious(o), o)
  BY DEF OwnerFields, WithoutPrevious, SameCurrent, NoPrevious, SamePending, SameInFlight
<1>4. QED
  BY <1>1, <1>2, <1>3

\* advance_pending_receive_epoch drops the reservations of the pending epoch.
LEMMA Advances ==
    ASSUME NEW o, DOMAIN o = OwnerFields
    PROVE  LET r == advance_pending_receive_epoch(o)
           IN  /\ DOMAIN r = OwnerFields
               /\ SameCurrent(r, o) /\ SamePrevious(r, o) /\ SamePending(r, o)
               /\ r.pending_receive_epoch_instance = o.pending_receive_epoch_instance + 1
               /\ r.pending_replay_counters =
                     {x \in o.pending_replay_counters : x[1][1] # "Pending"}
  BY DEF OwnerFields, advance_pending_receive_epoch, SameCurrent, SamePrevious, SamePending

\* rekey keeps the instance of the pending epoch and nothing else.
LEMMA Rekeyed ==
    ASSUME NEW o, DOMAIN o = OwnerFields, NEW g
    PROVE  LET r == rekey(o, g)
           IN  /\ DOMAIN r = OwnerFields
               /\ r.protocol = o.protocol /\ r.generation = g
               /\ r.replay_window = EmptyWindow
               /\ NoPending(r) /\ NoPrevious(r)
               /\ r.pending_receive_epoch_instance = o.pending_receive_epoch_instance
               /\ r.pending_replay_counters = {}
<1> DEFINE a == WithoutPending(o)  b == WithoutPrevious(a)
<1>1. DOMAIN a = OwnerFields /\ SameCurrent(a, o) /\ NoPending(a) /\ SameInFlight(a, o)
  BY Resets
<1> HIDE DEF a
<1>2. /\ DOMAIN b = OwnerFields /\ SameCurrent(b, a) /\ NoPrevious(b) /\ SamePending(b, a)
      /\ SameInFlight(b, a)
  BY <1>1, Resets
<1>3. rekey(o, g) = [b EXCEPT
        !.generation = g, !.replay_window = EmptyWindow, !.pending_replay_counters = {},
        !.send_counter_authority = NoSession, !.crypto_keys = NoSession,
        !.send_headers = [receiver_idx |-> NoSession, k |-> 0],
        !.current_k_bit = 0, !.previous_draining_k_bit = NoBit]
  BY DEF rekey, a
<1> HIDE DEF b
<1>4. QED
  BY <1>1, <1>2, <1>3
     DEF OwnerFields, SameCurrent, NoPending, SameInFlight, NoPrevious, SamePending

\* set_epoch with a K bit that no pending epoch has; NoBit ends the drain.
LEMMA EpochSet ==
    ASSUME NEW o, DOMAIN o = OwnerFields, NEW k, o.pending_k_bit # k, NEW d
    PROVE  LET r == set_epoch(o, k, d)
           IN  /\ DOMAIN r = OwnerFields
               /\ r.protocol = o.protocol /\ r.generation = o.generation
               /\ r.crypto_keys = o.crypto_keys
               /\ r.send_counter_authority = o.send_counter_authority
               /\ r.send_headers = o.send_headers /\ r.replay_window = o.replay_window
               /\ r.current_k_bit = k /\ r.previous_draining_k_bit = d
               /\ IF d = NoBit THEN NoPrevious(r) ELSE SamePrevious(r, o)
               /\ SamePending(r, o) /\ SameInFlight(r, o)
<1> DEFINE b == [o EXCEPT !.current_k_bit = k, !.previous_draining_k_bit = d]
<1>1. /\ DOMAIN b = OwnerFields
      /\ b.protocol = o.protocol /\ b.generation = o.generation
      /\ b.crypto_keys = o.crypto_keys
      /\ b.send_counter_authority = o.send_counter_authority
      /\ b.send_headers = o.send_headers /\ b.replay_window = o.replay_window
      /\ b.current_k_bit = k /\ b.previous_draining_k_bit = d
      /\ SamePrevious(b, o) /\ SamePending(b, o) /\ SameInFlight(b, o)
  BY DEF OwnerFields, SamePrevious, SamePending, SameInFlight
<1>2. set_epoch(o, k, d) = IF d = NoBit THEN WithoutPrevious(b) ELSE b
  BY DEF set_epoch
<1> HIDE DEF b
<1>3. CASE d = NoBit
  BY <1>1, <1>2, <1>3, Resets DEF SameCurrent, SamePending, SameInFlight
<1>4. CASE d # NoBit
  BY <1>1, <1>2, <1>4
<1>5. QED
  BY <1>3, <1>4

\* install_session with the generation the owner has: the epochs and the packets in
\* flight stay, but for a drain that is over.
LEMMA SessionRefreshed ==
    ASSUME NEW o, DOMAIN o = OwnerFields, NEW s, NEW k, o.pending_k_bit # k, NEW d
    PROVE  Refreshed(install_session(o, [generation |-> o.generation, session |-> s,
                                         k |-> k, draining |-> d]), o, s, k, d)
<1> DEFINE c == [generation |-> o.generation, session |-> s, k |-> k, draining |-> d]
           b == [o EXCEPT !.send_counter_authority = s,
                          !.send_headers = [receiver_idx |-> s, k |-> k]]
           a == set_epoch(b, k, d)
           applied == [a EXCEPT !.crypto_keys = s]
<1>1. /\ DOMAIN b = OwnerFields /\ b.pending_k_bit # k
      /\ b.protocol = o.protocol /\ b.generation = o.generation
      /\ b.send_counter_authority = s
      /\ b.send_headers = [receiver_idx |-> s, k |-> k] /\ b.replay_window = o.replay_window
      /\ SamePrevious(b, o) /\ SamePending(b, o) /\ SameInFlight(b, o)
  BY DEF OwnerFields, SamePrevious, SamePending, SameInFlight
<1>2. apply_live_config(o, c) = a
  BY DEF apply_live_config
<1> HIDE DEF b
<1>3. /\ DOMAIN a = OwnerFields
      /\ a.protocol = o.protocol /\ a.generation = o.generation
      /\ a.send_counter_authority = s
      /\ a.send_headers = [receiver_idx |-> s, k |-> k] /\ a.replay_window = o.replay_window
      /\ a.current_k_bit = k /\ a.previous_draining_k_bit = d
      /\ IF d = NoBit THEN NoPrevious(a) ELSE SamePrevious(a, o)
      /\ SamePending(a, o) /\ SameInFlight(a, o)
  BY <1>1, EpochSet DEF SamePrevious, SamePending, SameInFlight
<1> HIDE DEF a
<1>4. /\ DOMAIN applied = OwnerFields /\ applied.protocol = o.protocol
      /\ CurrentIs(applied, o.generation, s, k, d) /\ applied.replay_window = o.replay_window
      /\ IF d = NoBit THEN NoPrevious(applied) ELSE SamePrevious(applied, o)
      /\ SamePending(applied, o) /\ SameInFlight(applied, o)
  BY <1>3 DEF OwnerFields, CurrentIs, NoPrevious, SamePrevious, SamePending, SameInFlight
<1>5. /\ c.generation = o.generation /\ c.session = s /\ c.k = k /\ c.draining = d
  OBVIOUS
<1> HIDE DEF c
<1>6. install_session(o, c) =
        IF applied.previous_draining_k_bit = NoBit THEN WithoutPrevious(applied) ELSE applied
  BY <1>2, <1>5 DEF install_session
<1> HIDE DEF applied
<1> DEFINE r == install_session(o, c)
<1>7. CASE d = NoBit
  <2>1. r = WithoutPrevious(applied)
    BY <1>4, <1>6, <1>7 DEF CurrentIs
  <2> HIDE DEF r
  <2>2. /\ DOMAIN r = OwnerFields /\ r.protocol = o.protocol
        /\ CurrentIs(r, o.generation, s, k, d) /\ r.replay_window = o.replay_window
        /\ NoPrevious(r) /\ SamePending(r, o) /\ SameInFlight(r, o)
    BY <1>4, <2>1, Resets DEF CurrentIs, SameCurrent, SamePending, SameInFlight
  <2>3. QED
    BY <1>7, <2>2 DEF r, c, Refreshed
<1>8. CASE d # NoBit
  <2>1. r = applied
    BY <1>4, <1>6, <1>8 DEF CurrentIs
  <2>2. QED
    BY <1>4, <1>8, <2>1 DEF c, Refreshed
<1>9. QED
  BY <1>7, <1>8

\* install_session with another generation: a pending session that is the config's is
\* promoted with its window, the session that was current drains if the config says so,
\* and the packets in flight go with them.
LEMMA SessionInstalled ==
    ASSUME NEW o, DOMAIN o = OwnerFields, NEW g, g # o.generation, NEW s, NEW k \in KBits, NEW d
    PROVE  Replaced(install_session(o, [generation |-> g, session |-> s,
                                        k |-> k, draining |-> d]), o, g, s, k, d)
<1> DEFINE c == [generation |-> g, session |-> s, k |-> k, draining |-> d]
           p == rekey(o, g)
           b == [p EXCEPT !.send_counter_authority = s,
                          !.send_headers = [receiver_idx |-> s, k |-> k]]
           a == set_epoch(b, k, d)
           applied == [a EXCEPT !.crypto_keys = s]
           promoted == is_pending_session(o, s)
           live == IF promoted
                   THEN [WithoutPending(applied) EXCEPT !.replay_window = promoted_pending_replay(o)]
                   ELSE applied
           w == [generation |-> o.generation,
                 promoted |-> IF promoted THEN o.pending_receive_epoch_instance ELSE NoInstance]
           drains == d # NoBit /\ o.crypto_keys # NoSession
           y == RemappedReservations(w, o.pending_replay_counters)
           drained == [live EXCEPT !.previous_open = o.crypto_keys,
                                   !.previous_replay_window = o.replay_window,
                                   !.draining_generation = w,
                                   !.pending_replay_counters = @ \cup y]
           Rest(x) == /\ NoPending(x) /\ NoPrevious(x)
                      /\ x.pending_receive_epoch_instance = o.pending_receive_epoch_instance
                      /\ x.pending_replay_counters = {}
<1>1. /\ DOMAIN p = OwnerFields /\ p.protocol = o.protocol /\ p.generation = g
      /\ p.replay_window = EmptyWindow /\ Rest(p)
  BY Rekeyed
<1>2. apply_live_config(o, c) = a
  BY DEF apply_live_config
<1> HIDE DEF p
<1>3. /\ DOMAIN b = OwnerFields /\ b.protocol = o.protocol /\ b.generation = g
      /\ b.send_counter_authority = s /\ b.send_headers = [receiver_idx |-> s, k |-> k]
      /\ b.replay_window = EmptyWindow /\ Rest(b)
  BY <1>1 DEF OwnerFields, NoPending, NoPrevious
<1>4. b.pending_k_bit # k
  BY <1>3 DEF NoPending, NoBit, KBits
<1> HIDE DEF b
<1>5. /\ DOMAIN a = OwnerFields /\ a.protocol = o.protocol /\ a.generation = g
      /\ a.send_counter_authority = s /\ a.send_headers = [receiver_idx |-> s, k |-> k]
      /\ a.current_k_bit = k /\ a.previous_draining_k_bit = d
      /\ a.replay_window = EmptyWindow /\ Rest(a)
  BY <1>3, <1>4, EpochSet DEF NoPending, NoPrevious, SamePending, SamePrevious, SameInFlight
<1> HIDE DEF a
<1>6. /\ DOMAIN applied = OwnerFields /\ applied.protocol = o.protocol
      /\ CurrentIs(applied, g, s, k, d)
      /\ applied.replay_window = EmptyWindow /\ Rest(applied)
  BY <1>5 DEF OwnerFields, CurrentIs, NoPending, NoPrevious
<1>7. c.generation = g /\ c.session = s /\ c.k = k /\ c.draining = d
  OBVIOUS
<1> HIDE DEF c
<1>8. install_session(o, c) =
        IF drains THEN drained
        ELSE IF live.previous_draining_k_bit = NoBit THEN WithoutPrevious(live) ELSE live
  BY <1>2, <1>7 DEF install_session
<1> HIDE DEF applied
<1>9. /\ DOMAIN live = OwnerFields /\ live.protocol = o.protocol
      /\ CurrentIs(live, g, s, k, d)
      /\ live.replay_window = IF promoted THEN o.pending_replay_window ELSE EmptyWindow
      /\ Rest(live)
  <2>1. CASE promoted
    <3> DEFINE u == WithoutPending(applied)
    <3>1. /\ DOMAIN u = OwnerFields /\ u.protocol = o.protocol
          /\ CurrentIs(u, g, s, k, d) /\ Rest(u)
      BY <1>6, Resets DEF CurrentIs, SameCurrent, SamePrevious, NoPrevious, SameInFlight
    <3>2. live = [u EXCEPT !.replay_window = o.pending_replay_window]
      BY <2>1 DEF promoted_pending_replay
    <3> HIDE DEF u, live
    <3>3. QED
      BY <2>1, <3>1, <3>2 DEF OwnerFields, CurrentIs, NoPending, NoPrevious
  <2>2. CASE ~promoted
    BY <1>6, <2>2
  <2>3. QED
    BY <2>1, <2>2
<1> HIDE DEF live
<1>10. CASE drains
  <2>1. install_session(o, c) = drained
    BY <1>8, <1>10
  <2> HIDE DEF y, w
  <2>2. /\ DOMAIN drained = OwnerFields /\ drained.protocol = o.protocol
        /\ CurrentIs(drained, g, s, k, d)
        /\ drained.replay_window = IF promoted THEN o.pending_replay_window ELSE EmptyWindow
        /\ NoPending(drained)
        /\ drained.pending_receive_epoch_instance = o.pending_receive_epoch_instance
        /\ drained.previous_open = o.crypto_keys
        /\ drained.previous_replay_window = o.replay_window
        /\ drained.draining_generation = w
        /\ drained.pending_replay_counters = y
    BY <1>9 DEF OwnerFields, CurrentIs, NoPending
  <2> HIDE DEF drained
  <2>3. QED
    BY <1>10, <2>1, <2>2 DEF c, w, y, Replaced
<1>11. CASE ~drains
  <2> DEFINE r == install_session(o, c)
  <2>1. r = WithoutPrevious(live) \/ r = live
    BY <1>8, <1>11
  <2> HIDE DEF r
  <2>2. /\ DOMAIN r = OwnerFields /\ r.protocol = o.protocol
        /\ CurrentIs(r, g, s, k, d)
        /\ r.replay_window = IF promoted THEN o.pending_replay_window ELSE EmptyWindow
        /\ Rest(r)
    BY <1>9, <2>1, Resets DEF CurrentIs, SameCurrent, NoPending, SamePending, SameInFlight
  <2>3. QED
    BY <1>11, <2>2 DEF r, c, Replaced
<1>12. QED
  BY <1>10, <1>11

\* install_fmp_pending_receive_epoch and install_fsp_pending_epoch: the owner has the
\* completed epoch under the other K bit, and no packet in flight for it.
LEMMA PendingInstalled ==
    ASSUME NEW o, DOMAIN o = OwnerFields, NEW k, k # o.current_k_bit, NEW s
    PROVE  Completed(install_pending_epoch(o, k, s), o, k, s)
<1> DEFINE a == advance_pending_receive_epoch(o)
<1>1. /\ DOMAIN a = OwnerFields
      /\ SameCurrent(a, o) /\ SamePrevious(a, o)
      /\ a.pending_receive_epoch_instance = o.pending_receive_epoch_instance + 1
      /\ a.pending_replay_counters = {x \in o.pending_replay_counters : x[1][1] # "Pending"}
  BY Advances
<1>2. install_pending_epoch(o, k, s) =
        [a EXCEPT !.pending_open = s,
                  !.pending_seal = IF o.protocol = "Fsp" THEN s ELSE NoSession,
                  !.pending_authority = s,
                  !.pending_k_bit = k, !.pending_authenticated_k_bit = NoBit,
                  !.pending_replay_window = EmptyWindow]
  BY DEF install_pending_epoch
<1> HIDE DEF a
<1>3. QED
  BY <1>1, <1>2 DEF OwnerFields, SameCurrent, SamePrevious, Completed

\* clear_fmp_pending_receive_epoch forgets the pending epoch and its packets in flight.
LEMMA PendingCleared ==
    ASSUME NEW o, DOMAIN o = OwnerFields
    PROVE  LET r == clear_pending_receive_epoch(o)
           IN  /\ DOMAIN r = OwnerFields
               /\ SameCurrent(r, o) /\ SamePrevious(r, o) /\ NoPending(r)
               /\ r.pending_receive_epoch_instance = o.pending_receive_epoch_instance + 1
               /\ r.pending_replay_counters =
                     {x \in o.pending_replay_counters : x[1][1] # "Pending"}
<1> DEFINE a == advance_pending_receive_epoch(o)
<1>1. /\ DOMAIN a = OwnerFields
      /\ SameCurrent(a, o) /\ SamePrevious(a, o)
      /\ a.pending_receive_epoch_instance = o.pending_receive_epoch_instance + 1
      /\ a.pending_replay_counters = {x \in o.pending_replay_counters : x[1][1] # "Pending"}
  BY Advances
<1>2. clear_pending_receive_epoch(o) = WithoutPending(a)
  BY DEF clear_pending_receive_epoch
<1> HIDE DEF a
<1>3. QED
  BY <1>1, <1>2, Resets DEF SameCurrent, SamePrevious, SameInFlight
=============================================================================
