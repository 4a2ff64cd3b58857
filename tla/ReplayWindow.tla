---------------------------- MODULE ReplayWindow ----------------------------
(***************************************************************************)
(* One replay window (ReplayRing) offered arbitrary counters in arbitrary   *)
(* order, the way decrypted packets reach OwnerState's window.              *)
(***************************************************************************)
EXTENDS ReplayRing

VARIABLES
    window,         \* the ReplayWindow value
    accepted,       \* history: counters for which accept answered true
    verdict         \* the last answer

wvars == <<window, accepted, verdict>>

WindowInit ==
    /\ window = EmptyWindow
    /\ accepted = {}
    /\ verdict = [counter |-> MaxCounter, ok |-> FALSE]

Accept(c) ==
    LET result == AcceptResult(window, c)
    IN  /\ window' = result.window
        /\ verdict' = [counter |-> c, ok |-> result.ok]
        /\ accepted' = IF result.ok THEN accepted \cup {c} ELSE accepted

WindowNext == \E c \in Counters : Accept(c)

WindowSpec == WindowInit /\ [][WindowNext]_wvars

-----------------------------------------------------------------------------
WindowTypeOK ==
    /\ window \in WindowType
    /\ accepted \in SUBSET Counters
    /\ verdict \in [counter : Counters, ok : BOOLEAN]

\* The ring remembers exactly the accepted counters of the last RingBlocks
\* blocks: reusing a block never leaves a bit of a counter a whole ring older
\* behind, and never loses a bit that is still inside the window.
RingMatchesHistory == Remembers(window, accepted)

\* can_accept, which admission asks before any decryption, predicts accept
\* exactly when nothing is taken in between.
CheckPredictsAccept ==
    \A c \in Counters : can_accept(window, c) <=> AcceptResult(window, c).ok

\* The ring implements the set-based guard: no counter is ever taken twice,
\* and no counter that is in the window and new is ever refused, however far
\* the highest counter jumps and in whatever order counters arrive.
Guard == INSTANCE ReplayGuard WITH Span <- REPLAY_WINDOW_SIZE
ImplementsGuard == Guard!Spec
=============================================================================
