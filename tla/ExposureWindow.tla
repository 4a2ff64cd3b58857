--------------------------- MODULE ExposureWindow ---------------------------
(***************************************************************************)
(* What the relay's durable accounting promises, and nothing of how: it    *)
(* never serves more than it is granted, and every journal it may restart  *)
(* from charges at least what is granted.  A grant is raised only to what  *)
(* the one remaining journal charges.                                      *)
(***************************************************************************)
EXTENDS Integers

VARIABLES
    served,     \* everything ever admitted
    granted,    \* what admission may reach before the next write
    images      \* what the journals that a restart may find would charge

exposure == <<served, granted, images>>

Init ==
    /\ served \in Nat /\ granted \in Nat
    /\ served <= granted
    /\ images # {} /\ images \subseteq Nat
    /\ \A i \in images : granted <= i

Serve ==
    /\ served' \in Nat
    /\ served <= served' /\ served' <= granted
    /\ UNCHANGED <<granted, images>>

Revoke ==
    /\ granted' \in Nat
    /\ served <= granted' /\ granted' <= granted
    /\ UNCHANGED <<served, images>>

\* A journal comes to exist beside the others.
Record(i) ==
    /\ i \in Nat /\ granted <= i
    /\ images' = images \cup {i}
    /\ UNCHANGED <<served, granted>>

\* It is the only one: what it charges may be granted.
Grant(i) ==
    /\ images' = {i}
    /\ granted' \in Nat
    /\ served <= granted' /\ granted' <= i
    /\ UNCHANGED served

\* The process stops; nothing is granted until it has written again.
Restart(i) ==
    /\ images' \in {images, {i}}
    /\ granted' = served
    /\ UNCHANGED served

Next ==
    \/ Serve \/ Revoke
    \/ \E i \in images' : Record(i)
    \/ \E i \in images : Grant(i) \/ Restart(i)

Spec == Init /\ [][Next]_exposure

\* Every journal charges at least everything that was served.
Covered == \A i \in images : served <= i

============================================================================
