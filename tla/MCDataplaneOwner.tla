-------------------------- MODULE MCDataplaneOwner --------------------------
(***************************************************************************)
(* Both protocols, receiving and sending, for model checking.              *)
(***************************************************************************)
EXTENDS DataplaneOwner

World(protocol, in_flight_limit, counters, sends) ==
    [protocol |-> protocol, in_flight_limit |-> in_flight_limit,
     counters |-> counters, sends |-> sends]

\* Two copies of one packet in flight; two packets, one of which is in flight
\* when the other is retired; two nonces.
Owners ==
    {World("Fmp", 2, 0, 0), World("Fmp", 1, 1, 0), World("Fmp", 1, 0, 2),
     World("Fsp", 2, 1, 0), World("Fsp", 1, 0, 2)}
=============================================================================
