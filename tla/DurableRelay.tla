---------------------------- MODULE DurableRelay ----------------------------
(***************************************************************************)
(* The relay's accounting made durable (fips-relay: durable.rs).           *)
(*                                                                         *)
(* One controller at a time changes the ledger and writes the whole of it  *)
(* to a journal, together with a ceiling per channel up to which admission *)
(* may go on before the next write.  Forwarding never waits for that       *)
(* writer: packets are admitted and completed between any two of its       *)
(* steps, against the ceilings published by the previous write.            *)
(*                                                                         *)
(* A write is a temporary file, a rename and a sync of the directory.  The *)
(* journal a process finds when it starts is disk; the ones a loss of      *)
(* power may bring back instead are stale.                                 *)
(***************************************************************************)
EXTENDS RelayLedger

CONSTANT Window      \* window_msat

VARIABLES
    up,         \* the process runs
    ledger,
    windows,    \* PublishedWindows: [ceilings, recorded, ready]
    disk,       \* [ledger, ceilings], as the file system shows it
    stale,      \* earlier journals, until the directory is synced
    writer      \* [phase, allow, journal, job]

relayVars == <<up, ledger, windows, disk, stale, writer>>

NotReady == [ceilings |-> <<>>, recorded |-> <<>>, ready |-> FALSE]
NoJournal == [ledger |-> EmptyLedger, ceilings |-> <<>>]
Idle == [phase |-> "idle", allow |-> FALSE, journal |-> NoJournal, job |-> "none"]

Images == {disk} \cup stale

Accepting == up /\ writer.phase = "idle" /\ windows.ready

-----------------------------------------------------------------------------
(* persist_next *)

Granted(l) == {c \in DOMAIN l.channels : l.channels[c].active /\ ActiveOf(l, c) # {}}

Ceiling(l, c, previous, allow) ==
    LET reach == Min({l.channels[c].usage.reserved + (IF allow THEN Window ELSE 0),
                      relationship_reservation_limit(l, c, l.channels[c].usage.paid)})
    IN IF allow /\ c \in DOMAIN previous THEN Max({reach, previous[c]}) ELSE reach

CeilingsFit(l, previous, allow) ==
    \A c \in Granted(l) :
        allow => Ceiling(l, c, previous, allow)
                   <= relationship_reservation_limit(l, c, l.channels[c].usage.paid)

Recorded(l) == [c \in DOMAIN l.channels |-> l.channels[c].usage.reserved]

\* A relay that has written its journal and is in service.
RelayInit(l) ==
    LET ceilings == [c \in Granted(l) |-> Ceiling(l, c, <<>>, TRUE)]
    IN /\ up = TRUE
       /\ ledger = l
       /\ windows = [ceilings |-> ceilings, recorded |-> Recorded(l), ready |-> TRUE]
       /\ disk = [ledger |-> l, ceilings |-> ceilings]
       /\ stale = {}
       /\ writer = Idle

Suspended == [windows EXCEPT !.ready = FALSE]

\* mutate, up to the change of the ledger; every change is followed by persist
Mutate(next, job) ==
    /\ Accepting
    /\ ledger' = next
    /\ writer' = [Idle EXCEPT !.phase = "changed", !.allow = TRUE, !.job = job]
    /\ UNCHANGED <<up, windows, disk, stale>>

TakeSnapshot ==
    /\ up /\ writer.phase = "changed"
    /\ IF CeilingsFit(ledger, windows.ceilings, writer.allow)
       THEN /\ writer' = [writer EXCEPT
                   !.phase = "writing",
                   !.journal = [ledger |-> ledger,
                                ceilings |-> [c \in Granted(ledger) |->
                                    Ceiling(ledger, c, windows.ceilings, writer.allow)]]]
            /\ UNCHANGED windows
       ELSE writer' = Idle /\ windows' = Suspended
    /\ UNCHANGED <<up, ledger, disk, stale>>

\* write_private_journal, up to the rename
Rename ==
    /\ up /\ writer.phase = "writing"
    /\ disk' = writer.journal
    /\ stale' = stale \cup {disk}
    /\ writer' = [writer EXCEPT !.phase = "renamed"]
    /\ UNCHANGED <<up, ledger, windows>>

\* Windows published as soon as the journal is renamed into place.
PublishUnsynced ==
    /\ up /\ writer.phase = "renamed"
    /\ windows' = [ceilings |-> writer.journal.ceilings,
                   recorded |-> Recorded(writer.journal.ledger),
                   ready |-> writer.allow]
    /\ writer' = Idle
    /\ UNCHANGED <<up, ledger, disk, stale>>

\* The directory is synced; the new windows are published.
Publish ==
    /\ up /\ writer.phase = "renamed"
    /\ stale' = {}
    /\ windows' = [ceilings |-> writer.journal.ceilings,
                   recorded |-> Recorded(writer.journal.ledger),
                   ready |-> writer.allow]
    /\ writer' = Idle
    /\ UNCHANGED <<up, ledger, disk>>

\* An error of any step of the write, the directory sync after the rename included.
WriteFails ==
    /\ up /\ writer.phase \in {"writing", "renamed"}
    /\ writer' = Idle
    /\ windows' = Suspended
    /\ UNCHANGED <<up, ledger, disk, stale>>

-----------------------------------------------------------------------------
(* Operations of the controller *)

(* job names what the write is part of: "op" is the controller's current     *)
(* operation, done when its write is; "serve" is a payment request's.        *)

OpenChannel(c, paid) == CanOpen(ledger, c, paid) /\ Mutate(open_channel_verified(ledger, c, paid), "op")
AddContract(k) == CanAddContract(ledger, k) /\ Mutate(add_contract(ledger, k), "op")
CloseContract(k) == k \in DOMAIN ledger.accounts /\ Mutate(close_contract(ledger, k), "op")
CloseChannel(c) == c \in DOMAIN ledger.channels /\ Mutate(close_channel(ledger, c), "op")
SealChannel(c) == c \in DOMAIN ledger.channels /\ Mutate(seal_channel(ledger, c), "op")

RetireRoutes(c, through, uninstalled) ==
    /\ CanRetireRoutes(ledger, c, through, uninstalled)
    /\ Mutate(retire_closed_routes(ledger, c, through, uninstalled), "op")

RetireChannel(plan) == CanRetireChannel(ledger, plan) /\ Mutate(retire_channels(ledger, plan), "op")

ApplyBalance(c, paid) ==
    /\ CanApplyBalance(ledger, c, paid)
    /\ Mutate(apply_verified_balance(ledger, c, paid), "serve")

checkpoint_due ==
    \E c \in DOMAIN windows.ceilings :
        /\ ledger.channels[c].usage.reserved > (IF c \in DOMAIN windows.recorded THEN windows.recorded[c] ELSE 0)
        /\ Less(windows.ceilings[c], ledger.channels[c].usage.reserved) <= Window \div 2

Checkpoint(job) == Mutate(ledger, job)

Suspend ==
    /\ Accepting
    /\ windows' = Suspended
    /\ writer' = [Idle EXCEPT !.phase = "changed", !.allow = FALSE]
    /\ UNCHANGED <<up, ledger, disk, stale>>

-----------------------------------------------------------------------------
(* Forwarding: neither call waits for the writer *)

Admit(k, packet, now) ==
    /\ up /\ windows.ready
    /\ CanAdmit(ledger, k, packet, now, windows.ceilings)
    /\ ledger' = admit_with_windows(ledger, k, packet)
    /\ UNCHANGED <<up, windows, disk, stale, writer>>

Complete(p, outcome) ==
    /\ up
    /\ ledger' = complete(ledger, p, outcome)
    /\ UNCHANGED <<up, windows, disk, stale, writer>>

-----------------------------------------------------------------------------
(* Restarts *)

Stopped ==
    /\ up' = FALSE
    /\ ledger' = EmptyLedger
    /\ windows' = NotReady
    /\ writer' = Idle

ProcessCrash == up /\ Stopped /\ UNCHANGED <<disk, stale>>

PowerLoss ==
    /\ up /\ Stopped
    /\ disk' \in Images
    /\ stale' = {}

\* load: recover, then write before anyone can send
Load ==
    /\ ~up
    /\ Recoverable(disk.ledger, disk.ceilings)
    /\ up' = TRUE
    /\ ledger' = recover_windows(disk.ledger, disk.ceilings)
    /\ windows' = NotReady
    /\ writer' = [Idle EXCEPT !.phase = "changed", !.allow = TRUE]
    /\ UNCHANGED <<disk, stale>>

============================================================================
