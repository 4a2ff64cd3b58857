---------------------------- MODULE PaidChannel ----------------------------
(***************************************************************************)
(* A buyer that sends through a paid relay, and pays it.                   *)
(*                                                                         *)
(* The relay is DurableRelay.  The buyer keeps BuyerLedger in a journal of *)
(* its own.  Packets go from the one to the other and may be lost or       *)
(* duplicated.  The payment exchange asks for the relay's durable usage,   *)
(* signs what the buyer's own evidence supports, and hands the signature   *)
(* over; every answer may be lost.  Either process may stop anywhere, and  *)
(* either machine may lose power.                                          *)
(*                                                                         *)
(* The controllers' operations come from a script per side, in order; an   *)
(* operation is repeated until its write is durable.  Clocks are read      *)
(* anew at every use and are not monotone.                                 *)
(***************************************************************************)
EXTENDS DurableRelay, BuyerLedger

CONSTANTS
    Worlds,     \* where a behaviour starts and how often what may happen in it:
                \* [ledger, buyer, air, script, bscript, packets, dups, losses,
                \*  faults, stops, bstops, times]; times is what a clock may show
    Buyer       \* the buyer's node address

VARIABLES
    bup, buyer, bready, bdisk, bstale,
    bwriter,    \* [phase, snapshot, job], job in {"none", "op", "sign", "reproduce"}
    pay,        \* the payment job: [phase, channel, usage, balance]
    sched,      \* channel -> [paid, retry]: ChannelSchedule; paid = -1 before the first answer
    serve,      \* the payment server: [step, channel]
    plan, bplan,\* retirement plans, kept by the controllers' own journals
    air,        \* packets on the way to the relay
    world,
    served, carried, sent, signed   \* history variables, see the properties

buyerVars == <<bup, buyer, bready, bdisk, bstale, bwriter, bplan>>
payVars == <<pay, sched, serve>>
ghosts == <<served, carried, sent, signed>>
vars == <<relayVars, buyerVars, payVars, plan, air, world, ghosts>>

NoPlan == [channel |-> "none"]
NoJob == [phase |-> "idle", channel |-> "none", usage |-> NoSpend, balance |-> 0]
NotServing == [step |-> "idle", channel |-> "none"]
BuyerIdle == [phase |-> "idle", snapshot |-> NewBuyer, job |-> "none"]

Bounds(w) == Restrict(w, DOMAIN w \ {"ledger", "buyer", "air"})

Init ==
    \E w \in Worlds :
    /\ world = Bounds(w)
    /\ RelayInit(w.ledger)
    /\ bup = TRUE /\ buyer = w.buyer /\ bready = TRUE
    /\ bdisk = w.buyer /\ bstale = {} /\ bwriter = BuyerIdle
    /\ pay = NoJob
    /\ sched = [c \in Channels |-> [paid |-> -1, retry |-> FALSE]]
    /\ serve = NotServing
    /\ plan = NoPlan /\ bplan = NoPlan
    /\ air = w.air
    /\ served = MapThenSumSet(LAMBDA c : w.ledger.channels[c].usage.reserved, DOMAIN w.ledger.channels)
    /\ carried = [k \in Contracts |-> IF k \in DOMAIN w.ledger.accounts
                                      THEN w.ledger.accounts[k].usage.submitted ELSE 0]
    /\ sent = [k \in Contracts |-> IF k \in DOMAIN w.buyer.quotes THEN w.buyer.quotes[k].submitted ELSE 0]
    /\ signed = [c \in Channels |-> IF c \in DOMAIN w.buyer.channels THEN w.buyer.channels[c].authorized ELSE 0]

-----------------------------------------------------------------------------
(* The relay's controller *)

Now == IF world.script = <<>> THEN [do |-> "rest"] ELSE Head(world.script)
Advanced == [world EXCEPT !.script = Tail(@)]

relayOnly == <<buyerVars, payVars, air, ghosts>>

ControllerChange ==
    /\ \/ Now.do = "open" /\ OpenChannel(Now.channel, Now.paid)
       \/ Now.do = "add" /\ AddContract(Now.contract)
       \/ Now.do = "close" /\ CloseContract(Now.contract)
       \/ Now.do = "close_channel" /\ CloseChannel(Now.channel)
       \/ Now.do = "seal" /\ SealChannel(Now.channel)
       \/ Now.do = "retire_routes" /\ RetireRoutes(Now.channel, Now.through, Now.uninstalled)
       \/ Now.do = "retire_channel" /\ plan # NoPlan /\ RetireChannel(plan)
    /\ UNCHANGED <<plan, world, relayOnly>>

\* The plan is kept before it is handed to the ledger.
ControllerPlans ==
    /\ Now.do = "plan" /\ Accepting
    /\ \E now \in world.times : CanPlanRetirement(ledger, Now.channel, now)
    /\ PlanValid(channel_retirement_plan(ledger, Now.channel))
    /\ plan' = channel_retirement_plan(ledger, Now.channel)
    /\ world' = Advanced
    /\ UNCHANGED <<relayVars, relayOnly>>

\* A handoff that is in place already is acknowledged without a write.
ControllerFindsPlanDone ==
    /\ Now.do = "retire_channel" /\ Accepting
    /\ plan # NoPlan /\ PlanDone(ledger, plan)
    /\ world' = Advanced
    /\ UNCHANGED <<relayVars, relayOnly, plan>>

\* The ledger refuses the operation.
ControllerRefused ==
    /\ Accepting
    /\ \/ Now.do = "open" /\ ~CanOpen(ledger, Now.channel, Now.paid)
       \/ Now.do = "add" /\ ~CanAddContract(ledger, Now.contract)
       \/ Now.do \in {"close_channel", "seal"} /\ Now.channel \notin DOMAIN ledger.channels
       \/ Now.do = "close" /\ Now.contract \notin DOMAIN ledger.accounts
       \/ Now.do = "retire_routes" /\ ~CanRetireRoutes(ledger, Now.channel, Now.through, Now.uninstalled)
       \/ Now.do = "plan" /\ ~CanPlanRetirement(ledger, Now.channel, Max(world.times))
       \/ Now.do = "retire_channel"
            /\ (plan # NoPlan => ~CanRetireChannel(ledger, plan) /\ ~PlanDone(ledger, plan))
    /\ world' = Advanced
    /\ UNCHANGED <<relayVars, relayOnly, plan>>

ControllerCheckpoint ==
    /\ Accepting /\ checkpoint_due
    /\ Checkpoint("none")
    /\ UNCHANGED <<plan, world, relayOnly>>

\* Orderly stop; nothing is admitted until the relay is loaded again.
ControllerSuspend ==
    /\ Now.do = "suspend"
    /\ Suspend
    /\ world' = Advanced
    /\ UNCHANGED <<plan, relayOnly>>

-----------------------------------------------------------------------------
(* The relay's writer *)

RelaySnapshot ==
    /\ TakeSnapshot
    /\ UNCHANGED <<plan, world, relayOnly>>

RelayRename ==
    /\ Rename
    /\ UNCHANGED <<plan, world, relayOnly>>

Answer(phase, usage) == [pay EXCEPT !.phase = phase, !.usage = usage]

\* Usage read from the live ledger when the write is done.
RelayPublishLive ==
    /\ Publish
    /\ world' = IF writer.job = "op" THEN Advanced ELSE world
    /\ IF writer.job = "serve" /\ serve.step = "applying"
       THEN serve' = [serve EXCEPT !.step = "checkpoint"] /\ UNCHANGED pay
       ELSE IF writer.job = "serve"
       THEN /\ serve' = NotServing
            /\ pay' = IF pay.phase \in {"asking", "paying"}
                      THEN Answer(IF pay.phase = "asking" THEN "told" ELSE "paid",
                                  ledger.channels[serve.channel].usage)
                      ELSE pay
       ELSE UNCHANGED <<serve, pay>>
    /\ UNCHANGED <<plan, sched, buyerVars, air, ghosts>>

\* The caller of the write continues.  Usage is what the journal holds.
RelayPublish ==
    /\ Publish
    /\ world' = IF writer.job = "op" THEN Advanced ELSE world
    /\ IF writer.job = "serve" /\ serve.step = "applying"
       THEN serve' = [serve EXCEPT !.step = "checkpoint"] /\ UNCHANGED pay
       ELSE IF writer.job = "serve"
       THEN /\ serve' = NotServing
            /\ pay' = IF pay.phase \in {"asking", "paying"}
                      THEN Answer(IF pay.phase = "asking" THEN "told" ELSE "paid",
                                  writer.journal.ledger.channels[serve.channel].usage)
                      ELSE pay
       ELSE UNCHANGED <<serve, pay>>
    /\ UNCHANGED <<plan, sched, buyerVars, air, ghosts>>

\* A job that gets no answer, or a refusal, is retried later.
Failed(c) == [sched EXCEPT ![c].retry = TRUE]

DropAnswer ==
    IF serve.step # "idle" /\ pay.phase \in {"asking", "paying"}
    THEN pay' = NoJob /\ sched' = Failed(pay.channel)
    ELSE UNCHANGED <<pay, sched>>

RelayWriteFails ==
    /\ world.faults > 0
    /\ world' = [world EXCEPT !.faults = @ - 1]
    /\ WriteFails
    /\ IF writer.job = "serve" THEN serve' = NotServing /\ DropAnswer ELSE UNCHANGED payVars
    /\ UNCHANGED <<plan, buyerVars, air, ghosts>>

RelayStops ==
    /\ world.stops > 0
    /\ world' = [world EXCEPT !.stops = @ - 1]
    /\ ProcessCrash \/ PowerLoss
    /\ serve' = NotServing
    /\ DropAnswer
    /\ UNCHANGED <<plan, buyerVars, air, ghosts>>

RelayLoads ==
    /\ Load
    /\ UNCHANGED <<plan, world, relayOnly>>

-----------------------------------------------------------------------------
(* Packets *)

\* The source admits a send (prepare before sealing, or observe for legacy billing).
Send(p) ==
    /\ bup /\ p \in world.packets
    /\ \E now \in world.times : \E k \in Covering(buyer, p, now) :
          /\ ~(Quotes[k].billing = "data" /\ p.handshake)
          /\ CanReserve(buyer, k, p)
          /\ IF WithinQuota(buyer, k, p)
             THEN buyer' = reserve_attempt(buyer, k, p) /\ air' = air \cup {p}
             ELSE buyer' = BlockQuota(buyer, k) /\ air' = air
    /\ world' = [world EXCEPT !.packets = @ \ {p}]
    /\ UNCHANGED <<bup, bready, bdisk, bstale, bwriter, bplan, relayVars, payVars, plan, ghosts>>

\* A send that no quote covers: rejected, or left to the relay's own admission.
SendUncovered(p) ==
    /\ bup /\ p \in world.packets
    /\ \E now \in world.times :
          /\ Covering(buyer, p, now) = {}
          /\ air' = IF Rejected(buyer, p, now) THEN air ELSE air \cup {p}
    /\ world' = [world EXCEPT !.packets = @ \ {p}]
    /\ UNCHANGED <<buyerVars, relayVars, payVars, plan, ghosts>>

SendCompletes(token, outcome) ==
    LET at == buyer.pending[token]
        units == buyer.quotes[at.quote].attempts[at.index].units
    IN /\ bup
       /\ buyer' = complete_send(buyer, token, outcome)
       /\ sent' = IF outcome = "submitted" THEN [sent EXCEPT ![at.quote] = @ + units] ELSE sent
       /\ UNCHANGED <<bup, bready, bdisk, bstale, bwriter, bplan, relayVars, payVars, plan, air,
                      world, served, carried, signed>>

RelayAdmits(p) ==
    /\ p \in air
    /\ \E now \in world.times, k \in Accounts(ledger, Buyer, p) :
          /\ Admit(k, p, now)
          /\ served' = served + Cost(ledger, k, p.units)
    /\ \/ air' = air \ {p} /\ UNCHANGED world
       \/ air' = air /\ world.dups > 0 /\ world' = [world EXCEPT !.dups = @ - 1]
    /\ UNCHANGED <<plan, buyerVars, payVars, carried, sent, signed>>

\* Lost on the way, or dropped by the relay.
PacketLost(p) ==
    /\ p \in air
    /\ air' = air \ {p}
    /\ UNCHANGED <<relayVars, buyerVars, payVars, plan, world, ghosts>>

ForwardCompletes(p, outcome) ==
    LET units == (CHOOSE x \in ledger.accounts[p.account].attempts : x.token = p.token).units
    IN /\ Complete(p, outcome)
       /\ carried' = IF outcome = "submitted" THEN [carried EXCEPT ![p.account] = @ + units] ELSE carried
       /\ UNCHANGED <<plan, world, buyerVars, payVars, air, served, sent, signed>>

-----------------------------------------------------------------------------
(* The buyer's controller and writer *)

BNow == IF world.bscript = <<>> THEN [do |-> "rest"] ELSE Head(world.bscript)
BAdvanced == [world EXCEPT !.bscript = Tail(@)]
BAccepting == bup /\ bwriter.phase = "idle" /\ bready

buyerOnly == <<relayVars, sched, serve, plan, air, served, carried, sent>>

\* change: the snapshot is taken under the same lock as the change
Change(next, job) ==
    /\ BAccepting
    /\ buyer' = next
    /\ bwriter' = [phase |-> "writing", snapshot |-> next, job |-> job]
    /\ UNCHANGED <<bup, bready, bdisk, bstale>>

BuyerChange ==
    /\ \/ BNow.do = "accept" /\ CanAcceptChannel(buyer, BNow.channel)
            /\ Change(accept_channel(buyer, BNow.channel), "op")
       \/ BNow.do = "quote" /\ CanAcceptQuote(buyer, BNow.contract)
            /\ Change(accept_quote(buyer, BNow.contract), "op")
       \/ BNow.do = "close" /\ BNow.contract \in DOMAIN buyer.quotes
            /\ Change(close_quote(buyer, BNow.contract), "op")
       \/ BNow.do = "close_channel" /\ BNow.channel \in DOMAIN buyer.channels
            /\ Change(close_purchase(buyer, BNow.channel), "op")
       \/ BNow.do = "retire_routes" /\ CanRetirePurchases(buyer, BNow.channel, BNow.through)
            /\ Change(retire_purchases(buyer, BNow.channel, BNow.through), "op")
       \/ BNow.do = "retire_channel" /\ bplan # NoPlan /\ CanRetirePurchase(buyer, bplan)
            /\ Change(retire_purchase(buyer, bplan), "op")
    /\ UNCHANGED <<buyerOnly, pay, bplan, world, signed>>

\* Withdrawal stops admission even when an earlier write failed.
BuyerWithdraws ==
    /\ bup /\ bwriter.phase = "idle" /\ ~bready
    /\ BNow.do = "close" /\ BNow.contract \in DOMAIN buyer.quotes
    /\ buyer' = close_quote(buyer, BNow.contract)
    /\ buyer' # buyer
    /\ UNCHANGED <<bup, bready, bdisk, bstale, bwriter, bplan, buyerOnly, pay, world, signed>>

\* reproduce_payment: the authorized balance once more, with the funding attached
BuyerReproduces ==
    /\ BNow.do = "reproduce"
    /\ \E now \in world.times : CanSign(buyer, BNow.channel, 0, now, TRUE)
    /\ Change(sign_claim(buyer, BNow.channel, 0), "reproduce")
    /\ UNCHANGED <<buyerOnly, pay, bplan, world, signed>>

BuyerPlans ==
    /\ BNow.do = "plan" /\ BAccepting
    /\ \E now \in world.times : CanPlanPurchase(buyer, BNow.channel, now)
    /\ PurchasePlanValid(purchase_retirement_plan(buyer, BNow.channel))
    /\ bplan' = purchase_retirement_plan(buyer, BNow.channel)
    /\ world' = BAdvanced
    /\ UNCHANGED <<bup, buyer, bready, bdisk, bstale, bwriter, buyerOnly, pay, signed>>

BuyerRefused ==
    /\ BAccepting
    /\ \/ BNow.do = "accept" /\ ~CanAcceptChannel(buyer, BNow.channel)
       \/ BNow.do = "quote" /\ ~CanAcceptQuote(buyer, BNow.contract)
       \/ BNow.do = "close" /\ BNow.contract \notin DOMAIN buyer.quotes
       \/ BNow.do = "close_channel" /\ BNow.channel \notin DOMAIN buyer.channels
       \/ BNow.do = "retire_routes" /\ ~CanRetirePurchases(buyer, BNow.channel, BNow.through)
       \/ BNow.do = "plan" /\ ~CanPlanPurchase(buyer, BNow.channel, Max(world.times))
       \/ BNow.do = "reproduce" /\ ~CanSign(buyer, BNow.channel, 0, 0, TRUE)
       \/ BNow.do = "retire_channel"  \* done already, or not possible
            /\ (bplan # NoPlan => ~CanRetirePurchase(buyer, bplan))
    /\ world' = BAdvanced
    /\ UNCHANGED <<buyerVars, buyerOnly, pay, signed>>

BuyerRename ==
    /\ bup /\ bwriter.phase = "writing"
    /\ bdisk' = bwriter.snapshot
    /\ bstale' = bstale \cup {bdisk}
    /\ bwriter' = [bwriter EXCEPT !.phase = "renamed"]
    /\ UNCHANGED <<bup, buyer, bready, bplan, buyerOnly, pay, world, signed>>

Signs(c, balance) == [signed EXCEPT ![c] = Max({@, balance})]

\* The authorization is durable before the signer is asked.
BuyerPersisted ==
    /\ bup /\ bwriter.phase = "renamed"
    /\ bstale' = {}
    /\ bwriter' = BuyerIdle
    /\ world' = IF bwriter.job \in {"op", "reproduce"} THEN BAdvanced ELSE world
    /\ pay' = IF bwriter.job = "sign" THEN [pay EXCEPT !.phase = "offer"] ELSE pay
    /\ signed' = IF bwriter.job = "sign" THEN Signs(pay.channel, pay.balance)
                 ELSE IF bwriter.job = "reproduce"
                 THEN Signs(BNow.channel, bwriter.snapshot.channels[BNow.channel].authorized)
                 ELSE signed
    /\ UNCHANGED <<bup, buyer, bready, bdisk, bplan, buyerOnly>>

BuyerWriteFails ==
    /\ world.faults > 0
    /\ world' = [world EXCEPT !.faults = @ - 1]
    /\ bup /\ bwriter.phase \in {"writing", "renamed"}
    /\ bwriter' = BuyerIdle
    /\ bready' = FALSE
    /\ IF bwriter.job = "sign" THEN pay' = NoJob /\ sched' = Failed(pay.channel)
       ELSE UNCHANGED <<pay, sched>>
    /\ UNCHANGED <<bup, buyer, bdisk, bstale, bplan, relayVars, serve, plan, air, ghosts>>

\* The schedule is only in memory.
BuyerStops ==
    /\ world.bstops > 0
    /\ world' = [world EXCEPT !.bstops = @ - 1]
    /\ bup
    /\ bup' = FALSE
    /\ buyer' = NewBuyer
    /\ bready' = FALSE
    /\ bwriter' = BuyerIdle
    /\ \/ UNCHANGED <<bdisk, bstale>>
       \/ bdisk' \in {bdisk} \cup bstale /\ bstale' = {}
    /\ pay' = NoJob
    /\ sched' = [c \in Channels |-> [paid |-> -1, retry |-> FALSE]]
    /\ UNCHANGED <<bplan, relayVars, serve, plan, air, ghosts>>

\* load: recover, then checkpoint
BuyerLoads ==
    /\ ~bup
    /\ BuyerRecoverable(bdisk)
    /\ bup' = TRUE
    /\ buyer' = recover_buyer(bdisk)
    /\ bready' = TRUE
    /\ bwriter' = [phase |-> "writing", snapshot |-> recover_buyer(bdisk), job |-> "none"]
    /\ UNCHANGED <<bdisk, bstale, bplan, buyerOnly, pay, world, signed>>

-----------------------------------------------------------------------------
(* Payment *)

\* ChannelSchedule.due, once its delays have run out
due(c) ==
    \/ sched[c].retry
    \/ sched[c].paid = -1
    \/ Max({evidence_msat(buyer, c), buyer.channels[c].authorized * Sat}) > sched[c].paid

PayStarts(c) ==
    /\ bup /\ pay.phase = "idle"
    /\ c \in DOMAIN buyer.channels /\ buyer.channels[c].active
    /\ due(c)
    /\ pay' = [NoJob EXCEPT !.phase = "ask", !.channel = c]
    /\ UNCHANGED <<sched, serve, relayVars, buyerVars, plan, air, world, ghosts>>

\* handle_inner for Usage: straight to the checkpoint
ServeUsage ==
    /\ up /\ serve.step = "idle" /\ pay.phase = "ask"
    /\ IF pay.channel \in DOMAIN ledger.channels
       THEN /\ serve' = [step |-> "checkpoint", channel |-> pay.channel]
            /\ pay' = [pay EXCEPT !.phase = "asking"]
            /\ UNCHANGED sched
       ELSE pay' = NoJob /\ sched' = Failed(pay.channel) /\ UNCHANGED serve
    /\ UNCHANGED <<relayVars, buyerVars, plan, air, world, ghosts>>

\* ... and for Update: the verified balance first
ServeUpdate ==
    /\ Accepting /\ serve.step = "idle" /\ pay.phase = "offer"
    /\ IF CanApplyBalance(ledger, pay.channel, pay.balance * Sat)
       THEN /\ ApplyBalance(pay.channel, pay.balance * Sat)
            /\ serve' = [step |-> "applying", channel |-> pay.channel]
            /\ pay' = [pay EXCEPT !.phase = "paying"]
            /\ UNCHANGED sched
       ELSE pay' = NoJob /\ sched' = Failed(pay.channel) /\ UNCHANGED <<serve, relayVars>>
    /\ UNCHANGED <<buyerVars, plan, air, world, ghosts>>

ServeCheckpoint ==
    /\ serve.step = "checkpoint" /\ serve.channel \in DOMAIN ledger.channels
    /\ Checkpoint("serve")
    /\ serve' = [serve EXCEPT !.step = "reading"]
    /\ UNCHANGED <<pay, sched, buyerVars, plan, air, world, ghosts>>

\* A suspended relay, or a channel retired meanwhile, answers with a refusal.
ServeRefuses ==
    /\ up /\ writer.phase = "idle"
    /\ \/ ~windows.ready /\ serve.step = "checkpoint"
       \/ serve.step = "checkpoint" /\ serve.channel \notin DOMAIN ledger.channels
    /\ serve' = NotServing
    /\ DropAnswer
    /\ UNCHANGED <<relayVars, buyerVars, plan, air, world, ghosts>>

\* The request or its answer is lost, or the job gives up waiting.
PayLost ==
    /\ \/ world.losses > 0 /\ world' = [world EXCEPT !.losses = @ - 1]
       \/ ~up /\ UNCHANGED world
       \/ ~windows.ready /\ writer.phase = "idle" /\ serve.step = "idle" /\ UNCHANGED world
    /\ pay.phase \in {"ask", "asking", "told", "offer", "paying", "paid"}
    /\ pay' = NoJob
    /\ sched' = Failed(pay.channel)
    /\ UNCHANGED <<serve, relayVars, buyerVars, plan, air, ghosts>>

valid_usage(c, u) ==
    /\ u.paid <= Terms[c].capacity * Sat
    /\ u.reserved <= Terms[c].capacity * Sat
    /\ u.submitted <= u.reserved
    /\ u.lost <= u.reserved - u.submitted

Acknowledged(c, usage) == [sched EXCEPT ![c] = [paid |-> usage.paid, retry |-> FALSE]]

\* The claim as the relay states it; sign_claim refuses what exceeds the evidence.
ClaimedInFull(c) == pay.usage.submitted

\* The claim, cut down to what the buyer's own evidence supports.
Supported(c) == Min({pay.usage.submitted, evidence_msat(buyer, c)})

\* pay_channel from the usage answer to the signature
PayDecides ==
    LET c == pay.channel
    IN /\ bup /\ pay.phase = "told"
       /\ IF c \notin DOMAIN buyer.channels \/ ~valid_usage(c, pay.usage)
          THEN pay' = NoJob /\ sched' = Failed(c) /\ UNCHANGED buyerVars
          ELSE IF /\ pay.usage.paid \div Sat >= DivCeil(Supported(c), Sat)
                  /\ pay.usage.paid \div Sat >= buyer.channels[c].authorized
          THEN pay' = NoJob /\ sched' = Acknowledged(c, pay.usage) /\ UNCHANGED buyerVars
          ELSE \E now \in world.times :
               IF BAccepting /\ CanSign(buyer, c, Supported(c), now, FALSE)
               THEN /\ Change(sign_claim(buyer, c, Supported(c)), "sign")
                    /\ pay' = [pay EXCEPT !.phase = "signing", !.balance = SignedBalance(buyer, c, Supported(c))]
                    /\ UNCHANGED <<bplan, sched>>
               ELSE /\ bwriter.phase = "idle"
                    /\ pay' = NoJob /\ sched' = Failed(c) /\ UNCHANGED buyerVars
       /\ UNCHANGED <<relayVars, serve, plan, air, world, ghosts>>

PayAcknowledged ==
    /\ bup /\ pay.phase = "paid"
    /\ pay' = NoJob
    /\ sched' = IF pay.usage.paid >= pay.balance * Sat /\ valid_usage(pay.channel, pay.usage)
                THEN Acknowledged(pay.channel, pay.usage) ELSE Failed(pay.channel)
    /\ UNCHANGED <<serve, relayVars, buyerVars, plan, air, world, ghosts>>

-----------------------------------------------------------------------------

RelayWrites == RelaySnapshot \/ RelayRename \/ RelayPublish
BuyerWrites == BuyerRename \/ BuyerPersisted
RelayController == ControllerChange \/ ControllerPlans \/ ControllerFindsPlanDone \/ ControllerRefused
BuyerController == BuyerChange \/ BuyerReproduces \/ BuyerPlans \/ BuyerRefused
Serving == ServeUsage \/ ServeUpdate \/ ServeCheckpoint \/ ServeRefuses
Paying == (\E c \in Channels : PayStarts(c)) \/ PayDecides \/ PayAcknowledged
Completing ==
    \/ \E p \in ledger.pending, o \in {"submitted", "unconfirmed"} : ForwardCompletes(p, o)
    \/ \E t \in DOMAIN buyer.pending, o \in {"submitted", "unconfirmed"} : SendCompletes(t, o)
Traffic == \E p \in air : RelayAdmits(p) \/ PacketLost(p)
Faults == RelayWriteFails \/ RelayStops \/ BuyerWriteFails \/ BuyerStops \/ PayLost

Next ==
    \/ RelayController \/ ControllerCheckpoint \/ ControllerSuspend
    \/ RelayWrites \/ RelayLoads
    \/ BuyerController \/ BuyerWithdraws \/ BuyerWrites \/ BuyerLoads
    \/ \E p \in world.packets : Send(p) \/ SendUncovered(p)
    \/ Traffic \/ Completing
    \/ Serving \/ Paying
    \/ Faults

\* Processes that run keep running, a stopped one is started again, and a
\* packet that was handed over is forwarded or lost: every loop of the two
\* programs is scheduled again and again.  No fault has to happen.
Fairness ==
    /\ WF_vars(RelayWrites) /\ WF_vars(BuyerWrites)
    /\ WF_vars(RelayLoads) /\ WF_vars(BuyerLoads)
    /\ WF_vars(RelayController) /\ WF_vars(BuyerController)
    /\ WF_vars(ControllerCheckpoint)
    /\ WF_vars(Traffic) /\ WF_vars(Completing)
    /\ WF_vars(Serving) /\ WF_vars(Paying)

Spec == Init /\ [][Next]_vars /\ Fairness

-----------------------------------------------------------------------------
(* Properties *)

TotalReserved(l) ==
    l.history.usage.reserved + MapThenSumSet(LAMBDA c : l.channels[c].usage.reserved, DOMAIN l.channels)

Recovered(image) == recover_windows(image.ledger, image.ceilings)

Ledgers == {Recovered(i) : i \in Images} \cup (IF up THEN {ledger} ELSE {})

Owed(l, r) ==
    l.history.debts[r]
      + MapThenSumSet(LAMBDA c : Debt(l.channels[c].usage), {c \in DOMAIN l.channels : Relation(c) = r})

\* A buyer's unpaid exposure at one mint never exceeds the largest grace it was
\* given, over renewals, restarts and retirement: opening again creates no credit
\* (relationship_reservation_limit carries every old debt).
CreditIsBounded ==
    \A l \in Ledgers, r \in Relations :
        Owed(l, r) <= Max({Terms[c].grace : c \in {d \in Channels : Relation(d) = r}})

\* Every journal that a crash may leave passes the checks of its own recovery,
\* on both sides: no order of admissions, completions and writes makes a state
\* that restore, recover_windows or validate_and_recover would refuse.
AlwaysRecoverable ==
    /\ \A i \in Images : Recoverable(i.ledger, i.ceilings)
    /\ \A b \in {bdisk} \cup bstale : BuyerRecoverable(b)

Due(units, c) ==
    MapThenSumSet(LAMBDA k : amount_due_msat(k, units[k]), {k \in Contracts : Quotes[k].channel = c})

\* What the relay tells a buyer it may claim was really forwarded, is in every
\* journal the relay may come back with, and passes the buyer's check of it.
ClaimsAreDurable ==
    pay.phase \in {"told", "paid", "signing", "offer", "paying"} =>
        /\ pay.usage.submitted <= Due(carried, pay.channel)
        /\ valid_usage(pay.channel, pay.usage)
        /\ \A l \in Ledgers : pay.channel \in DOMAIN l.channels =>
              pay.usage.submitted <= l.channels[pay.channel].usage.submitted

\* A signature that left the buyer is covered by what the buyer itself sent, by
\* an authorization in every journal it may come back with, and all of them
\* together by its lifetime budget (sign_claim persists before it signs).
SignaturesAreCovered ==
    /\ \A c \in Channels : signed[c] <= DivCeil(Due(sent, c) + Advance, Sat)
    /\ \A b \in {bdisk} \cup bstale \cup (IF bup THEN {buyer} ELSE {}) : \A c \in DOMAIN b.channels :
          signed[c] <= b.channels[c].authorized
    /\ MapThenSumSet(LAMBDA c : signed[c], Channels) <= Budget

\* Every outstanding token finds its attempt, so that no completion panics or
\* completes somebody else's: the relay's pending map, also over seal and
\* retirement, and the buyer's indices over swap_remove.
TokensResolve ==
    /\ \A p \in ledger.pending :
          /\ p.account \in DOMAIN ledger.accounts
          /\ Quotes[p.account].channel \in DOMAIN ledger.channels
          /\ \E x \in ledger.accounts[p.account].attempts : x.token = p.token /\ x.state = "pending"
    /\ \A t \in DOMAIN buyer.pending :
          LET at == buyer.pending[t]
          IN /\ at.quote \in DOMAIN buyer.quotes
             /\ at.index \in DOMAIN buyer.quotes[at.quote].attempts
             /\ buyer.quotes[at.quote].attempts[at.index].outcome = "pending"
             /\ ~Legacy(at.quote) => buyer.quotes[at.quote].attempts[at.index].token = t
    /\ windows.ready => DOMAIN windows.ceilings \subseteq DOMAIN ledger.channels

\* Nothing on disk or in memory points nowhere: every journal a crash may leave is
\* accepted by its own recovery, and every outstanding token finds its attempt.
RecordsResolve == AlwaysRecoverable /\ TokensResolve

\* What the relay says is due was forwarded and is on its disk, and what the buyer signs
\* was sent, is on its own disk and within its budget (sign_claim).
PaymentsAreCovered == ClaimsAreDurable /\ SignaturesAreCovered

Room(c) == IF up /\ windows.ready /\ c \in Granted(ledger) /\ c \in DOMAIN windows.ceilings
           THEN Less(windows.ceilings[c], ledger.channels[c].usage.reserved) ELSE 0

Exposure == INSTANCE ExposureWindow WITH
    served <- served,
    granted <- served + MapThenSumSet(Room, Channels),
    images <- {TotalReserved(Recovered(i)) : i \in Images}

\* The relay's writer, its crashes and its retirement of old accounting keep the
\* promise of ExposureWindow.
ImplementsExposure == Exposure!Spec

Settled(c) ==
    LET owed == Min({ledger.channels[c].usage.submitted, evidence_msat(buyer, c)})
    IN /\ DivCeil(owed, Sat) * Sat <= ledger.channels[c].usage.paid
       /\ buyer.channels[c].authorized * Sat <= ledger.channels[c].usage.paid

\* A failed write stops its side until somebody restarts it.
Halted == (up /\ writer.phase = "idle" /\ ~windows.ready) \/ (bup /\ bwriter.phase = "idle" /\ ~bready)

Payable(c) ==
    /\ c \in DOMAIN ledger.channels
    /\ c \in DOMAIN buyer.channels /\ buyer.channels[c].active
    /\ \A now \in world.times : now < Terms[c].expires

\* Once traffic and faults are over, the relay has been paid for everything both
\* sides have evidence of, and holds every balance the buyer authorized: lost
\* answers, restarts and sends that raced an answer are made good by the
\* schedule's rechecks (ChannelSchedule.due, pay_channel).
PaymentCatchesUp ==
    <>[](Halted \/ (up /\ bup /\ \A c \in Channels : Payable(c) => Settled(c)))

============================================================================
