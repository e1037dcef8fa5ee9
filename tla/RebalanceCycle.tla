--------------------------- MODULE RebalanceCycle ---------------------------
(***************************************************************************)
(* The cross-exchange rebalancer: a live cycle buys on one venue, sells    *)
(* what the buy is confirmed to have filled on the other                   *)
(* (spot_arbitrage_executor.py, buy_then_sell), repairs a confirmed        *)
(* imbalance with an emergency hedge (emergency_hedge.py), and accounts    *)
(* for the result in a runtime kept in a file                              *)
(* (cross_exchange_rebalancer.py, web/background/rebalance.py) that the    *)
(* operator acknowledges, stops and resets (web/routes/strategies.py).     *)
(* The runtime belongs to a pair of markets (config_fingerprint) and the   *)
(* file to a path (runtime_path); the operator may change both at any time.*)
(*                                                                         *)
(* Quantities are in units of the base asset, and all prices are one, so   *)
(* that the quote targets and caps are counted in the same units.  An      *)
(* exchange may fill any part of an open order at any time.                *)
(***************************************************************************)
EXTENDS Integers, FiniteSetsExt

CONSTANTS
    Target,         \* total_quote_common
    Slice,          \* quote_per_cycle_common
    Coordinated,    \* coordinate_market_maker
    HaltOnError,    \* halt_on_error
    MaxHedge,       \* max_auto_hedge_quote, 0 when the hedge is not enabled
    MaxAttempts,    \* auto_hedge_max_attempts
    Pairs,          \* the pairs of markets, as config_fingerprint tells them apart
    Paths,          \* the values of runtime_path
    MaxBought,      \* bound on what is bought in all cycles
    MaxIncidents    \* bound on crashes and on edits of the pair or the path

ASSUME RebalanceAssumption ==
    /\ Target \in Nat \ {0} /\ Slice \in Nat \ {0}
    /\ Coordinated \in BOOLEAN /\ HaltOnError \in BOOLEAN
    /\ MaxHedge \in Nat /\ MaxAttempts \in Nat \ {0}
    /\ Pairs # {} /\ Paths # {}
    /\ MaxBought \in Nat /\ MaxIncidents \in Nat

VARIABLES
    order,          \* the orders of the cycle, as the exchanges have them
    traded,         \* what all orders of a leg bought or sold
    stray,          \* what is open of the orders of earlier cycles
    cycle,          \* the coroutine of the task loop
    runtime,        \* the runtime of the loop, published as cross_exchange_rebalance_runtime
    path,           \* current_path of the loop
    file,           \* the runtime saved at each path
    route,          \* the pair and the path of the configuration
    enabled,        \* enabled and live_enabled of the configuration
    review,         \* history: what happened since the last review by the operator
    incidents

exchanges == <<order, traded, stray>>
saved == <<runtime, path, file>>
config == <<route, enabled>>
vars == <<exchanges, cycle, saved, config, review, incidents>>

Legs == {"buy", "sell", "hedge"}
Sides == {"buy", "sell"}
Routes == [pair: Pairs, path: Paths]

NoOrder == [open |-> 0, filled |-> 0]
NoOrders == [leg \in Legs |-> NoOrder]

(* What a leg adds to the position.                                         *)
Signed(leg, amount) == IF leg = "buy" THEN amount ELSE -amount

FreshRuntime(pair) == [pair |-> pair, completed |-> 0, halted |-> FALSE, reason |-> "none",
                       residual |-> 0, acknowledged |-> FALSE]

Places == {"idle", "observe", "submit_buy", "withdraw_buy", "read_buy", "size_sell",
           "submit_sell", "withdraw_sell", "read_both", "hedge", "hedge_wait", "end"}

CycleOf(pc, local, quantity) ==
             [pc |-> pc, local |-> local, quantity |-> quantity,
              seen |-> [side \in Sides |-> 0], complete |-> TRUE, faults |-> {},
              attempt |-> 0, hedged |-> 0]

RuntimesOf(pairs) ==
    [pair: pairs, completed: 0..Target, halted: BOOLEAN,
     reason: {"none", "hedge_required", "other"},
     residual: -Slice..Slice, acknowledged: BOOLEAN]

Runtimes == RuntimesOf(Pairs)

Orders == [open: 0..Slice, filled: 0..Slice]

Faults == {"create", "cancel", "uncertain", "raised"}

Cycles == [pc: Places, local: Runtimes, quantity: 0..Slice, seen: [Sides -> 0..Slice],
           complete: BOOLEAN, faults: SUBSET Faults, attempt: 0..MaxAttempts,
           hedged: 0..MaxHedge]

(* The exposure that was added since the last review by fills which the     *)
(* executor could know of; the legs that were still open at that review;    *)
(* whether a crash or an edit took the outcome of a cycle from the task     *)
(* since then; and, since ever, the fills of hedges that the closed orders  *)
(* did not show.                                                            *)
Reviews == [exposure: Int, known: SUBSET Legs, lost: BOOLEAN, unseen: Nat]

TypeOK ==
    /\ order \in [Legs -> Orders]
    /\ traded \in [Legs -> Nat]
    /\ stray \in [Legs -> Nat]
    /\ cycle \in Cycles
    /\ runtime \in Runtimes
    /\ path \in Paths
    /\ file \in [Paths -> RuntimesOf(Pairs \cup {"none"})]
    /\ route \in Routes
    /\ enabled \in BOOLEAN
    /\ review \in Reviews
    /\ incidents \in 0..MaxIncidents

(* The runtime of a file that does not exist is of no pair.                 *)
Init ==
    /\ order = NoOrders
    /\ traded = [leg \in Legs |-> 0]
    /\ stray = [leg \in Legs |-> 0]
    /\ route \in Routes
    /\ cycle = CycleOf("idle", FreshRuntime(route.pair), 0)
    /\ runtime = FreshRuntime(route.pair)
    /\ path = route.path
    /\ file = [p \in Paths |-> FreshRuntime("none")]
    /\ enabled = TRUE
    /\ review = [exposure |-> 0, known |-> {}, lost |-> FALSE, unseen |-> 0]
    /\ incidents = 0

-----------------------------------------------------------------------------
(* The exchanges. *)

Fill(leg) ==
    /\ order[leg].open > 0
    /\ order' = [order EXCEPT ![leg] = [open |-> order[leg].open - 1,
                                         filled |-> order[leg].filled + 1]]
    /\ traded' = [traded EXCEPT ![leg] = @ + 1]
    /\ review' = IF leg \in review.known THEN review
                 ELSE [review EXCEPT !.exposure = @ + Signed(leg, 1)]
    /\ UNCHANGED <<stray, cycle, saved, config, incidents>>

(* An order that outlived its cycle: a crash, an edit or a review took it   *)
(* from the executor.                                                       *)
FillStray(leg) ==
    /\ stray[leg] > 0
    /\ stray' = [stray EXCEPT ![leg] = @ - 1]
    /\ traded' = [traded EXCEPT ![leg] = @ + 1]
    /\ UNCHANGED <<order, cycle, saved, config, review, incidents>>

OpensOrder(leg, amount) == order' = [order EXCEPT ![leg] = [open |-> amount, filled |-> 0]]
ClosesOrder(leg) == order' = [order EXCEPT ![leg] = [open |-> 0, filled |-> order[leg].filled]]

-----------------------------------------------------------------------------
(* The runtime of an iteration. *)

At(pc) == cycle.pc = pc
Trading == ~At("idle") /\ ~At("observe")
GoesTo(pc) == cycle' = [cycle EXCEPT !.pc = pc]
Environment == <<traded, stray, saved, config, review, incidents>>

Blocked(r) == r.halted \/ r.acknowledged

(* load_rebalance_runtime: the file of another pair is not used.            *)
Load == IF file[route.path].pair = route.pair THEN file[route.path]
        ELSE FreshRuntime(route.pair)

(* The loop reads a changed path, and starts afresh when what it has there, *)
(* or in hand, is of another pair.                                          *)
Own == IF route.path # path THEN file[route.path] ELSE cycle.local

(* What was published for the pair since then is newer.                     *)
Current == CASE Own.pair # route.pair -> FreshRuntime(route.pair)
             [] Own.pair = route.pair /\ runtime.pair = route.pair -> runtime
             [] OTHER -> Own

(* An iteration starts.  It publishes and saves its runtime when it ends.   *)
Iterate(pc, quantity) ==
    /\ At("idle")
    /\ cycle' = CycleOf(pc, Current, quantity)
    /\ path' = route.path
    /\ UNCHANGED <<traded, runtime, file, config, incidents>>

(* An edit takes a blocked runtime from the task.                           *)
Drops == Blocked(runtime) /\ route # [pair |-> runtime.pair, path |-> path]

-----------------------------------------------------------------------------
(* One live cycle. *)

(* Mutant: every cycle works towards the whole target. *)
RemainingWhole(local) == Target

Remaining(local) == Target - local.completed

(* Orders of an earlier cycle that are still open stay at the exchange.     *)
Begin ==
    /\ enabled /\ ~Blocked(Current) /\ Remaining(Current) > 0
    /\ LET quantity == Min({Slice, Remaining(Current)})
       IN  /\ traded["buy"] + stray["buy"] + order["buy"].open + quantity <= MaxBought
           /\ Iterate("submit_buy", quantity)
    /\ order' = NoOrders
    /\ stray' = [leg \in Legs |-> stray[leg] + order[leg].open]
    /\ review' = [review EXCEPT !.known = {}, !.lost = @ \/ Drops]

(* create_prepared_limit_order: answered; rejected, with a failed intent;   *)
(* or an exception that leaves the outcome open.                            *)
Submit(leg, amount, submitted, withdraw, read) ==
    /\ At(submitted)
    /\ \/ /\ OpensOrder(leg, amount)
          /\ GoesTo(withdraw)
       \/ /\ cycle' = [cycle EXCEPT !.pc = read, !.faults = @ \cup {"create"}]
          /\ UNCHANGED order
       \/ /\ cycle' = [cycle EXCEPT !.pc = read, !.faults = @ \cup {"create", "uncertain"}]
          /\ OpensOrder(leg, amount) \/ UNCHANGED order
    /\ UNCHANGED Environment

SubmitBuy == Submit("buy", cycle.quantity, "submit_buy", "withdraw_buy", "read_buy")

(* Mutant: the second leg has the planned size. *)
SubmitFullSell == Submit("sell", cycle.quantity, "submit_sell", "withdraw_sell", "read_both")

SubmitSell == Submit("sell", cycle.seen["buy"], "submit_sell", "withdraw_sell", "read_both")

(* The order is cancelled when its time is over.  Cancelling one that is    *)
(* filled succeeds or fails.                                                *)
Withdraw(leg, waiting, read) ==
    /\ At(waiting)
    /\ \/ ClosesOrder(leg) /\ GoesTo(read)
       \/ /\ cycle' = [cycle EXCEPT !.pc = read, !.faults = @ \cup {"cancel"}]
          /\ UNCHANGED order
    /\ UNCHANGED Environment

WithdrawBuy == Withdraw("buy", "withdraw_buy", "read_buy")
WithdrawSell == Withdraw("sell", "withdraw_sell", "read_both")

-----------------------------------------------------------------------------
(* Fill evidence. *)

Imbalance == cycle.seen["buy"] - cycle.seen["sell"] - cycle.hedged

(* What _execution_fill_status finds of an order that was answered: its     *)
(* fills if it can be read, and final ones if it is no longer open.         *)
Seen(leg, read) == IF read THEN order[leg].filled ELSE 0
Final(leg, read) == read /\ order[leg].open = 0

(* Where run_spot_arbitrage_execution_cycle goes on from a fill status.     *)
Settle(seen, complete) ==
    cycle' = [cycle EXCEPT !.seen = seen, !.complete = complete,
                           !.pc = IF /\ seen["buy"] # seen["sell"]
                                     /\ complete
                                     /\ "uncertain" \notin cycle.faults
                                  THEN "hedge" ELSE "end"]

OnlyBuy(amount) == [side \in Sides |-> IF side = "buy" THEN amount ELSE 0]

ReadBuy ==
    /\ At("read_buy")
    /\ \E read \in BOOLEAN :
           LET answered == "create" \notin cycle.faults
               seen == IF answered THEN Seen("buy", read) ELSE 0
               complete == IF answered THEN Final("buy", read)
                           ELSE "uncertain" \notin cycle.faults
           IN  IF complete /\ seen > 0
               THEN cycle' = [cycle EXCEPT !.pc = "size_sell", !.seen = OnlyBuy(seen)]
               ELSE cycle' = [cycle EXCEPT !.pc = "end", !.seen = OnlyBuy(seen),
                                           !.complete = complete]
    /\ UNCHANGED <<order, Environment>>

(* The sell is prepared for the quantity that was bought: it is valid, it   *)
(* is refused (the bought quantity is left to the hedge), or the exchange   *)
(* client raises.                                                           *)
SizeSell ==
    /\ At("size_sell")
    /\ \/ GoesTo("submit_sell")
       \/ cycle' = [cycle EXCEPT !.pc = "hedge", !.faults = @ \cup {"create"}]
       \/ cycle' = [cycle EXCEPT !.pc = "end", !.faults = @ \cup {"raised"}]
    /\ UNCHANGED <<order, Environment>>

(* Both legs are read again; of a sell without an answer nothing counts as  *)
(* sold.                                                                    *)
ReadBoth ==
    /\ At("read_both")
    /\ \E buyRead, sellRead \in BOOLEAN :
           LET answered == "create" \notin cycle.faults
           IN  Settle([side \in Sides |->
                          IF side = "buy" THEN Seen("buy", buyRead)
                          ELSE IF answered THEN Seen("sell", sellRead) ELSE 0],
                      Final("buy", buyRead) /\ (answered => Final("sell", sellRead)))
    /\ UNCHANGED <<order, Environment>>

-----------------------------------------------------------------------------
(* execute_emergency_hedge sells the imbalance on the venue of the buy.     *)

HedgeAmount == Min({Imbalance, MaxHedge - cycle.hedged})

(* Nothing left to do, the cap or the attempts are used up, or the book,    *)
(* the open orders or the risk check say no.                                *)
EndHedge ==
    /\ At("hedge")
    /\ GoesTo("end")
    /\ UNCHANGED <<order, Environment>>

(* An exception before the order is sent uses up the attempt; after it, the *)
(* hedge ends, whether or not the order was placed.                         *)
Hedge ==
    /\ At("hedge")
    /\ Imbalance > 0 /\ HedgeAmount > 0
    /\ cycle.attempt < MaxAttempts
    /\ \/ /\ OpensOrder("hedge", HedgeAmount)
          /\ cycle' = [cycle EXCEPT !.pc = "hedge_wait", !.attempt = @ + 1]
       \/ /\ cycle' = [cycle EXCEPT !.attempt = @ + 1]
          /\ UNCHANGED order
       \/ /\ OpensOrder("hedge", HedgeAmount) \/ UNCHANGED order
          /\ GoesTo("end")
    /\ UNCHANGED Environment

(* After its time the order is cancelled if it may still be open; its fill  *)
(* is then taken from the closed orders, and is nothing if these cannot be  *)
(* read or miss the order.  When the cancellation raises, the hedge ends.   *)
CountHedge ==
    /\ At("hedge_wait")
    /\ \/ /\ \E filled \in {0, order["hedge"].filled} :
                 LET lost == order["hedge"].filled - filled
                 IN  /\ cycle' = [cycle EXCEPT !.pc = "hedge", !.hedged = @ + filled]
                     /\ review' = [review EXCEPT !.exposure = @ + lost, !.unseen = @ + lost]
          /\ ClosesOrder("hedge")
       \/ /\ GoesTo("end")
          /\ UNCHANGED <<order, review>>
    /\ UNCHANGED <<traded, stray, saved, config, incidents>>

-----------------------------------------------------------------------------
(* What the loop makes of a cycle. *)

(* Mutant: progress does not wait for the legs to be balanced. *)
ProgressOfBuy == Min({cycle.seen["buy"], Remaining(cycle.local)})

Progress ==
    IF Imbalance = 0 THEN Min({cycle.seen["buy"], Remaining(cycle.local)}) ELSE 0

Repaired == cycle.hedged > 0 /\ Imbalance = 0

(* Mutant: an exception halts nothing. *)
HaltsOnStatusOnly ==
    /\ "raised" \notin cycle.faults
    /\ \/ Imbalance # 0
       \/ cycle.faults \cap {"cancel", "uncertain"} # {}
       \/ ~cycle.complete
       \/ HaltOnError /\ "create" \in cycle.faults /\ ~Repaired

(* manual_intervention_required, a hedge that is left, an execution error,  *)
(* or an exception while the hold on the market makers is active.           *)
Halts ==
    \/ Imbalance # 0 /\ "raised" \notin cycle.faults
    \/ cycle.faults \cap {"cancel", "uncertain"} # {} /\ "raised" \notin cycle.faults
    \/ ~cycle.complete
    \/ HaltOnError /\ "create" \in cycle.faults /\ ~Repaired
    \/ "raised" \in cycle.faults /\ Coordinated

(* apply_rebalance_cycle_to_runtime. *)
Applied(local) ==
    LET hedgeRequired == Imbalance # 0 /\ "raised" \notin cycle.faults
    IN  [pair |-> local.pair,
         completed |-> IF "raised" \in cycle.faults THEN local.completed
                       ELSE local.completed + Progress,
         halted |-> local.halted \/ Halts,
         reason |-> IF ~Halts THEN local.reason
                    ELSE IF hedgeRequired THEN "hedge_required" ELSE "other",
         residual |-> IF hedgeRequired THEN Imbalance ELSE local.residual,
         acknowledged |-> local.acknowledged /\ ~hedgeRequired]

Saves(new) ==
    /\ runtime' = new
    /\ file' = [file EXCEPT ![path] = new]
    /\ cycle' = CycleOf("idle", new, 0)
    /\ UNCHANGED <<exchanges, path, config, review, incidents>>

(* The loop saves what it read when the cycle began, with the outcome: what *)
(* the operator changed in the meantime is overwritten.                     *)
EndCycle == At("end") /\ Saves(Applied(cycle.local))

(* An iteration that does not trade, because a gate is closed or there is   *)
(* nothing to do, saves its runtime too.                                    *)
Observe ==
    /\ Iterate("observe", 0)
    /\ review' = [review EXCEPT !.lost = @ \/ Drops]
    /\ UNCHANGED <<order, stray>>

EndObserve == At("observe") /\ Saves(cycle.local)

(* The process stops at any point; a new one reads the file.                *)
Crash ==
    /\ incidents < MaxIncidents
    /\ cycle' = CycleOf("idle", Load, 0)
    /\ runtime' = Load
    /\ path' = route.path
    /\ review' = [review EXCEPT !.lost = @ \/ Trading \/ Drops]
    /\ incidents' = incidents + 1
    /\ UNCHANGED <<exchanges, file, config>>

-----------------------------------------------------------------------------
(* The operator, who sees the exposure and the orders that are open.        *)

OpenLegs == {leg \in Legs : order[leg].open > 0}

(* A review counts when no cycle is running that would overwrite it.        *)
Review ==
    review' = IF Trading THEN review
              ELSE [review EXCEPT !.exposure = 0, !.known = OpenLegs, !.lost = FALSE]

(* The handlers take the published runtime and save at the configured path. *)
Publishes(new) ==
    /\ runtime' = new
    /\ file' = [file EXCEPT ![route.path] = new]
    /\ Review
    /\ UNCHANGED <<exchanges, cycle, path, route, incidents>>

Acknowledge ==
    /\ runtime.halted /\ runtime.reason = "hedge_required" /\ runtime.residual # 0
    /\ Publishes([runtime EXCEPT !.halted = FALSE, !.reason = "none", !.acknowledged = TRUE])
    /\ UNCHANGED enabled

(* Mutant: a stop does not keep the residual exposure blocked. *)
StopForgets ==
    /\ Publishes([runtime EXCEPT !.halted = FALSE, !.reason = "none"])
    /\ enabled' = FALSE

StopAndRelease ==
    /\ Publishes([runtime EXCEPT !.halted = FALSE, !.reason = "none",
                                 !.acknowledged = runtime.residual # 0])
    /\ enabled' = FALSE

Reset ==
    /\ ~enabled
    /\ Publishes(FreshRuntime(route.pair))
    /\ UNCHANGED enabled

(* An update enables or disables the task and may change the pair and the   *)
(* path, also while a cycle runs or the task is halted.                     *)
Update ==
    /\ \E live \in BOOLEAN, new \in Routes :
           /\ live => ~runtime.acknowledged
           /\ incidents' = IF new = route THEN incidents ELSE incidents + 1
           /\ incidents' <= MaxIncidents
           /\ route' = new /\ enabled' = live
    /\ UNCHANGED <<exchanges, cycle, saved, review>>

-----------------------------------------------------------------------------
CycleStep ==
    \/ Begin \/ SubmitBuy \/ WithdrawBuy \/ ReadBuy \/ SizeSell
    \/ SubmitSell \/ WithdrawSell \/ ReadBoth
    \/ EndHedge \/ Hedge \/ CountHedge
    \/ EndCycle \/ Observe \/ EndObserve

OperatorStep == Acknowledge \/ StopAndRelease \/ Reset \/ Update

Next ==
    \/ CycleStep \/ Crash \/ OperatorStep
    \/ \E leg \in Legs : Fill(leg) \/ FillStray(leg)

Spec == Init /\ [][Next]_vars

-----------------------------------------------------------------------------
(* The task does not go on by itself with an exposure that nobody reviewed: *)
(* between two cycles, what was bought and neither sold nor hedged since    *)
(* the last review blocks the task.  Apart from the fills that no closed    *)
(* order showed, only a crash before the cycle was saved, and an edit of    *)
(* the pair or of the path, take the block away.                            *)
ExposureHalts ==
    At("idle") /\ ~review.lost => review.exposure = 0 \/ Blocked(runtime)

(* The progress that a runtime keeps was bought, and sold again on the      *)
(* other venue or, by a hedge, on the venue where it was bought, whatever   *)
(* the exchanges hid, the process lost or the operator overwrote.           *)
CompletedIsTraded ==
    /\ runtime.completed <= traded["buy"]
    /\ runtime.completed <= traded["sell"] + traded["hedge"]

(* The sell follows the confirmed buy and the hedge what is left of it: the *)
(* base asset is sold short by no more than the fills of hedges that the    *)
(* closed orders did not show.                                              *)
NeverShort == traded["sell"] + traded["hedge"] <= traded["buy"] + review.unseen

(* No live cycle works on a runtime with a residual exposure on record,     *)
(* whichever of the loop and the operator wrote it last; it takes a reset,  *)
(* or a runtime of another pair or path, to trade again.                    *)
ResidualBlocks == Trading => cycle.local.residual = 0

(* README.md: when the legs fill by different amounts or one of them fails, *)
(* the task advances no progress and remains halted.                        *)
UnequalLegsHalt ==
    [][EndCycle /\ cycle.seen["buy"] # cycle.seen["sell"]
       => runtime'.halted /\ runtime'.completed = cycle.local.completed]_vars
=============================================================================
