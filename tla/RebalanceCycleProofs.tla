------------------------ MODULE RebalanceCycleProofs ------------------------
(***************************************************************************)
(* Proofs about RebalanceCycle for every target, slice, cap and number of  *)
(* attempts.  The argument follows the orders of the running cycle: where  *)
(* the coroutine stands tells which of them may be open (OrdersOfCycle),   *)
(* and what they filled is what the cycle adds to the position, to the     *)
(* sales and to the progress (NotShort, ProgressTraded, ExposureKnown).    *)
(***************************************************************************)
EXTENDS RebalanceCycle, TLAPS

Buying == {"submit_buy", "withdraw_buy", "read_buy"}
Sizing == {"size_sell", "submit_sell"}
Selling == {"withdraw_sell", "read_both"}
Hedging == {"hedge", "hedge_wait"}
Working == Buying \cup Sizing \cup Selling \cup Hedging

(* What the cycle's orders leave bought and not sold.                       *)
Awaited == IF At("hedge_wait") THEN order["hedge"].filled ELSE 0
Outcome == order["buy"].filled - order["sell"].filled - cycle.hedged - Awaited

OrderBounds == \A leg \in Legs : order[leg].open + order[leg].filled <= Slice

(* Which orders the cycle has, place by place.                              *)
Fresh(leg) == order[leg].open = 0 /\ order[leg].filled = 0

OrdersOfCycle ==
    /\ At("submit_buy") => Fresh("buy") /\ cycle.faults = {}
    /\ cycle.pc \in Buying \cup Sizing => Fresh("sell")
    /\ cycle.pc \in Buying \cup Sizing \cup Selling =>
          /\ order["hedge"].open = 0
          /\ cycle.hedged = 0 /\ cycle.attempt = 0
    /\ At("withdraw_buy") => "create" \notin cycle.faults
    /\ At("read_buy") /\ "create" \in cycle.faults /\ "uncertain" \notin cycle.faults
          => Fresh("buy")
    /\ cycle.pc \in Sizing \cup {"withdraw_sell"} => "create" \notin cycle.faults
    /\ cycle.pc \in Sizing \cup Selling \cup Hedging => order["buy"].open = 0
    /\ cycle.pc \in Sizing \cup Hedging =>
          /\ cycle.seen["buy"] = order["buy"].filled
          /\ cycle.seen["sell"] = order["sell"].filled
    /\ cycle.pc \in Selling => order["sell"].open + order["sell"].filled <= order["buy"].filled
    /\ At("read_both") /\ "create" \in cycle.faults /\ "uncertain" \notin cycle.faults
          => Fresh("sell")
    /\ cycle.pc \in Hedging => order["sell"].open = 0 /\ Imbalance >= 0
    /\ At("hedge") => order["hedge"].open = 0
    /\ At("hedge_wait") =>
          /\ Imbalance > 0 /\ cycle.attempt > 0
          /\ order["hedge"].open + order["hedge"].filled <= Imbalance
          /\ order["hedge"].open + order["hedge"].filled <= MaxHedge - cycle.hedged
    /\ At("end") => -Slice <= Imbalance
    /\ cycle.pc \in Working => "raised" \notin cycle.faults /\ cycle.complete

(* What is sold or may still be is bought, but for what no closed order     *)
(* showed.                                                                  *)
Sold == traded["sell"] + traded["hedge"]
StraySales == stray["sell"] + stray["hedge"]

NotShort ==
    /\ Sold + StraySales + order["sell"].open + order["hedge"].open
          <= traded["buy"] + review.unseen
    /\ cycle.pc \in Working => Sold + StraySales + Outcome <= traded["buy"] + review.unseen

(* The progress that is kept, and that the cycle may add.                   *)
Within(completed) == completed <= traded["buy"] /\ completed <= Sold

ProgressTraded ==
    /\ Within(runtime.completed) /\ Within(cycle.local.completed)
    /\ \A p \in Paths : Within(file[p].completed)
    /\ cycle.pc \in Working =>
          /\ cycle.local.completed + order["buy"].filled <= traded["buy"]
          /\ cycle.local.completed + order["sell"].filled + cycle.hedged + Awaited <= Sold
    /\ At("end") =>
          /\ cycle.local.completed + cycle.seen["buy"] <= traded["buy"]
          /\ cycle.local.completed + cycle.seen["sell"] + cycle.hedged <= Sold

(* A residual exposure blocks the runtime that records it.                  *)
Recorded(r) == r.residual # 0 => Blocked(r)

ResidualKept ==
    /\ Recorded(runtime) /\ Recorded(cycle.local)
    /\ \A p \in Paths : Recorded(file[p])
    /\ ResidualBlocks

(* Unless the outcome of a cycle was lost, the exposure is the reviewed one *)
(* up to what the running cycle does and to what blocks the task.           *)
AsReviewed ==
    /\ review.exposure = 0
    /\ \A leg \in Legs : order[leg].open > 0 => leg \in review.known

(* The block is on the published runtime, on the one in hand and on file.   *)
StillBlocked ==
    /\ Blocked(runtime) /\ Blocked(cycle.local) /\ Blocked(file[path])
    /\ cycle.local.pair = runtime.pair /\ file[path].pair = runtime.pair

ExposureKnown ==
    Coordinated /\ ~review.lost =>
        /\ ~Trading => StillBlocked \/ AsReviewed
        /\ cycle.pc \in Working => review.known = {} /\ review.exposure = Outcome
        /\ At("end") => Halts \/ AsReviewed

IInv ==
    /\ TypeOK
    /\ OrderBounds
    /\ OrdersOfCycle
    /\ NotShort
    /\ ProgressTraded
    /\ ResidualKept
    /\ ExposureKnown

USE RebalanceAssumption

(* The exchanges fill an order of the cycle, or one that a cycle left.      *)
LEMMA FillKeeps == ASSUME IInv, NEW leg \in Legs, Fill(leg) PROVE IInv'
<1> USE DEF Legs, Sides, At
<1>1. /\ order[leg].open > 0 /\ order \in [Legs -> Orders] /\ traded \in [Legs -> Nat]
      /\ review \in Reviews
      /\ UNCHANGED <<stray, cycle, runtime, path, file, route, enabled, incidents>>
    BY DEF IInv, TypeOK, Fill, saved, config
<1>2. /\ order'[leg] = [open |-> order[leg].open - 1, filled |-> order[leg].filled + 1]
      /\ \A other \in Legs \ {leg} : order'[other] = order[other]
      /\ order' \in [Legs -> Orders]
  <2>1. [open |-> order[leg].open - 1, filled |-> order[leg].filled + 1] \in Orders
      BY <1>1 DEF IInv, OrderBounds, Orders
  <2>2. QED
      BY <1>1, <2>1 DEF Fill
<1>3. /\ traded'[leg] = traded[leg] + 1
      /\ \A other \in Legs \ {leg} : traded'[other] = traded[other]
      /\ traded' \in [Legs -> Nat]
    BY <1>1 DEF Fill
<1>4. /\ review' \in Reviews
      /\ review'.known = review.known /\ review'.lost = review.lost
      /\ review'.unseen = review.unseen
      /\ review'.exposure = IF leg \in review.known THEN review.exposure
                            ELSE review.exposure + Signed(leg, 1)
    BY <1>1 DEF Fill, Reviews, Signed
<1>5. TypeOK'
    BY <1>1, <1>2, <1>3, <1>4 DEF IInv, TypeOK
<1>6. OrderBounds'
    BY <1>1, <1>2 DEF IInv, OrderBounds, Orders
<1>7. OrdersOfCycle'
    BY <1>1, <1>2 DEF IInv, TypeOK, OrdersOfCycle, Fresh, Imbalance, Orders, Cycles, Buying, Sizing, Selling, Hedging, Working
<1>8. NotShort'
    BY <1>1, <1>2, <1>3, <1>4 DEF IInv, TypeOK, NotShort, Sold, StraySales, OrdersOfCycle, Imbalance,
       Outcome, Awaited, Orders, Cycles, Reviews, Buying, Sizing, Selling, Hedging, Working
<1>9. ProgressTraded'
    BY <1>1, <1>2, <1>3 DEF IInv, TypeOK, ProgressTraded, Within, Sold, OrdersOfCycle,
       Awaited, Orders, Cycles, Runtimes, RuntimesOf, Buying, Sizing, Selling, Hedging, Working
<1>10. ResidualKept'
    BY <1>1 DEF IInv, ResidualKept, Recorded, Blocked, ResidualBlocks, Trading
<1>11. ExposureKnown'
  <2>1. Halts' = Halts
      BY <1>1 DEF Halts, Imbalance, Repaired
  <2>2. StillBlocked' = StillBlocked /\ Trading' = Trading
      BY <1>1 DEF StillBlocked, Blocked, Trading
  <2>3. AsReviewed => AsReviewed' /\ leg \in review.known
      BY <1>1, <1>2, <1>4 DEF AsReviewed, Orders
  <2>4. cycle.pc \in Working \ {"hedge_wait"} => leg # "hedge"
      BY <1>1 DEF IInv, OrdersOfCycle, Buying, Sizing, Selling, Hedging, Working
  <2>5. cycle.pc \in Working /\ leg \notin review.known /\ review.exposure = Outcome
           => review'.exposure = Outcome'
      BY <1>1, <1>2, <1>4, <2>4 DEF IInv, TypeOK, Outcome, Awaited, Signed, Orders, Cycles,
         Buying, Sizing, Selling, Hedging, Working
  <2>6. QED
      BY <1>1, <1>4, <2>1, <2>2, <2>3, <2>5 DEF IInv, ExposureKnown
<1>12. QED
    BY <1>5, <1>6, <1>7, <1>8, <1>9, <1>10, <1>11 DEF IInv

LEMMA FillStrayKeeps == ASSUME IInv, NEW leg \in Legs, FillStray(leg) PROVE IInv'
<1> USE DEF Legs, Sides, At
<1>1. /\ stray[leg] > 0 /\ stray \in [Legs -> Nat] /\ traded \in [Legs -> Nat]
      /\ UNCHANGED <<order, cycle, runtime, path, file, route, enabled, review, incidents>>
    BY DEF IInv, TypeOK, FillStray, saved, config
<1>2. /\ stray'[leg] = stray[leg] - 1 /\ traded'[leg] = traded[leg] + 1
      /\ \A other \in Legs \ {leg} : /\ stray'[other] = stray[other]
                                      /\ traded'[other] = traded[other]
      /\ stray' \in [Legs -> Nat] /\ traded' \in [Legs -> Nat]
    BY <1>1 DEF FillStray
<1>3. TypeOK'
    BY <1>1, <1>2 DEF IInv, TypeOK
<1>4. OrderBounds' /\ OrdersOfCycle'
    BY <1>1 DEF IInv, OrderBounds, OrdersOfCycle, Fresh, Imbalance
<1>5. NotShort'
    BY <1>1, <1>2 DEF IInv, TypeOK, NotShort, Sold, StraySales, Imbalance, Outcome, Awaited, Orders,
       Cycles, Reviews
<1>6. ProgressTraded'
    BY <1>1, <1>2 DEF IInv, TypeOK, ProgressTraded, Within, Sold, Awaited, Orders, Cycles, Runtimes, RuntimesOf
<1>7. ResidualKept'
    BY <1>1 DEF IInv, ResidualKept, Recorded, Blocked, ResidualBlocks, Trading
<1>8. ExposureKnown'
    BY <1>1 DEF IInv, ExposureKnown, StillBlocked, AsReviewed, Blocked, Trading, Outcome, Awaited,
       Halts, Repaired, Imbalance
<1>9. QED
    BY <1>3, <1>4, <1>5, <1>6, <1>7, <1>8 DEF IInv

(* What a submission leaves in its leg and in the cycle.                    *)
LEMMA SubmitOutcome ==
    ASSUME TypeOK, NEW leg \in Legs, NEW amount \in 0..Slice, NEW submitted,
           NEW withdraw \in Places, NEW read \in Places,
           Submit(leg, amount, submitted, withdraw, read)
    PROVE  /\ cycle.pc = submitted
           /\ cycle' \in Cycles /\ order' \in [Legs -> Orders]
           /\ UNCHANGED Environment
           /\ \A other \in Legs \ {leg} : order'[other] = order[other]
           /\ cycle'.local = cycle.local /\ cycle'.seen = cycle.seen
           /\ cycle'.complete = cycle.complete /\ cycle'.attempt = cycle.attempt
           /\ cycle'.hedged = cycle.hedged
           /\ \/ /\ cycle'.pc = withdraw /\ cycle'.faults = cycle.faults
                 /\ order'[leg] = [open |-> amount, filled |-> 0]
              \/ /\ cycle'.pc = read /\ cycle'.faults = cycle.faults \cup {"create"}
                 /\ order'[leg] = order[leg]
              \/ /\ cycle'.pc = read /\ cycle'.faults = cycle.faults \cup {"create", "uncertain"}
                 /\ order'[leg] \in {order[leg], [open |-> amount, filled |-> 0]}
<1>1. [open |-> amount, filled |-> 0] \in Orders
    BY DEF Orders
<1>2. OpensOrder(leg, amount) =>
          /\ order' \in [Legs -> Orders]
          /\ \A other \in Legs \ {leg} : order'[other] = order[other]
          /\ order'[leg] = [open |-> amount, filled |-> 0]
    BY <1>1 DEF OpensOrder, TypeOK
<1>3. cycle \in Cycles /\ order \in [Legs -> Orders] /\ cycle.pc = submitted
      /\ UNCHANGED Environment
    BY DEF TypeOK, Submit, At
<1>4. CASE OpensOrder(leg, amount) /\ GoesTo(withdraw)
    BY <1>2, <1>3, <1>4 DEF GoesTo, Cycles
<1>5. CASE UNCHANGED order /\ cycle' = [cycle EXCEPT !.pc = read, !.faults = @ \cup {"create"}]
    BY <1>3, <1>5 DEF Cycles, Faults
<1>6. CASE /\ cycle' = [cycle EXCEPT !.pc = read, !.faults = @ \cup {"create", "uncertain"}]
           /\ OpensOrder(leg, amount) \/ UNCHANGED order
    BY <1>2, <1>3, <1>6 DEF Cycles, Faults
<1>7. QED
    BY <1>4, <1>5, <1>6 DEF Submit

LEMMA SubmitBuyKeeps == ASSUME IInv, SubmitBuy PROVE IInv'
<1> USE DEF Legs, Sides, At, Environment, saved, config
<1>1. cycle.quantity \in 0..Slice
    BY DEF IInv, TypeOK, Cycles
<1>2. cycle' \in Cycles /\ order' \in [Legs -> Orders]
      /\ cycle.pc = "submit_buy" /\ UNCHANGED Environment
      /\ order'["sell"] = order["sell"] /\ order'["hedge"] = order["hedge"]
      /\ cycle'.local = cycle.local /\ cycle'.seen = cycle.seen
      /\ cycle'.complete = cycle.complete /\ cycle'.attempt = cycle.attempt
      /\ cycle'.hedged = cycle.hedged
      /\ \/ /\ cycle'.pc = "withdraw_buy" /\ cycle'.faults = cycle.faults
            /\ order'["buy"] = [open |-> cycle.quantity, filled |-> 0]
         \/ /\ cycle'.pc = "read_buy" /\ cycle'.faults = cycle.faults \cup {"create"}
            /\ order'["buy"] = order["buy"]
         \/ /\ cycle'.pc = "read_buy" /\ cycle'.faults = cycle.faults \cup {"create", "uncertain"}
            /\ order'["buy"] \in {order["buy"], [open |-> cycle.quantity, filled |-> 0]}
  <2>1. Submit("buy", cycle.quantity, "submit_buy", "withdraw_buy", "read_buy") /\ TypeOK
      BY DEF SubmitBuy, IInv
  <2>2. "buy" \in Legs /\ "withdraw_buy" \in Places /\ "read_buy" \in Places
      BY DEF Places
  <2>3. QED
      BY <1>1, <2>1, <2>2, SubmitOutcome, ZenonT(40)
<1>3. TypeOK'
    BY <1>1, <1>2 DEF IInv, TypeOK
<1>4. OrderBounds'
    BY <1>1, <1>2 DEF IInv, TypeOK, OrderBounds, Orders
<1>5. OrdersOfCycle'
    BY <1>1, <1>2, <1>3 DEF IInv, TypeOK, OrdersOfCycle, Fresh, Imbalance, Orders, Cycles, Buying, Sizing, Selling, Hedging, Working
<1>6. NotShort'
    BY <1>1, <1>2 DEF IInv, TypeOK, NotShort, Sold, StraySales, OrdersOfCycle, Fresh, Imbalance, Outcome,
       Awaited, Orders, Cycles, Reviews, Buying, Sizing, Selling, Hedging, Working
<1>7. ProgressTraded'
    BY <1>1, <1>2 DEF IInv, TypeOK, ProgressTraded, Within, Sold, OrdersOfCycle, Fresh, Imbalance,
       Awaited, Orders, Cycles, Runtimes, RuntimesOf, Buying, Sizing, Selling, Hedging, Working
<1>8. ResidualKept'
    BY <1>1, <1>2 DEF IInv, ResidualKept, Recorded, Blocked, ResidualBlocks, Trading
<1>9. ExposureKnown'
    BY <1>1, <1>2, <1>3 DEF IInv, TypeOK, ExposureKnown, StillBlocked, AsReviewed, Trading, OrdersOfCycle,
       Fresh, Halts, Repaired, Imbalance, Outcome, Awaited, Orders, Cycles, Reviews,
       Buying, Sizing, Selling, Hedging, Working
<1>10. QED
    BY <1>3, <1>4, <1>5, <1>6, <1>7, <1>8, <1>9 DEF IInv

LEMMA SubmitSellKeeps == ASSUME IInv, SubmitSell PROVE IInv'
<1> USE DEF Legs, Sides, At, Environment, saved, config
<1>1. cycle.seen["buy"] \in 0..Slice
    BY DEF IInv, TypeOK, Cycles
<1>2. cycle' \in Cycles /\ order' \in [Legs -> Orders]
      /\ cycle.pc = "submit_sell" /\ UNCHANGED Environment
      /\ order'["buy"] = order["buy"] /\ order'["hedge"] = order["hedge"]
      /\ cycle'.local = cycle.local /\ cycle'.seen = cycle.seen
      /\ cycle'.complete = cycle.complete /\ cycle'.attempt = cycle.attempt
      /\ cycle'.hedged = cycle.hedged
      /\ \/ /\ cycle'.pc = "withdraw_sell" /\ cycle'.faults = cycle.faults
            /\ order'["sell"] = [open |-> cycle.seen["buy"], filled |-> 0]
         \/ /\ cycle'.pc = "read_both" /\ cycle'.faults = cycle.faults \cup {"create"}
            /\ order'["sell"] = order["sell"]
         \/ /\ cycle'.pc = "read_both" /\ cycle'.faults = cycle.faults \cup {"create", "uncertain"}
            /\ order'["sell"] \in {order["sell"], [open |-> cycle.seen["buy"], filled |-> 0]}
  <2>1. Submit("sell", cycle.seen["buy"], "submit_sell", "withdraw_sell", "read_both") /\ TypeOK
      BY DEF SubmitSell, IInv
  <2>2. "sell" \in Legs /\ "withdraw_sell" \in Places /\ "read_both" \in Places
      BY DEF Places
  <2>3. QED
      BY <1>1, <2>1, <2>2, SubmitOutcome, ZenonT(40)
<1>3. TypeOK'
    BY <1>1, <1>2 DEF IInv, TypeOK
<1>4. OrderBounds'
    BY <1>1, <1>2 DEF IInv, TypeOK, OrderBounds, Orders
<1>5. OrdersOfCycle'
    BY <1>1, <1>2, <1>3 DEF IInv, TypeOK, OrdersOfCycle, Fresh, Imbalance, Orders, Cycles, Buying, Sizing, Selling, Hedging, Working
<1>6. NotShort'
    BY <1>1, <1>2 DEF IInv, TypeOK, NotShort, Sold, StraySales, OrdersOfCycle, Fresh, Imbalance, Outcome,
       Awaited, Orders, Cycles, Reviews, Buying, Sizing, Selling, Hedging, Working
<1>7. ProgressTraded'
    BY <1>1, <1>2 DEF IInv, TypeOK, ProgressTraded, Within, Sold, OrdersOfCycle, Fresh, Imbalance,
       Awaited, Orders, Cycles, Runtimes, RuntimesOf, Buying, Sizing, Selling, Hedging, Working
<1>8. ResidualKept'
    BY <1>1, <1>2 DEF IInv, ResidualKept, Recorded, Blocked, ResidualBlocks, Trading
<1>9. ExposureKnown'
    BY <1>1, <1>2, <1>3 DEF IInv, TypeOK, ExposureKnown, StillBlocked, AsReviewed, Trading, OrdersOfCycle,
       Fresh, Halts, Repaired, Imbalance, Outcome, Awaited, Orders, Cycles, Reviews,
       Buying, Sizing, Selling, Hedging, Working
<1>10. QED
    BY <1>3, <1>4, <1>5, <1>6, <1>7, <1>8, <1>9 DEF IInv

LEMMA WithdrawBuyKeeps == ASSUME IInv, WithdrawBuy PROVE IInv'
<1> USE DEF Legs, Sides, At, Environment, saved, config
<1>1. /\ cycle \in Cycles /\ order \in [Legs -> Orders]
      /\ [open |-> 0, filled |-> order["buy"].filled] \in Orders
    BY DEF IInv, TypeOK, Orders
<1>2. cycle' \in Cycles /\ order' \in [Legs -> Orders]
      /\ cycle.pc = "withdraw_buy" /\ cycle'.pc = "read_buy" /\ UNCHANGED Environment
      /\ order'["sell"] = order["sell"] /\ order'["hedge"] = order["hedge"]
      /\ cycle'.local = cycle.local /\ cycle'.seen = cycle.seen
      /\ cycle'.complete = cycle.complete /\ cycle'.attempt = cycle.attempt
      /\ cycle'.hedged = cycle.hedged
      /\ \/ /\ cycle'.faults = cycle.faults
            /\ order'["buy"] = [open |-> 0, filled |-> order["buy"].filled]
         \/ /\ cycle'.faults = cycle.faults \cup {"cancel"}
            /\ order'["buy"] = order["buy"]
  <2>1. CASE ClosesOrder("buy") /\ GoesTo("read_buy")
      BY <1>1, <2>1 DEF WithdrawBuy, Withdraw, ClosesOrder, GoesTo, Cycles, Places
  <2>2. CASE /\ cycle' = [cycle EXCEPT !.pc = "read_buy", !.faults = @ \cup {"cancel"}]
             /\ UNCHANGED order
      BY <1>1, <2>2 DEF WithdrawBuy, Withdraw, Cycles, Places, Faults
  <2>3. QED
      BY <2>1, <2>2 DEF WithdrawBuy, Withdraw
<1>3. TypeOK'
    BY <1>1, <1>2 DEF IInv, TypeOK
<1>4. OrderBounds'
    BY <1>1, <1>2 DEF IInv, TypeOK, OrderBounds, Orders
<1>5. OrdersOfCycle'
    BY <1>1, <1>2, <1>3 DEF IInv, TypeOK, OrdersOfCycle, Fresh, Imbalance, Orders, Cycles, Buying, Sizing, Selling, Hedging, Working
<1>6. NotShort'
    BY <1>1, <1>2 DEF IInv, TypeOK, NotShort, Sold, StraySales, OrdersOfCycle, Fresh, Imbalance, Outcome,
       Awaited, Orders, Cycles, Reviews, Buying, Sizing, Selling, Hedging, Working
<1>7. ProgressTraded'
    BY <1>1, <1>2 DEF IInv, TypeOK, ProgressTraded, Within, Sold, OrdersOfCycle, Fresh, Imbalance,
       Awaited, Orders, Cycles, Runtimes, RuntimesOf, Buying, Sizing, Selling, Hedging, Working
<1>8. ResidualKept'
    BY <1>1, <1>2 DEF IInv, ResidualKept, Recorded, Blocked, ResidualBlocks, Trading
<1>9. ExposureKnown'
    BY <1>1, <1>2, <1>3 DEF IInv, TypeOK, ExposureKnown, StillBlocked, AsReviewed, Trading, OrdersOfCycle,
       Fresh, Halts, Repaired, Imbalance, Outcome, Awaited, Orders, Cycles, Reviews,
       Buying, Sizing, Selling, Hedging, Working
<1>10. QED
    BY <1>3, <1>4, <1>5, <1>6, <1>7, <1>8, <1>9 DEF IInv

LEMMA WithdrawSellKeeps == ASSUME IInv, WithdrawSell PROVE IInv'
<1> USE DEF Legs, Sides, At, Environment, saved, config
<1>1. /\ cycle \in Cycles /\ order \in [Legs -> Orders]
      /\ [open |-> 0, filled |-> order["sell"].filled] \in Orders
    BY DEF IInv, TypeOK, Orders
<1>2. cycle' \in Cycles /\ order' \in [Legs -> Orders]
      /\ cycle.pc = "withdraw_sell" /\ cycle'.pc = "read_both" /\ UNCHANGED Environment
      /\ order'["buy"] = order["buy"] /\ order'["hedge"] = order["hedge"]
      /\ cycle'.local = cycle.local /\ cycle'.seen = cycle.seen
      /\ cycle'.complete = cycle.complete /\ cycle'.attempt = cycle.attempt
      /\ cycle'.hedged = cycle.hedged
      /\ \/ /\ cycle'.faults = cycle.faults
            /\ order'["sell"] = [open |-> 0, filled |-> order["sell"].filled]
         \/ /\ cycle'.faults = cycle.faults \cup {"cancel"}
            /\ order'["sell"] = order["sell"]
  <2>1. CASE ClosesOrder("sell") /\ GoesTo("read_both")
      BY <1>1, <2>1 DEF WithdrawSell, Withdraw, ClosesOrder, GoesTo, Cycles, Places
  <2>2. CASE /\ cycle' = [cycle EXCEPT !.pc = "read_both", !.faults = @ \cup {"cancel"}]
             /\ UNCHANGED order
      BY <1>1, <2>2 DEF WithdrawSell, Withdraw, Cycles, Places, Faults
  <2>3. QED
      BY <2>1, <2>2 DEF WithdrawSell, Withdraw
<1>3. TypeOK'
    BY <1>1, <1>2 DEF IInv, TypeOK
<1>4. OrderBounds'
    BY <1>1, <1>2 DEF IInv, TypeOK, OrderBounds, Orders
<1>5. OrdersOfCycle'
    BY <1>1, <1>2, <1>3 DEF IInv, TypeOK, OrdersOfCycle, Fresh, Imbalance, Orders, Cycles, Buying, Sizing, Selling, Hedging, Working
<1>6. NotShort'
    BY <1>1, <1>2 DEF IInv, TypeOK, NotShort, Sold, StraySales, OrdersOfCycle, Fresh, Imbalance, Outcome,
       Awaited, Orders, Cycles, Reviews, Buying, Sizing, Selling, Hedging, Working
<1>7. ProgressTraded'
    BY <1>1, <1>2 DEF IInv, TypeOK, ProgressTraded, Within, Sold, OrdersOfCycle, Fresh, Imbalance,
       Awaited, Orders, Cycles, Runtimes, RuntimesOf, Buying, Sizing, Selling, Hedging, Working
<1>8. ResidualKept'
    BY <1>1, <1>2 DEF IInv, ResidualKept, Recorded, Blocked, ResidualBlocks, Trading
<1>9. ExposureKnown'
    BY <1>1, <1>2, <1>3 DEF IInv, TypeOK, ExposureKnown, StillBlocked, AsReviewed, Trading, OrdersOfCycle,
       Fresh, Halts, Repaired, Imbalance, Outcome, Awaited, Orders, Cycles, Reviews,
       Buying, Sizing, Selling, Hedging, Working
<1>10. QED
    BY <1>3, <1>4, <1>5, <1>6, <1>7, <1>8, <1>9 DEF IInv

(* What an iteration and a restart start from is of its type, on the books  *)
(* and blocked by its residual.                                             *)
LEMMA FreshTyped ==
    ASSUME NEW pair, NEW pairs, pair \in pairs
    PROVE  /\ FreshRuntime(pair) \in RuntimesOf(pairs)
           /\ FreshRuntime(pair).completed = 0 /\ FreshRuntime(pair).residual = 0
           /\ FreshRuntime(pair).pair = pair
BY DEF FreshRuntime, RuntimesOf

LEMMA CycleTyped ==
    ASSUME NEW pc \in Places, NEW local \in Runtimes, NEW quantity \in 0..Slice
    PROVE  /\ CycleOf(pc, local, quantity) \in Cycles
           /\ CycleOf(pc, local, quantity).pc = pc
           /\ CycleOf(pc, local, quantity).local = local
           /\ CycleOf(pc, local, quantity).seen["buy"] = 0
           /\ CycleOf(pc, local, quantity).seen["sell"] = 0
           /\ CycleOf(pc, local, quantity).complete
           /\ CycleOf(pc, local, quantity).faults = {}
           /\ CycleOf(pc, local, quantity).attempt = 0
           /\ CycleOf(pc, local, quantity).hedged = 0
<1>1. [side \in Sides |-> 0] \in [Sides -> 0..Slice]
    OBVIOUS
<1>2. QED
    BY <1>1 DEF CycleOf, Cycles, Faults, Sides

LEMMA NoOrdersTyped ==
    /\ NoOrders \in [Legs -> Orders]
    /\ \A leg \in Legs : NoOrders[leg].open = 0 /\ NoOrders[leg].filled = 0
BY DEF NoOrders, NoOrder, Orders

LEMMA LoadKeeps ==
    ASSUME IInv
    PROVE  /\ Load \in Runtimes /\ Within(Load.completed) /\ Recorded(Load)
           /\ route = [pair |-> runtime.pair, path |-> path] /\ StillBlocked => Blocked(Load)
<1>1. /\ route.path \in Paths /\ route.pair \in Pairs
      /\ file[route.path] \in RuntimesOf(Pairs \cup {"none"})
      /\ traded \in [Legs -> Nat] /\ runtime \in Runtimes
    BY DEF IInv, TypeOK, Routes
<1>2. CASE file[route.path].pair = route.pair
  <2>1. Load = file[route.path]
      BY <1>2 DEF Load
  <2>2. Load \in Runtimes
      BY <1>1, <1>2, <2>1 DEF Runtimes, RuntimesOf
  <2>3. QED
      BY <1>1, <2>1, <2>2 DEF IInv, ProgressTraded, ResidualKept, StillBlocked, Routes
<1>3. CASE file[route.path].pair # route.pair
  <2>1. Load = FreshRuntime(route.pair)
      BY <1>3 DEF Load
  <2>2. /\ Load \in Runtimes /\ Load.completed = 0 /\ Load.residual = 0
      BY <1>1, <2>1, FreshTyped DEF Runtimes
  <2>3. route = [pair |-> runtime.pair, path |-> path] /\ StillBlocked => FALSE
      BY <1>3 DEF StillBlocked
  <2>4. QED
      BY <1>1, <2>2, <2>3 DEF Within, Sold, Recorded, Legs
<1>4. QED
    BY <1>2, <1>3

LEMMA CurrentKeeps ==
    ASSUME IInv, At("idle")
    PROVE  /\ Current \in Runtimes /\ Within(Current.completed) /\ Recorded(Current)
           /\ ~Drops /\ StillBlocked
                 => route.path = path /\ Current = runtime /\ Blocked(Current)
<1>1. /\ route.path \in Paths /\ route.pair \in Pairs
      /\ file[route.path] \in RuntimesOf(Pairs \cup {"none"})
      /\ traded \in [Legs -> Nat] /\ runtime \in Runtimes /\ cycle.local \in Runtimes
      /\ route \in Routes
    BY DEF IInv, TypeOK, Routes, Cycles
<1>2. Own \in RuntimesOf(Pairs \cup {"none"}) /\ Within(Own.completed) /\ Recorded(Own)
  <2>1. cycle.local \in RuntimesOf(Pairs \cup {"none"})
      BY <1>1 DEF Runtimes, RuntimesOf
  <2>2. QED
      BY <1>1, <2>1 DEF IInv, ProgressTraded, ResidualKept, Own
<1>3. CASE Own.pair # route.pair
  <2>1. Current = FreshRuntime(route.pair)
      BY <1>3 DEF Current
  <2>2. /\ Current \in Runtimes /\ Current.completed = 0 /\ Current.residual = 0
      BY <1>1, <2>1, FreshTyped DEF Runtimes
  <2>3. ~Drops /\ StillBlocked => FALSE
      BY <1>3 DEF StillBlocked, Drops, Own
  <2>4. QED
      BY <1>1, <2>2, <2>3 DEF Within, Sold, Recorded, Legs
<1>4. CASE Own.pair = route.pair /\ runtime.pair = route.pair
  <2>1. Current = runtime
      BY <1>4 DEF Current
  <2>2. ~Drops /\ StillBlocked => route.path = path
      BY DEF Drops, StillBlocked
  <2>3. QED
      BY <1>1, <2>1, <2>2 DEF IInv, ProgressTraded, ResidualKept, StillBlocked
<1>5. CASE Own.pair = route.pair /\ runtime.pair # route.pair
  <2>1. Current = Own
      BY <1>5 DEF Current
  <2>2. Current \in Runtimes
      BY <1>1, <1>2, <1>5, <2>1 DEF Runtimes, RuntimesOf
  <2>3. ~Drops /\ StillBlocked => FALSE
      BY <1>5 DEF Drops, StillBlocked
  <2>4. QED
      BY <1>2, <2>1, <2>2, <2>3
<1>6. QED
    BY <1>3, <1>4, <1>5

(* The smaller of two numbers.                                              *)
LEMMA SmallerOfTwo ==
    ASSUME NEW i \in Int, NEW j \in Int
    PROVE  Min({i, j}) \in {i, j} /\ Min({i, j}) <= i /\ Min({i, j}) <= j
<1> DEFINE Smallest(k) == k \in {i, j} /\ \A l \in {i, j} : k <= l
<1>1. \E k : Smallest(k)
  <2>1. CASE i <= j
      BY <2>1
  <2>2. CASE ~(i <= j)
      BY <2>2
  <2>3. QED
      BY <2>1, <2>2
<1> HIDE DEF Smallest
<1>2. Smallest(CHOOSE k : Smallest(k))
    BY <1>1
<1>3. Min({i, j}) = CHOOSE k \in {i, j} : \A l \in {i, j} : k <= l
    BY DEF Min
<1>4. QED
    BY <1>2, <1>3 DEF Smallest

LEMMA BeginKeeps == ASSUME IInv, Begin PROVE IInv'
<1> USE DEF Legs, Sides, At, saved, config
<1> DEFINE quantity == Min({Slice, Remaining(Current)})
<1>1. /\ At("idle") /\ ~Blocked(Current) /\ quantity \in 0..Slice
      /\ Current \in Runtimes /\ Within(Current.completed) /\ Recorded(Current)
      /\ ~Drops /\ StillBlocked => FALSE
      /\ order \in [Legs -> Orders] /\ stray \in [Legs -> Nat] /\ traded \in [Legs -> Nat]
      /\ review \in Reviews /\ route.path \in Paths
  <2>1. At("idle") /\ ~Blocked(Current)
      BY DEF Begin, Iterate
  <2>2. Current \in Runtimes /\ Remaining(Current) \in Nat
    <3>1. Current \in Runtimes
        BY <2>1, CurrentKeeps
    <3>2. QED
        BY <3>1 DEF Runtimes, RuntimesOf, Remaining, Begin
  <2>3. quantity \in 0..Slice
    <3>1. Slice \in Int /\ Remaining(Current) \in Int
        BY <2>2
    <3>2. quantity \in {Slice, Remaining(Current)} /\ quantity <= Slice
        BY <3>1, SmallerOfTwo, Zenon
    <3>3. QED
        BY <2>2, <3>2
  <2>4. QED
      BY <2>1, <2>2, <2>3, CurrentKeeps DEF IInv, TypeOK, Routes
<1> HIDE DEF quantity
<1>2. /\ cycle' \in Cycles /\ order' \in [Legs -> Orders] /\ stray' \in [Legs -> Nat]
      /\ cycle.pc = "idle"
      /\ cycle'.pc = "submit_buy" /\ cycle'.local = Current
      /\ cycle'.seen["buy"] = 0 /\ cycle'.seen["sell"] = 0
      /\ cycle'.complete /\ cycle'.faults = {} /\ cycle'.attempt = 0 /\ cycle'.hedged = 0
      /\ \A leg \in Legs : order'[leg].open = 0 /\ order'[leg].filled = 0
      /\ \A leg \in Legs : stray'[leg] = stray[leg] + order[leg].open
      /\ review' \in Reviews /\ review'.exposure = review.exposure /\ review'.known = {}
      /\ review'.unseen = review.unseen /\ review'.lost = (review.lost \/ Drops)
      /\ path' \in Paths
      /\ UNCHANGED <<traded, runtime, file, route, enabled, incidents>>
  <2>1. cycle' = CycleOf("submit_buy", Current, quantity) /\ "submit_buy" \in Places
      BY DEF Begin, Iterate, quantity, Places
  <2>2. /\ cycle' \in Cycles
        /\ cycle'.pc = "submit_buy" /\ cycle'.local = Current
        /\ cycle'.seen["buy"] = 0 /\ cycle'.seen["sell"] = 0
        /\ cycle'.complete /\ cycle'.faults = {} /\ cycle'.attempt = 0 /\ cycle'.hedged = 0
      BY <1>1, <2>1, CycleTyped
  <2>3. /\ order' \in [Legs -> Orders]
        /\ \A leg \in Legs : order'[leg].open = 0 /\ order'[leg].filled = 0
      BY NoOrdersTyped DEF Begin
  <2>4. /\ stray' \in [Legs -> Nat]
        /\ \A leg \in Legs : stray'[leg] = stray[leg] + order[leg].open
      BY <1>1 DEF Begin, Orders
  <2>5. /\ review' \in Reviews /\ review'.exposure = review.exposure /\ review'.known = {}
        /\ review'.unseen = review.unseen /\ review'.lost = (review.lost \/ Drops)
    <3>1. Drops \in BOOLEAN
        BY <1>1 DEF IInv, TypeOK, Drops, Blocked, Runtimes, RuntimesOf
    <3>2. QED
        BY <1>1, <3>1 DEF Begin, Reviews
  <2>6. QED
      BY <1>1, <2>2, <2>3, <2>4, <2>5 DEF Begin, Iterate
<1>3. TypeOK'
    BY <1>1, <1>2 DEF IInv, TypeOK
<1>4. OrderBounds'
    BY <1>1, <1>2 DEF IInv, TypeOK, OrderBounds, Orders
<1>5. OrdersOfCycle'
    BY <1>1, <1>2, <1>3 DEF IInv, TypeOK, OrdersOfCycle, Fresh, Imbalance, Orders, Cycles, Buying, Sizing, Selling, Hedging, Working
<1>6. NotShort'
    BY <1>1, <1>2 DEF IInv, TypeOK, NotShort, Sold, StraySales, OrdersOfCycle, Fresh, Imbalance, Outcome,
       Awaited, Orders, Cycles, Reviews, Buying, Sizing, Selling, Hedging, Working
<1>7. ProgressTraded'
    BY <1>1, <1>2 DEF IInv, TypeOK, ProgressTraded, Within, Sold, OrdersOfCycle, Fresh, Imbalance,
       Awaited, Orders, Cycles, Runtimes, RuntimesOf, Buying, Sizing, Selling, Hedging, Working
<1>8. ResidualKept'
    BY <1>1, <1>2 DEF IInv, ResidualKept, Recorded, Blocked, ResidualBlocks, Trading
<1>9. ExposureKnown'
  <2>1. SUFFICES ASSUME Coordinated, ~review.lost, ~Drops
                 PROVE  review'.exposure = Outcome'
      BY <1>2 DEF ExposureKnown, Trading, Buying, Sizing, Selling, Hedging, Working
  <2>2. review.exposure = 0
      BY <1>1, <1>2, <2>1 DEF IInv, ExposureKnown, AsReviewed, Trading
  <2>3. QED
      BY <1>2, <2>2 DEF Outcome, Awaited
<1>10. QED
    BY <1>3, <1>4, <1>5, <1>6, <1>7, <1>8, <1>9 DEF IInv

LEMMA ReadBuyKeeps == ASSUME IInv, ReadBuy PROVE IInv'
<1> USE DEF Legs, Sides, At, Environment, saved, config
<1>1. cycle \in Cycles /\ order \in [Legs -> Orders]
    BY DEF IInv, TypeOK
<1>2. /\ cycle' \in Cycles /\ UNCHANGED <<order, Environment>>
      /\ cycle.pc = "read_buy" /\ cycle'.local = cycle.local /\ cycle'.faults = cycle.faults
      /\ cycle'.attempt = cycle.attempt /\ cycle'.hedged = cycle.hedged
      /\ cycle'.seen["sell"] = 0 /\ cycle'.seen["buy"] \in {0, order["buy"].filled}
      /\ \/ /\ cycle'.pc = "size_sell" /\ cycle'.complete = cycle.complete
            /\ cycle'.seen["buy"] = order["buy"].filled
            /\ order["buy"].open = 0 /\ "create" \notin cycle.faults
         \/ /\ cycle'.pc = "end"
            /\ \/ ~cycle'.complete
               \/ /\ cycle'.seen["buy"] = 0
                  /\ \/ "create" \in cycle.faults /\ "uncertain" \notin cycle.faults
                     \/ order["buy"].open = 0 /\ order["buy"].filled = 0
  <2>1. PICK read \in BOOLEAN :
           LET answered == "create" \notin cycle.faults
               seen == IF answered THEN Seen("buy", read) ELSE 0
               complete == IF answered THEN Final("buy", read)
                           ELSE "uncertain" \notin cycle.faults
           IN  IF complete /\ seen > 0
               THEN cycle' = [cycle EXCEPT !.pc = "size_sell", !.seen = OnlyBuy(seen)]
               ELSE cycle' = [cycle EXCEPT !.pc = "end", !.seen = OnlyBuy(seen),
                                           !.complete = complete]
      BY DEF ReadBuy
  <2> DEFINE answered == "create" \notin cycle.faults
             seen == IF answered THEN Seen("buy", read) ELSE 0
             complete == IF answered THEN Final("buy", read)
                         ELSE "uncertain" \notin cycle.faults
  <2>2. seen \in {0, order["buy"].filled} /\ seen \in 0..Slice /\ complete \in BOOLEAN
    <3>1. order["buy"].filled \in 0..Slice
        BY <1>1 DEF Orders
    <3>2. seen \in {0, order["buy"].filled}
        BY DEF Seen
    <3>3. complete \in BOOLEAN
        BY DEF Final
    <3>4. QED
        BY <3>1, <3>2, <3>3
  <2>3. /\ OnlyBuy(seen) \in [Sides -> 0..Slice]
        /\ OnlyBuy(seen)["buy"] = seen /\ OnlyBuy(seen)["sell"] = 0
      BY <2>2 DEF OnlyBuy
  <2>4. complete => \/ "create" \in cycle.faults /\ "uncertain" \notin cycle.faults /\ seen = 0
                    \/ /\ "create" \notin cycle.faults
                       /\ order["buy"].open = 0 /\ seen = order["buy"].filled
      BY DEF Seen, Final
  <2>5. IF complete /\ seen > 0
        THEN cycle' = [cycle EXCEPT !.pc = "size_sell", !.seen = OnlyBuy(seen)]
        ELSE cycle' = [cycle EXCEPT !.pc = "end", !.seen = OnlyBuy(seen),
                                    !.complete = complete]
      BY <2>1
  <2> HIDE DEF seen, complete, answered
  <2>6. /\ cycle.pc = "read_buy" /\ UNCHANGED <<order, Environment>>
        /\ cycle' \in Cycles /\ cycle'.local = cycle.local /\ cycle'.faults = cycle.faults
        /\ cycle'.attempt = cycle.attempt /\ cycle'.hedged = cycle.hedged
        /\ cycle'.seen = OnlyBuy(seen)
    <3>1. CASE complete /\ seen > 0
      <4>1. cycle' = [cycle EXCEPT !.pc = "size_sell", !.seen = OnlyBuy(seen)]
          BY <2>5, <3>1
      <4>2. "size_sell" \in Places
          BY DEF Places
      <4>3. QED
          BY <1>1, <2>3, <4>1, <4>2 DEF ReadBuy, Cycles
    <3>2. CASE ~(complete /\ seen > 0)
      <4>1. cycle' = [cycle EXCEPT !.pc = "end", !.seen = OnlyBuy(seen), !.complete = complete]
          BY <2>5, <3>2
      <4>2. "end" \in Places
          BY DEF Places
      <4>3. QED
          BY <1>1, <2>2, <2>3, <4>1, <4>2 DEF ReadBuy, Cycles
    <3>3. QED
        BY <3>1, <3>2
  <2>7. CASE complete /\ seen > 0
    <3>1. cycle'.pc = "size_sell" /\ cycle'.complete = cycle.complete
        BY <1>1, <2>5, <2>7 DEF Cycles
    <3>2. QED
        BY <2>2, <2>3, <2>4, <2>6, <2>7, <3>1
  <2>8. CASE ~(complete /\ seen > 0)
    <3>1. cycle'.pc = "end" /\ cycle'.complete = complete
        BY <1>1, <2>5, <2>8 DEF Cycles
    <3>2. QED
        BY <2>2, <2>3, <2>4, <2>6, <2>8, <3>1
  <2>9. QED
      BY <2>7, <2>8
<1>3. TypeOK'
    BY <1>1, <1>2 DEF IInv, TypeOK
<1>4. OrderBounds'
    BY <1>1, <1>2 DEF IInv, TypeOK, OrderBounds, Orders
<1>5. OrdersOfCycle'
    BY <1>1, <1>2, <1>3 DEF IInv, TypeOK, OrdersOfCycle, Fresh, Imbalance, Orders, Cycles, Buying, Sizing, Selling, Hedging, Working
<1>6. NotShort'
    BY <1>1, <1>2 DEF IInv, TypeOK, NotShort, Sold, StraySales, OrdersOfCycle, Fresh, Imbalance, Outcome,
       Awaited, Orders, Cycles, Reviews, Buying, Sizing, Selling, Hedging, Working
<1>7. ProgressTraded'
    BY <1>1, <1>2 DEF IInv, TypeOK, ProgressTraded, Within, Sold, OrdersOfCycle, Fresh, Imbalance,
       Awaited, Orders, Cycles, Runtimes, RuntimesOf, Buying, Sizing, Selling, Hedging, Working
<1>8. ResidualKept'
    BY <1>1, <1>2 DEF IInv, ResidualKept, Recorded, Blocked, ResidualBlocks, Trading
<1>9. ExposureKnown'
    BY <1>1, <1>2, <1>3 DEF IInv, TypeOK, ExposureKnown, StillBlocked, AsReviewed, Trading, OrdersOfCycle,
       Fresh, Halts, Repaired, Imbalance, Outcome, Awaited, Orders, Cycles, Reviews,
       Buying, Sizing, Selling, Hedging, Working
<1>10. QED
    BY <1>3, <1>4, <1>5, <1>6, <1>7, <1>8, <1>9 DEF IInv

LEMMA SizeSellKeeps == ASSUME IInv, SizeSell PROVE IInv'
<1> USE DEF Legs, Sides, At, Environment, saved, config
<1>1. cycle \in Cycles /\ order \in [Legs -> Orders]
    BY DEF IInv, TypeOK
<1>2. /\ cycle' \in Cycles /\ UNCHANGED <<order, Environment>>
      /\ cycle.pc = "size_sell" /\ cycle'.local = cycle.local /\ cycle'.seen = cycle.seen
      /\ cycle'.complete = cycle.complete /\ cycle'.attempt = cycle.attempt
      /\ cycle'.hedged = cycle.hedged
      /\ \/ cycle'.pc = "submit_sell" /\ cycle'.faults = cycle.faults
         \/ cycle'.pc = "hedge" /\ cycle'.faults = cycle.faults \cup {"create"}
         \/ cycle'.pc = "end" /\ cycle'.faults = cycle.faults \cup {"raised"}
  <2>1. "submit_sell" \in Places /\ "hedge" \in Places /\ "end" \in Places
      BY DEF Places
  <2>2. CASE GoesTo("submit_sell")
      BY <1>1, <2>1, <2>2 DEF SizeSell, GoesTo, Cycles
  <2>3. CASE cycle' = [cycle EXCEPT !.pc = "hedge", !.faults = @ \cup {"create"}]
      BY <1>1, <2>1, <2>3 DEF SizeSell, Cycles, Faults
  <2>4. CASE cycle' = [cycle EXCEPT !.pc = "end", !.faults = @ \cup {"raised"}]
      BY <1>1, <2>1, <2>4 DEF SizeSell, Cycles, Faults
  <2>5. QED
      BY <2>2, <2>3, <2>4 DEF SizeSell
<1>3. TypeOK'
    BY <1>1, <1>2 DEF IInv, TypeOK
<1>4. OrderBounds'
    BY <1>1, <1>2 DEF IInv, TypeOK, OrderBounds, Orders
<1>5. OrdersOfCycle'
    BY <1>1, <1>2, <1>3 DEF IInv, TypeOK, OrdersOfCycle, Fresh, Imbalance, Orders, Cycles, Buying, Sizing, Selling, Hedging, Working
<1>6. NotShort'
    BY <1>1, <1>2 DEF IInv, TypeOK, NotShort, Sold, StraySales, OrdersOfCycle, Fresh, Imbalance, Outcome,
       Awaited, Orders, Cycles, Reviews, Buying, Sizing, Selling, Hedging, Working
<1>7. ProgressTraded'
    BY <1>1, <1>2 DEF IInv, TypeOK, ProgressTraded, Within, Sold, OrdersOfCycle, Fresh, Imbalance,
       Awaited, Orders, Cycles, Runtimes, RuntimesOf, Buying, Sizing, Selling, Hedging, Working
<1>8. ResidualKept'
    BY <1>1, <1>2 DEF IInv, ResidualKept, Recorded, Blocked, ResidualBlocks, Trading
<1>9. ExposureKnown'
    BY <1>1, <1>2, <1>3 DEF IInv, TypeOK, ExposureKnown, StillBlocked, AsReviewed, Trading, OrdersOfCycle,
       Fresh, Halts, Repaired, Imbalance, Outcome, Awaited, Orders, Cycles, Reviews,
       Buying, Sizing, Selling, Hedging, Working
<1>10. QED
    BY <1>3, <1>4, <1>5, <1>6, <1>7, <1>8, <1>9 DEF IInv

LEMMA ReadBothKeeps == ASSUME IInv, ReadBoth PROVE IInv'
<1> USE DEF Legs, Sides, At, Environment, saved, config
<1>1. cycle \in Cycles /\ order \in [Legs -> Orders]
    BY DEF IInv, TypeOK
<1>2. /\ cycle' \in Cycles /\ UNCHANGED <<order, Environment>>
      /\ cycle.pc = "read_both" /\ cycle'.local = cycle.local /\ cycle'.faults = cycle.faults
      /\ cycle'.attempt = cycle.attempt /\ cycle'.hedged = cycle.hedged
      /\ cycle'.seen["buy"] \in {0, order["buy"].filled}
      /\ cycle'.seen["sell"] \in {0, order["sell"].filled}
      /\ cycle'.complete =>
            /\ cycle'.seen["buy"] = order["buy"].filled /\ order["buy"].open = 0
            /\ "create" \in cycle.faults => cycle'.seen["sell"] = 0
            /\ "create" \notin cycle.faults => /\ cycle'.seen["sell"] = order["sell"].filled
                                               /\ order["sell"].open = 0
      /\ \/ cycle'.pc = "hedge" /\ cycle'.complete /\ "uncertain" \notin cycle.faults
         \/ /\ cycle'.pc = "end"
            /\ \/ cycle'.seen["buy"] = cycle'.seen["sell"]
               \/ ~cycle'.complete
               \/ "uncertain" \in cycle.faults
  <2> DEFINE answered == "create" \notin cycle.faults
             seen(buyRead, sellRead) ==
                [side \in Sides |-> IF side = "buy" THEN Seen("buy", buyRead)
                                    ELSE IF answered THEN Seen("sell", sellRead) ELSE 0]
             complete(buyRead, sellRead) ==
                Final("buy", buyRead) /\ (answered => Final("sell", sellRead))
  <2>1. PICK buyRead \in BOOLEAN, sellRead \in BOOLEAN :
           Settle(seen(buyRead, sellRead), complete(buyRead, sellRead))
      BY DEF ReadBoth
  <2> DEFINE s == seen(buyRead, sellRead)
             c == complete(buyRead, sellRead)
             next == IF /\ s["buy"] # s["sell"]
                        /\ c
                        /\ "uncertain" \notin cycle.faults
                     THEN "hedge" ELSE "end"
  <2>2. /\ s["buy"] \in {0, order["buy"].filled} /\ s["sell"] \in {0, order["sell"].filled}
        /\ s \in [Sides -> 0..Slice] /\ c \in BOOLEAN
      BY <1>1 DEF Seen, Final, Orders
  <2>3. c => /\ s["buy"] = order["buy"].filled /\ order["buy"].open = 0
             /\ "create" \in cycle.faults => s["sell"] = 0
             /\ "create" \notin cycle.faults => /\ s["sell"] = order["sell"].filled
                                                /\ order["sell"].open = 0
      BY DEF Seen, Final
  <2>4. cycle' = [cycle EXCEPT !.seen = s, !.complete = c, !.pc = next]
      BY <2>1 DEF Settle
  <2>5. cycle.pc = "read_both" /\ UNCHANGED <<order, Environment>>
      BY DEF ReadBoth
  <2>6. next \in Places
      BY DEF Places
  <2> HIDE DEF s, c, seen, complete
  <2>7. /\ cycle' \in Cycles /\ cycle'.pc = next /\ cycle'.seen = s /\ cycle'.complete = c
        /\ cycle'.local = cycle.local /\ cycle'.faults = cycle.faults
        /\ cycle'.attempt = cycle.attempt /\ cycle'.hedged = cycle.hedged
    <3> HIDE DEF next
    <3>1. QED
        BY <1>1, <2>2, <2>4, <2>6 DEF Cycles
  <2>8. QED
      BY <2>2, <2>3, <2>5, <2>7
<1>3. TypeOK'
    BY <1>1, <1>2 DEF IInv, TypeOK
<1>4. OrderBounds'
    BY <1>1, <1>2 DEF IInv, TypeOK, OrderBounds, Orders
<1>5. OrdersOfCycle'
    BY <1>1, <1>2, <1>3 DEF IInv, TypeOK, OrdersOfCycle, Fresh, Imbalance, Orders, Cycles, Buying, Sizing, Selling, Hedging, Working
<1>6. NotShort'
    BY <1>1, <1>2 DEF IInv, TypeOK, NotShort, Sold, StraySales, OrdersOfCycle, Fresh, Imbalance, Outcome,
       Awaited, Orders, Cycles, Reviews, Buying, Sizing, Selling, Hedging, Working
<1>7. ProgressTraded'
    BY <1>1, <1>2 DEF IInv, TypeOK, ProgressTraded, Within, Sold, OrdersOfCycle, Fresh, Imbalance,
       Awaited, Orders, Cycles, Runtimes, RuntimesOf, Buying, Sizing, Selling, Hedging, Working
<1>8. ResidualKept'
    BY <1>1, <1>2 DEF IInv, ResidualKept, Recorded, Blocked, ResidualBlocks, Trading
<1>9. ExposureKnown'
  <2>1. /\ cycle.pc \in Working /\ "raised" \notin cycle.faults /\ cycle.complete
        /\ cycle.pc \in Selling /\ order["hedge"].open = 0 /\ order["buy"].open = 0
        /\ cycle.hedged = 0 /\ order["buy"].filled \in Nat /\ order["sell"].filled \in Nat
      BY <1>1, <1>2 DEF IInv, OrdersOfCycle, Orders, Working, Selling
  <2>2. /\ Outcome = order["buy"].filled - order["sell"].filled
        /\ Outcome' = Outcome
      BY <1>2, <2>1 DEF Outcome, Awaited
  <2>3. Trading' /\ (cycle'.pc = "end" => cycle'.pc \notin Working)
      BY <1>2 DEF Trading, Working, Buying, Sizing, Selling, Hedging
  <2>4. CASE cycle'.complete /\ "uncertain" \notin cycle.faults
    <3>1. /\ cycle'.seen["buy"] = order["buy"].filled
          /\ cycle'.seen["sell"] = order["sell"].filled /\ order["sell"].open = 0
        BY <1>1, <1>2, <2>1, <2>4 DEF IInv, OrdersOfCycle, Fresh
    <3>2. cycle'.pc = "end" => Outcome = 0
        BY <1>2, <2>1, <2>2, <2>4, <3>1
    <3>3. review.known = {} /\ review.exposure = 0 => AsReviewed'
        BY <1>2, <2>1, <3>1 DEF AsReviewed
    <3>4. QED
        BY <1>2, <2>1, <2>2, <2>3, <3>2, <3>3 DEF IInv, ExposureKnown
  <2>5. CASE ~cycle'.complete \/ "uncertain" \in cycle.faults
    <3>1. cycle'.pc = "end" /\ Halts'
        BY <1>2, <2>1, <2>5 DEF Halts
    <3>2. QED
        BY <2>3, <3>1 DEF ExposureKnown
  <2>6. QED
      BY <2>4, <2>5
<1>10. QED
    BY <1>3, <1>4, <1>5, <1>6, <1>7, <1>8, <1>9 DEF IInv

LEMMA EndHedgeKeeps == ASSUME IInv, EndHedge PROVE IInv'
<1> USE DEF Legs, Sides, At, Environment, saved, config
<1>1. cycle \in Cycles /\ order \in [Legs -> Orders]
    BY DEF IInv, TypeOK
<1>2. /\ cycle' \in Cycles /\ UNCHANGED <<order, Environment>>
      /\ cycle.pc = "hedge" /\ cycle'.pc = "end" /\ cycle'.local = cycle.local
      /\ cycle'.seen = cycle.seen /\ cycle'.complete = cycle.complete
      /\ cycle'.faults = cycle.faults /\ cycle'.attempt = cycle.attempt
      /\ cycle'.hedged = cycle.hedged
    BY <1>1 DEF EndHedge, GoesTo, Cycles, Places
<1>3. TypeOK'
    BY <1>1, <1>2 DEF IInv, TypeOK
<1>4. OrderBounds'
    BY <1>1, <1>2 DEF IInv, TypeOK, OrderBounds, Orders
<1>5. OrdersOfCycle'
    BY <1>1, <1>2, <1>3 DEF IInv, TypeOK, OrdersOfCycle, Fresh, Imbalance, Orders, Cycles, Buying, Sizing, Selling, Hedging, Working
<1>6. NotShort'
    BY <1>1, <1>2 DEF IInv, TypeOK, NotShort, Sold, StraySales, OrdersOfCycle, Fresh, Imbalance, Outcome,
       Awaited, Orders, Cycles, Reviews, Buying, Sizing, Selling, Hedging, Working
<1>7. ProgressTraded'
    BY <1>1, <1>2 DEF IInv, TypeOK, ProgressTraded, Within, Sold, OrdersOfCycle, Fresh, Imbalance,
       Awaited, Orders, Cycles, Runtimes, RuntimesOf, Buying, Sizing, Selling, Hedging, Working
<1>8. ResidualKept'
    BY <1>1, <1>2 DEF IInv, ResidualKept, Recorded, Blocked, ResidualBlocks, Trading
<1>9. ExposureKnown'
  <2>1. /\ cycle.pc \in Working /\ "raised" \notin cycle.faults
        /\ \A leg \in Legs : order[leg].open = 0
        /\ cycle.seen["buy"] = order["buy"].filled
        /\ cycle.seen["sell"] = order["sell"].filled
      BY <1>1, <1>2 DEF IInv, OrdersOfCycle, Working, Hedging
  <2>2. Outcome = Imbalance
    <3>1. /\ cycle.hedged \in Nat /\ order["buy"].filled \in Nat
          /\ order["sell"].filled \in Nat
        BY <1>1 DEF Cycles, Orders
    <3>2. QED
        BY <1>2, <2>1, <3>1 DEF Outcome, Imbalance, Awaited
  <2>3. Trading' /\ cycle'.pc \notin Working /\ Imbalance' = Imbalance
      BY <1>2 DEF Trading, Imbalance, Working, Buying, Sizing, Selling, Hedging
  <2>4. Imbalance # 0 => Halts'
      BY <1>2, <2>1, <2>3 DEF Halts
  <2>5. review.exposure = 0 => AsReviewed'
      BY <1>2, <2>1 DEF AsReviewed
  <2>6. QED
      BY <1>2, <2>1, <2>2, <2>3, <2>4, <2>5 DEF IInv, ExposureKnown
<1>10. QED
    BY <1>3, <1>4, <1>5, <1>6, <1>7, <1>8, <1>9 DEF IInv

LEMMA HedgeKeeps == ASSUME IInv, Hedge PROVE IInv'
<1> USE DEF Legs, Sides, At, Environment, saved, config
<1>1. /\ cycle \in Cycles /\ order \in [Legs -> Orders]
      /\ Imbalance > 0 /\ HedgeAmount \in 0..Slice /\ HedgeAmount > 0
      /\ HedgeAmount <= Imbalance /\ HedgeAmount <= MaxHedge - cycle.hedged
      /\ [open |-> HedgeAmount, filled |-> 0] \in Orders
  <2>1. cycle \in Cycles /\ order \in [Legs -> Orders] /\ Imbalance > 0 /\ HedgeAmount > 0
      BY DEF IInv, TypeOK, Hedge
  <2>2. Imbalance \in Int /\ MaxHedge - cycle.hedged \in Int /\ Imbalance <= Slice
      BY <2>1 DEF Imbalance, Cycles
  <2>3. /\ HedgeAmount \in Int
        /\ HedgeAmount <= Imbalance /\ HedgeAmount <= MaxHedge - cycle.hedged
      BY <2>2, SmallerOfTwo DEF HedgeAmount
  <2>4. QED
      BY <2>1, <2>2, <2>3 DEF Orders
<1> DEFINE placed == [open |-> HedgeAmount, filled |-> 0]
<1>2. /\ cycle' \in Cycles /\ order' \in [Legs -> Orders] /\ UNCHANGED Environment
      /\ order'["buy"] = order["buy"] /\ order'["sell"] = order["sell"]
      /\ cycle.pc = "hedge" /\ cycle'.local = cycle.local /\ cycle'.seen = cycle.seen
      /\ cycle'.complete = cycle.complete /\ cycle'.faults = cycle.faults
      /\ cycle'.hedged = cycle.hedged /\ cycle.attempt < MaxAttempts
      /\ \/ cycle'.pc = "hedge_wait" /\ order'["hedge"] = placed /\ cycle'.attempt > 0
         \/ cycle'.pc = "hedge" /\ order'["hedge"] = order["hedge"]
         \/ cycle'.pc = "end" /\ order'["hedge"] \in {placed, order["hedge"]}
  <2>1. cycle.pc = "hedge" /\ cycle.attempt < MaxAttempts /\ UNCHANGED Environment
      BY DEF Hedge
  <2>2. OpensOrder("hedge", HedgeAmount) =>
           /\ order' \in [Legs -> Orders] /\ order'["hedge"] = placed
           /\ order'["buy"] = order["buy"] /\ order'["sell"] = order["sell"]
      BY <1>1 DEF OpensOrder
  <2>3. CASE /\ OpensOrder("hedge", HedgeAmount)
             /\ cycle' = [cycle EXCEPT !.pc = "hedge_wait", !.attempt = @ + 1]
    <3>1. "hedge_wait" \in Places /\ cycle.attempt + 1 \in 0..MaxAttempts
        BY <1>1, <2>1 DEF Cycles, Places
    <3>2. cycle'.attempt > 0
        BY <1>1, <2>3 DEF Cycles
    <3>3. QED
        BY <1>1, <2>1, <2>2, <2>3, <3>1, <3>2 DEF Cycles
  <2>4. CASE cycle' = [cycle EXCEPT !.attempt = @ + 1] /\ UNCHANGED order
      BY <1>1, <2>1, <2>4 DEF Cycles
  <2>5. CASE (OpensOrder("hedge", HedgeAmount) \/ UNCHANGED order) /\ GoesTo("end")
      BY <1>1, <2>1, <2>2, <2>5 DEF GoesTo, Cycles, Places
  <2>6. QED
      BY <2>3, <2>4, <2>5 DEF Hedge
<1>3. TypeOK'
    BY <1>1, <1>2 DEF IInv, TypeOK
<1>4. OrderBounds'
    BY <1>1, <1>2 DEF IInv, TypeOK, OrderBounds, Orders
<1>5. OrdersOfCycle'
    BY <1>1, <1>2, <1>3 DEF IInv, TypeOK, OrdersOfCycle, Fresh, Imbalance, Orders, Cycles, Buying, Sizing, Selling, Hedging, Working
<1>6. NotShort'
    BY <1>1, <1>2 DEF IInv, TypeOK, NotShort, Sold, StraySales, OrdersOfCycle, Fresh, Imbalance, Outcome,
       Awaited, Orders, Cycles, Reviews, Buying, Sizing, Selling, Hedging, Working
<1>7. ProgressTraded'
    BY <1>1, <1>2 DEF IInv, TypeOK, ProgressTraded, Within, Sold, OrdersOfCycle, Fresh, Imbalance,
       Awaited, Orders, Cycles, Runtimes, RuntimesOf, Buying, Sizing, Selling, Hedging, Working
<1>8. ResidualKept'
    BY <1>1, <1>2 DEF IInv, ResidualKept, Recorded, Blocked, ResidualBlocks, Trading
<1>9. ExposureKnown'
    BY <1>1, <1>2, <1>3 DEF IInv, TypeOK, ExposureKnown, StillBlocked, AsReviewed, Trading, OrdersOfCycle,
       Fresh, Halts, Repaired, Imbalance, Outcome, Awaited, Orders, Cycles, Reviews,
       Buying, Sizing, Selling, Hedging, Working
<1>10. QED
    BY <1>3, <1>4, <1>5, <1>6, <1>7, <1>8, <1>9 DEF IInv

LEMMA CountHedgeKeeps == ASSUME IInv, CountHedge PROVE IInv'
<1> USE DEF Legs, Sides, At, Environment, saved, config
<1>1. /\ cycle \in Cycles /\ order \in [Legs -> Orders]
      /\ order["hedge"].open + order["hedge"].filled <= MaxHedge - cycle.hedged
      /\ [open |-> 0, filled |-> order["hedge"].filled] \in Orders
  <2>1. cycle \in Cycles /\ order \in [Legs -> Orders] /\ cycle.pc = "hedge_wait"
      BY DEF IInv, TypeOK, CountHedge
  <2>2. order["hedge"].open + order["hedge"].filled <= MaxHedge - cycle.hedged
      BY <2>1 DEF IInv, OrdersOfCycle
  <2>3. [open |-> 0, filled |-> order["hedge"].filled] \in Orders
      BY <2>1 DEF Orders
  <2>4. QED
      BY <2>1, <2>2, <2>3
<1>2. /\ cycle' \in Cycles /\ order' \in [Legs -> Orders]
      /\ UNCHANGED <<traded, stray, runtime, path, file, route, enabled, incidents>>
      /\ order'["buy"] = order["buy"] /\ order'["sell"] = order["sell"]
      /\ cycle.pc = "hedge_wait" /\ cycle'.local = cycle.local /\ cycle'.seen = cycle.seen
      /\ cycle'.complete = cycle.complete /\ cycle'.faults = cycle.faults
      /\ cycle'.attempt = cycle.attempt
      /\ review' \in Reviews /\ review'.known = review.known /\ review'.lost = review.lost
      /\ \/ /\ cycle'.pc = "hedge"
            /\ \/ /\ cycle'.hedged = cycle.hedged + order["hedge"].filled
                  /\ review'.exposure = review.exposure /\ review'.unseen = review.unseen
               \/ /\ cycle'.hedged = cycle.hedged
                  /\ review'.exposure = review.exposure + order["hedge"].filled
                  /\ review'.unseen = review.unseen + order["hedge"].filled
            /\ order'["hedge"] = [open |-> 0, filled |-> order["hedge"].filled]
         \/ /\ cycle'.pc = "end" /\ cycle'.hedged = cycle.hedged
            /\ order'["hedge"] = order["hedge"] /\ review' = review
  <2>1. /\ cycle.pc = "hedge_wait" /\ review \in Reviews
        /\ UNCHANGED <<traded, stray, runtime, path, file, route, enabled, incidents>>
      BY DEF CountHedge, IInv, TypeOK
  <2>2. CASE /\ ClosesOrder("hedge")
             /\ \E filled \in {0, order["hedge"].filled} :
                   LET lost == order["hedge"].filled - filled
                   IN  /\ cycle' = [cycle EXCEPT !.pc = "hedge", !.hedged = @ + filled]
                       /\ review' = [review EXCEPT !.exposure = @ + lost, !.unseen = @ + lost]
    <3>1. /\ order' \in [Legs -> Orders]
          /\ order'["buy"] = order["buy"] /\ order'["sell"] = order["sell"]
          /\ order'["hedge"] = [open |-> 0, filled |-> order["hedge"].filled]
        BY <1>1, <2>2 DEF ClosesOrder
    <3>2. PICK filled \in {0, order["hedge"].filled} :
              /\ cycle' = [cycle EXCEPT !.pc = "hedge", !.hedged = @ + filled]
              /\ review' = [review EXCEPT !.exposure = @ + (order["hedge"].filled - filled),
                                          !.unseen = @ + (order["hedge"].filled - filled)]
        BY <2>2
    <3>3. /\ filled \in Nat /\ order["hedge"].filled - filled \in Nat
          /\ cycle.hedged + filled \in 0..MaxHedge
        BY <1>1 DEF Cycles, Orders
    <3>4. "hedge" \in Places
        BY DEF Places
    <3>5. /\ cycle' \in Cycles /\ cycle'.pc = "hedge" /\ cycle'.local = cycle.local
          /\ cycle'.seen = cycle.seen /\ cycle'.complete = cycle.complete
          /\ cycle'.faults = cycle.faults /\ cycle'.hedged = cycle.hedged + filled
          /\ cycle'.attempt = cycle.attempt
        BY <1>1, <3>2, <3>3, <3>4 DEF Cycles
    <3>6. /\ review' \in Reviews /\ review'.known = review.known /\ review'.lost = review.lost
          /\ review'.exposure = review.exposure + (order["hedge"].filled - filled)
          /\ review'.unseen = review.unseen + (order["hedge"].filled - filled)
      <4>1. /\ review.exposure \in Int /\ review.unseen \in Nat
            /\ review.exposure + (order["hedge"].filled - filled) \in Int
            /\ review.unseen + (order["hedge"].filled - filled) \in Nat
          BY <2>1, <3>3 DEF Reviews
      <4> DEFINE lost == order["hedge"].filled - filled
      <4>2. review' = [review EXCEPT !.exposure = @ + lost, !.unseen = @ + lost]
          BY <3>2
      <4>3. review.exposure + lost \in Int /\ review.unseen + lost \in Nat
          BY <4>1
      <4> HIDE DEF lost
      <4>4. /\ review' \in Reviews /\ review'.known = review.known
            /\ review'.lost = review.lost
            /\ review'.exposure = review.exposure + lost
            /\ review'.unseen = review.unseen + lost
          BY <2>1, <4>2, <4>3 DEF Reviews
      <4>5. QED
          BY <4>4 DEF lost
    <3>7. order["hedge"].filled \in Nat /\ cycle.hedged \in Nat /\ review.exposure \in Int
          /\ review.unseen \in Nat
        BY <1>1, <2>1 DEF Cycles, Orders, Reviews
    <3>8. QED
        BY <2>1, <3>1, <3>2, <3>5, <3>6, <3>7
  <2>3. CASE GoesTo("end") /\ UNCHANGED <<order, review>>
      BY <1>1, <2>1, <2>3 DEF GoesTo, Cycles, Places
  <2>4. QED
      BY <2>2, <2>3 DEF CountHedge
<1>3. TypeOK'
    BY <1>1, <1>2 DEF IInv, TypeOK
<1>4. OrderBounds'
    BY <1>1, <1>2 DEF IInv, TypeOK, OrderBounds, Orders
<1>5. OrdersOfCycle'
    BY <1>1, <1>2, <1>3 DEF IInv, TypeOK, OrdersOfCycle, Fresh, Imbalance, Orders, Cycles, Buying, Sizing, Selling, Hedging, Working
<1>6. NotShort'
    BY <1>1, <1>2 DEF IInv, TypeOK, NotShort, Sold, StraySales, OrdersOfCycle, Fresh, Imbalance, Outcome,
       Awaited, Orders, Cycles, Reviews, Buying, Sizing, Selling, Hedging, Working
<1>7. ProgressTraded'
    BY <1>1, <1>2 DEF IInv, TypeOK, ProgressTraded, Within, Sold, OrdersOfCycle, Fresh, Imbalance,
       Awaited, Orders, Cycles, Runtimes, RuntimesOf, Buying, Sizing, Selling, Hedging, Working
<1>8. ResidualKept'
    BY <1>1, <1>2 DEF IInv, ResidualKept, Recorded, Blocked, ResidualBlocks, Trading
<1>9. ExposureKnown'
    BY <1>1, <1>2, <1>3 DEF IInv, TypeOK, ExposureKnown, StillBlocked, AsReviewed, Trading, OrdersOfCycle,
       Fresh, Halts, Repaired, Imbalance, Outcome, Awaited, Orders, Cycles, Reviews,
       Buying, Sizing, Selling, Hedging, Working
<1>10. QED
    BY <1>3, <1>4, <1>5, <1>6, <1>7, <1>8, <1>9 DEF IInv

(* What a cycle leaves in the runtime.                                      *)
LEMMA AppliedOutcome ==
    ASSUME TypeOK, OrdersOfCycle, At("end")
    PROVE  /\ Applied(cycle.local) \in Runtimes
           /\ Applied(cycle.local).completed \in {cycle.local.completed,
                                                  cycle.local.completed + Progress}
           /\ Progress \in Nat /\ Progress <= cycle.seen["buy"]
           /\ Imbalance = 0 \/ Progress = 0
           /\ Applied(cycle.local).halted = (cycle.local.halted \/ Halts)
           /\ \/ /\ Applied(cycle.local).residual = cycle.local.residual
                 /\ Applied(cycle.local).acknowledged = cycle.local.acknowledged
              \/ Applied(cycle.local).halted
           /\ Applied(cycle.local).pair = cycle.local.pair
<1> USE DEF Sides
<1>1. /\ cycle \in Cycles /\ cycle.local \in Runtimes
      /\ Imbalance \in -Slice..Slice
    BY DEF TypeOK, Cycles, OrdersOfCycle, Imbalance
<1>2. /\ Remaining(cycle.local) \in 0..Target
      /\ cycle.seen["buy"] \in Nat /\ cycle.local.completed \in 0..Target
    BY <1>1 DEF Remaining, Runtimes, RuntimesOf, Cycles
<1>3. /\ Progress \in Nat /\ Progress <= cycle.seen["buy"]
      /\ Progress <= Remaining(cycle.local)
      /\ Imbalance = 0 \/ Progress = 0
  <2>1. CASE Imbalance = 0
    <3>1. cycle.seen["buy"] \in Int /\ Remaining(cycle.local) \in Int
        BY <1>2
    <3>2. /\ Progress \in {cycle.seen["buy"], Remaining(cycle.local)}
          /\ Progress <= cycle.seen["buy"] /\ Progress <= Remaining(cycle.local)
        BY <2>1, <3>1, SmallerOfTwo, Zenon DEF Progress
    <3>3. QED
        BY <1>2, <2>1, <3>2
  <2>2. CASE Imbalance # 0
      BY <1>2, <2>2 DEF Progress
  <2>3. QED
      BY <2>1, <2>2
<1>4. cycle.local.completed + Progress \in 0..Target
    BY <1>2, <1>3 DEF Remaining
<1>5. Halts \in BOOLEAN /\ cycle.local.halted \in BOOLEAN /\ cycle.local.acknowledged \in BOOLEAN
    BY <1>1 DEF Halts, Runtimes, RuntimesOf
<1> DEFINE required == Imbalance # 0 /\ "raised" \notin cycle.faults
           completed == IF "raised" \in cycle.faults THEN cycle.local.completed
                        ELSE cycle.local.completed + Progress
           halted == cycle.local.halted \/ Halts
           reason == IF ~Halts THEN cycle.local.reason
                     ELSE IF required THEN "hedge_required" ELSE "other"
           residual == IF required THEN Imbalance ELSE cycle.local.residual
           acknowledged == cycle.local.acknowledged /\ ~required
<1>6. Applied(cycle.local) = [pair |-> cycle.local.pair, completed |-> completed, halted |-> halted, reason |-> reason,
                              residual |-> residual, acknowledged |-> acknowledged]
    BY DEF Applied
<1>7. completed \in 0..Target
    BY <1>2, <1>4
<1>8. /\ halted \in BOOLEAN /\ acknowledged \in BOOLEAN
      /\ reason \in {"none", "hedge_required", "other"}
    BY <1>1, <1>5 DEF Runtimes, RuntimesOf
<1>9. residual \in -Slice..Slice
    BY <1>1 DEF Runtimes, RuntimesOf
<1>10. (residual = cycle.local.residual /\ acknowledged = cycle.local.acknowledged) \/ halted
    BY <1>5 DEF Halts
<1>11. completed \in {cycle.local.completed, cycle.local.completed + Progress}
    OBVIOUS
<1> HIDE DEF required, completed, halted, reason, residual, acknowledged
<1>12. /\ Applied(cycle.local) \in Runtimes
       /\ Applied(cycle.local).completed = completed
       /\ Applied(cycle.local).halted = halted
       /\ Applied(cycle.local).residual = residual
       /\ Applied(cycle.local).acknowledged = acknowledged
       /\ Applied(cycle.local).pair = cycle.local.pair
    BY <1>1, <1>6, <1>7, <1>8, <1>9 DEF Runtimes, RuntimesOf
<1>13. QED
    BY <1>3, <1>10, <1>11, <1>12 DEF halted

(* The loop saves what it made of the iteration.                            *)
LEMMA SavesOutcome ==
    ASSUME IInv, NEW new \in Runtimes, Saves(new)
    PROVE  /\ cycle' \in Cycles /\ cycle'.pc = "idle" /\ cycle'.local = new
           /\ runtime' = new
           /\ file' \in [Paths -> RuntimesOf(Pairs \cup {"none"})] /\ file'[path] = new
           /\ \A p \in Paths \ {path} : file'[p] = file[p]
           /\ path \in Paths
           /\ UNCHANGED <<order, traded, stray, path, route, enabled, review, incidents>>
<1>1. /\ file \in [Paths -> RuntimesOf(Pairs \cup {"none"})] /\ path \in Paths
      /\ new \in RuntimesOf(Pairs \cup {"none"})
    BY DEF IInv, TypeOK, Runtimes, RuntimesOf
<1>2. /\ cycle' = CycleOf("idle", new, 0) /\ "idle" \in Places /\ 0 \in 0..Slice
    BY DEF Saves, Places
<1>3. /\ cycle' \in Cycles /\ cycle'.pc = "idle" /\ cycle'.local = new
    BY <1>2, CycleTyped
<1>4. QED
    BY <1>1, <1>3 DEF Saves, exchanges, config

LEMMA EndCycleKeeps == ASSUME IInv, EndCycle PROVE IInv'
<1> USE DEF Legs, Sides, At
<1> DEFINE new == Applied(cycle.local)
<1>1. /\ cycle.pc = "end" /\ cycle \in Cycles /\ traded \in [Legs -> Nat]
      /\ new \in Runtimes /\ Saves(new)
      /\ new.completed \in {cycle.local.completed, cycle.local.completed + Progress}
      /\ Progress \in Nat /\ Progress <= cycle.seen["buy"]
      /\ Imbalance = 0 \/ Progress = 0
      /\ new.halted = (cycle.local.halted \/ Halts)
      /\ \/ new.residual = cycle.local.residual /\ new.acknowledged = cycle.local.acknowledged
         \/ new.halted
    BY AppliedOutcome DEF EndCycle, IInv, TypeOK
<1> HIDE DEF new
<1>2. /\ cycle' \in Cycles /\ cycle'.pc = "idle" /\ cycle'.local = new
      /\ runtime' = new
      /\ file' \in [Paths -> RuntimesOf(Pairs \cup {"none"})] /\ file'[path] = new
      /\ \A p \in Paths \ {path} : file'[p] = file[p]
      /\ path \in Paths
      /\ UNCHANGED <<order, traded, stray, path, route, enabled, review, incidents>>
    BY <1>1, SavesOutcome
<1>3. TypeOK'
    BY <1>1, <1>2 DEF IInv, TypeOK
<1>4. OrderBounds'
    BY <1>1, <1>2 DEF IInv, OrderBounds
<1>5. OrdersOfCycle'
    BY <1>1, <1>2 DEF OrdersOfCycle, Buying, Sizing, Selling, Hedging, Working
<1>6. NotShort'
    BY <1>1, <1>2 DEF IInv, NotShort, Sold, StraySales, Buying, Sizing, Selling, Hedging, Working
<1>7. ProgressTraded'
  <2>1. Within(new.completed)
      BY <1>1 DEF IInv, ProgressTraded, Within, Sold, Imbalance, Cycles, Runtimes, RuntimesOf
  <2>2. QED
      BY <1>1, <1>2, <2>1 DEF IInv, ProgressTraded, Within, Sold, Buying, Sizing, Selling, Hedging, Working
<1>8. ResidualKept'
  <2>1. Recorded(new)
      BY <1>1 DEF IInv, ResidualKept, Recorded, Blocked
  <2>2. QED
      BY <1>1, <1>2, <2>1 DEF IInv, ResidualKept, Recorded, Blocked, ResidualBlocks, Trading
<1>9. ExposureKnown'
  <2>1. Halts => Blocked(new)
      BY <1>1 DEF Blocked
  <2>2. AsReviewed' = AsReviewed
      BY <1>2 DEF AsReviewed
  <2>3. Blocked(new) => StillBlocked'
      BY <1>2 DEF StillBlocked
  <2>4. QED
      BY <1>1, <1>2, <2>1, <2>2, <2>3 DEF IInv, ExposureKnown, Buying, Sizing, Selling, Hedging, Working
<1>10. QED
    BY <1>3, <1>4, <1>5, <1>6, <1>7, <1>8, <1>9 DEF IInv

LEMMA ObserveKeeps == ASSUME IInv, Observe PROVE IInv'
<1> USE DEF Legs, Sides, At, saved, config
<1>1. /\ cycle.pc = "idle" /\ runtime \in Runtimes /\ review \in Reviews
      /\ Current \in Runtimes /\ Within(Current.completed) /\ Recorded(Current)
      /\ ~Drops /\ StillBlocked => route.path = path /\ Current = runtime /\ Blocked(Current)
      /\ Drops \in BOOLEAN /\ route.path \in Paths
  <2>1. cycle.pc = "idle"
      BY DEF Observe, Iterate
  <2>2. QED
      BY <2>1, CurrentKeeps DEF IInv, TypeOK, Routes, Drops, Blocked, Runtimes, RuntimesOf
<1>2. /\ cycle' \in Cycles /\ cycle'.pc = "observe" /\ cycle'.local = Current
      /\ review' \in Reviews /\ review'.exposure = review.exposure /\ review'.known = review.known
      /\ review'.unseen = review.unseen /\ review'.lost = (review.lost \/ Drops)
      /\ path' = route.path
      /\ UNCHANGED <<order, traded, stray, runtime, file, route, enabled, incidents>>
  <2>1. cycle' = CycleOf("observe", Current, 0) /\ "observe" \in Places /\ 0 \in 0..Slice
      BY DEF Observe, Iterate, Places
  <2>2. cycle' \in Cycles /\ cycle'.pc = "observe" /\ cycle'.local = Current
      BY <1>1, <2>1, CycleTyped
  <2>3. /\ review' \in Reviews /\ review'.exposure = review.exposure
        /\ review'.known = review.known
        /\ review'.unseen = review.unseen /\ review'.lost = (review.lost \/ Drops)
      BY <1>1 DEF Observe, Reviews
  <2>4. QED
      BY <2>2, <2>3 DEF Observe, Iterate
<1>3. TypeOK'
    BY <1>1, <1>2 DEF IInv, TypeOK
<1>4. OrderBounds'
    BY <1>1, <1>2 DEF IInv, OrderBounds
<1>5. OrdersOfCycle'
    BY <1>1, <1>2 DEF OrdersOfCycle, Buying, Sizing, Selling, Hedging, Working
<1>6. NotShort'
    BY <1>1, <1>2 DEF IInv, NotShort, Sold, StraySales, Buying, Sizing, Selling, Hedging, Working
<1>7. ProgressTraded'
    BY <1>1, <1>2 DEF IInv, ProgressTraded, Within, Sold, Buying, Sizing, Selling, Hedging, Working
<1>8. ResidualKept'
    BY <1>1, <1>2 DEF IInv, ResidualKept, Recorded, Blocked, ResidualBlocks, Trading
<1>9. ExposureKnown'
  <2>1. AsReviewed' = AsReviewed
      BY <1>2 DEF AsReviewed
  <2>2. ~Drops /\ StillBlocked => StillBlocked'
      BY <1>1, <1>2 DEF StillBlocked
  <2>3. QED
      BY <1>1, <1>2, <2>1, <2>2 DEF IInv, ExposureKnown, Trading, Buying, Sizing, Selling, Hedging, Working
<1>10. QED
    BY <1>3, <1>4, <1>5, <1>6, <1>7, <1>8, <1>9 DEF IInv

LEMMA EndObserveKeeps == ASSUME IInv, EndObserve PROVE IInv'
<1> USE DEF Legs, Sides, At
<1>1. /\ cycle.pc = "observe" /\ cycle.local \in Runtimes /\ Saves(cycle.local)
    BY DEF EndObserve, IInv, TypeOK, Cycles
<1>2. /\ cycle' \in Cycles /\ cycle'.pc = "idle" /\ cycle'.local = cycle.local
      /\ runtime' = cycle.local
      /\ file' \in [Paths -> RuntimesOf(Pairs \cup {"none"})] /\ file'[path] = cycle.local
      /\ \A p \in Paths \ {path} : file'[p] = file[p]
      /\ path \in Paths
      /\ UNCHANGED <<order, traded, stray, path, route, enabled, review, incidents>>
    BY <1>1, SavesOutcome
<1>3. TypeOK'
    BY <1>1, <1>2 DEF IInv, TypeOK
<1>4. OrderBounds'
    BY <1>1, <1>2 DEF IInv, OrderBounds
<1>5. OrdersOfCycle'
    BY <1>1, <1>2 DEF OrdersOfCycle, Buying, Sizing, Selling, Hedging, Working
<1>6. NotShort'
    BY <1>1, <1>2 DEF IInv, NotShort, Sold, StraySales, Buying, Sizing, Selling, Hedging, Working
<1>7. ProgressTraded'
    BY <1>1, <1>2 DEF IInv, ProgressTraded, Within, Sold, Buying, Sizing, Selling, Hedging, Working
<1>8. ResidualKept'
    BY <1>1, <1>2 DEF IInv, ResidualKept, Recorded, Blocked, ResidualBlocks, Trading
<1>9. ExposureKnown'
  <2>1. AsReviewed' = AsReviewed
      BY <1>2 DEF AsReviewed
  <2>2. StillBlocked => StillBlocked'
      BY <1>2 DEF StillBlocked
  <2>3. QED
      BY <1>1, <1>2, <2>1, <2>2 DEF IInv, ExposureKnown, Trading, Buying, Sizing, Selling, Hedging, Working
<1>10. QED
    BY <1>3, <1>4, <1>5, <1>6, <1>7, <1>8, <1>9 DEF IInv

LEMMA CrashKeeps == ASSUME IInv, Crash PROVE IInv'
<1> USE DEF Legs, Sides, At, exchanges, config
<1>1. /\ Load \in Runtimes /\ Within(Load.completed) /\ Recorded(Load)
      /\ route = [pair |-> runtime.pair, path |-> path] /\ StillBlocked
            => Blocked(Load) /\ Load = file[path]
      /\ incidents \in 0..MaxIncidents /\ review \in Reviews
      /\ Drops \in BOOLEAN /\ Trading \in BOOLEAN /\ route.path \in Paths
    BY LoadKeeps DEF IInv, TypeOK, Routes, Drops, Blocked, Runtimes, RuntimesOf, Trading, Load, StillBlocked
<1>2. /\ cycle' \in Cycles /\ cycle'.pc = "idle" /\ cycle'.local = Load
      /\ runtime' = Load /\ path' = route.path
      /\ incidents' \in 0..MaxIncidents
      /\ review' \in Reviews /\ review'.exposure = review.exposure /\ review'.known = review.known
      /\ review'.unseen = review.unseen /\ review'.lost = (review.lost \/ Trading \/ Drops)
      /\ UNCHANGED <<order, traded, stray, file, route, enabled>>
  <2>1. cycle' = CycleOf("idle", Load, 0) /\ "idle" \in Places /\ 0 \in 0..Slice
      BY DEF Crash, Places
  <2>2. cycle' \in Cycles /\ cycle'.pc = "idle" /\ cycle'.local = Load
      BY <1>1, <2>1, CycleTyped
  <2>3. /\ review' \in Reviews /\ review'.exposure = review.exposure
        /\ review'.known = review.known
        /\ review'.unseen = review.unseen /\ review'.lost = (review.lost \/ Trading \/ Drops)
      BY <1>1 DEF Crash, Reviews
  <2>4. QED
      BY <1>1, <2>2, <2>3 DEF Crash
<1>3. TypeOK'
    BY <1>1, <1>2 DEF IInv, TypeOK
<1>4. OrderBounds'
    BY <1>1, <1>2 DEF IInv, OrderBounds
<1>5. OrdersOfCycle'
    BY <1>1, <1>2 DEF OrdersOfCycle, Buying, Sizing, Selling, Hedging, Working
<1>6. NotShort'
    BY <1>1, <1>2 DEF IInv, NotShort, Sold, StraySales, Buying, Sizing, Selling, Hedging, Working
<1>7. ProgressTraded'
    BY <1>1, <1>2 DEF IInv, ProgressTraded, Within, Sold, Buying, Sizing, Selling, Hedging, Working
<1>8. ResidualKept'
    BY <1>1, <1>2 DEF IInv, ResidualKept, Recorded, Blocked, ResidualBlocks, Trading
<1>9. ExposureKnown'
  <2>1. AsReviewed' = AsReviewed
      BY <1>2 DEF AsReviewed
  <2>2. ~Drops /\ StillBlocked => StillBlocked'
    <3>1. ~Drops /\ StillBlocked => route = [pair |-> runtime.pair, path |-> path]
        BY DEF Drops, StillBlocked
    <3>2. QED
        BY <1>1, <1>2, <3>1 DEF StillBlocked
  <2>3. QED
      BY <1>1, <1>2, <2>1, <2>2 DEF IInv, ExposureKnown, Buying, Sizing, Selling, Hedging, Working
<1>10. QED
    BY <1>3, <1>4, <1>5, <1>6, <1>7, <1>8, <1>9 DEF IInv

(* The operator publishes a runtime that is on the books and blocked by its *)
(* residual.                                                                *)
LEMMA PublishKeeps ==
    ASSUME IInv, NEW new \in Runtimes, Publishes(new), enabled' \in BOOLEAN,
           Within(new.completed), Recorded(new)
    PROVE  IInv'
<1> USE DEF Legs, Sides, At
<1>1. /\ route.path \in Paths /\ new \in RuntimesOf(Pairs \cup {"none"})
      /\ file \in [Paths -> RuntimesOf(Pairs \cup {"none"})] /\ review \in Reviews
    BY DEF IInv, TypeOK, Routes, Runtimes, RuntimesOf
<1>2. /\ runtime' = new
      /\ file' \in [Paths -> RuntimesOf(Pairs \cup {"none"})] /\ file'[route.path] = new
      /\ \A p \in Paths \ {route.path} : file'[p] = file[p]
      /\ UNCHANGED <<order, traded, stray, cycle, path, route, incidents>>
      /\ review' \in Reviews /\ review'.unseen = review.unseen
      /\ Trading => review' = review
      /\ ~Trading => review'.exposure = 0 /\ review'.known = OpenLegs
  <2>1. /\ runtime' = new /\ file' = [file EXCEPT ![route.path] = new] /\ Review
        /\ UNCHANGED <<order, traded, stray, cycle, path, route, incidents>>
      BY DEF Publishes, exchanges
  <2>2. /\ file' \in [Paths -> RuntimesOf(Pairs \cup {"none"})] /\ file'[route.path] = new
        /\ \A p \in Paths \ {route.path} : file'[p] = file[p]
      BY <1>1, <2>1
  <2>3. CASE Trading
      BY <1>1, <2>1, <2>2, <2>3 DEF Review
  <2>4. CASE ~Trading
    <3>1. OpenLegs \in SUBSET Legs
        BY DEF OpenLegs
    <3>2. review' = [review EXCEPT !.exposure = 0, !.known = OpenLegs, !.lost = FALSE]
        BY <2>1, <2>4 DEF Review
    <3>3. /\ review' \in Reviews /\ review'.unseen = review.unseen
          /\ review'.exposure = 0 /\ review'.known = OpenLegs
      <4> DEFINE open == OpenLegs
                 none == 0
                 found == FALSE
      <4>1. open \in SUBSET Legs /\ none \in Int /\ found \in BOOLEAN
          BY <3>1
      <4>2. review' = [review EXCEPT !.exposure = none, !.known = open, !.lost = found]
          BY <3>2
      <4> HIDE DEF Legs, open, none, found
      <4>3. /\ review' \in Reviews /\ review'.unseen = review.unseen
            /\ review'.exposure = none /\ review'.known = open
          BY <1>1, <4>1, <4>2 DEF Reviews
      <4>4. QED
          BY <4>3 DEF open, none
    <3>4. QED
        BY <2>1, <2>2, <2>4, <3>3
  <2>5. QED
      BY <2>3, <2>4
<1>3. TypeOK'
    BY <1>1, <1>2 DEF IInv, TypeOK
<1>4. OrderBounds'
    BY <1>1, <1>2 DEF IInv, OrderBounds
<1>5. OrdersOfCycle'
    BY <1>1, <1>2 DEF IInv, OrdersOfCycle, Fresh, Imbalance
<1>6. NotShort'
    BY <1>1, <1>2 DEF IInv, NotShort, Sold, StraySales, Imbalance, Outcome, Awaited
<1>7. ProgressTraded'
    BY <1>1, <1>2 DEF IInv, ProgressTraded, Within, Sold, Awaited
<1>8. ResidualKept'
    BY <1>1, <1>2 DEF IInv, ResidualKept, Recorded, Blocked, ResidualBlocks, Trading
<1>9. ExposureKnown'
  <2>1. CASE Trading
    <3>1. Trading' /\ review' = review /\ Halts' = Halts /\ AsReviewed' = AsReviewed
          /\ Outcome' = Outcome
        BY <1>2, <2>1 DEF Trading, Halts, Imbalance, Repaired, AsReviewed, Outcome, Awaited
    <3>2. QED
        BY <1>2, <3>1 DEF IInv, ExposureKnown
  <2>2. CASE ~Trading
    <3>1. AsReviewed'
        BY <1>2, <2>2 DEF AsReviewed, OpenLegs
    <3>2. QED
        BY <1>2, <2>2, <3>1 DEF ExposureKnown, Trading, Buying, Sizing, Selling, Hedging, Working
  <2>3. QED
      BY <2>1, <2>2
<1>10. QED
    BY <1>3, <1>4, <1>5, <1>6, <1>7, <1>8, <1>9 DEF IInv

LEMMA AcknowledgeKeeps == ASSUME IInv, Acknowledge PROVE IInv'
<1> DEFINE new == [runtime EXCEPT !.halted = FALSE, !.reason = "none", !.acknowledged = TRUE]
<1>1. runtime \in Runtimes /\ enabled \in BOOLEAN /\ Within(runtime.completed)
    BY DEF IInv, TypeOK, ProgressTraded
<1>2. /\ new \in Runtimes /\ new.completed = runtime.completed /\ new.acknowledged
    BY <1>1 DEF Runtimes, RuntimesOf
<1>3. Publishes(new) /\ enabled' \in BOOLEAN
    BY <1>1 DEF Acknowledge
<1> HIDE DEF new
<1>4. Within(new.completed) /\ Recorded(new)
    BY <1>1, <1>2 DEF Recorded, Blocked
<1>5. QED
    BY <1>2, <1>3, <1>4, PublishKeeps

LEMMA StopAndReleaseKeeps == ASSUME IInv, StopAndRelease PROVE IInv'
<1> DEFINE new == [runtime EXCEPT !.halted = FALSE, !.reason = "none",
                                  !.acknowledged = runtime.residual # 0]
<1>1. runtime \in Runtimes /\ Within(runtime.completed)
    BY DEF IInv, TypeOK, ProgressTraded
<1>2. /\ new \in Runtimes /\ new.completed = runtime.completed
      /\ new.residual = runtime.residual /\ new.acknowledged = (runtime.residual # 0)
    BY <1>1 DEF Runtimes, RuntimesOf
<1>3. Publishes(new) /\ enabled' \in BOOLEAN
    BY DEF StopAndRelease
<1> HIDE DEF new
<1>4. Within(new.completed) /\ Recorded(new)
    BY <1>1, <1>2 DEF Recorded, Blocked
<1>5. QED
    BY <1>2, <1>3, <1>4, PublishKeeps

LEMMA ResetKeeps == ASSUME IInv, Reset PROVE IInv'
<1>1. /\ route.pair \in Pairs /\ enabled \in BOOLEAN /\ traded \in [Legs -> Nat]
    BY DEF IInv, TypeOK, Routes
<1>2. /\ FreshRuntime(route.pair) \in Runtimes /\ FreshRuntime(route.pair).completed = 0
      /\ FreshRuntime(route.pair).residual = 0
    BY <1>1, FreshTyped DEF Runtimes
<1>3. Publishes(FreshRuntime(route.pair)) /\ enabled' \in BOOLEAN
    BY <1>1 DEF Reset
<1>4. Within(FreshRuntime(route.pair).completed) /\ Recorded(FreshRuntime(route.pair))
    BY <1>1, <1>2 DEF Within, Sold, Recorded, Legs
<1>5. QED
    BY <1>2, <1>3, <1>4, PublishKeeps

LEMMA UpdateKeeps == ASSUME IInv, Update PROVE IInv'
<1> USE DEF Legs, Sides, At
<1>1. incidents \in 0..MaxIncidents
    BY DEF IInv, TypeOK
<1>2. /\ UNCHANGED <<order, traded, stray, cycle, runtime, path, file, review>>
      /\ route' \in Routes /\ enabled' \in BOOLEAN /\ incidents' \in 0..MaxIncidents
    BY <1>1 DEF Update, exchanges, saved
<1>3. TypeOK'
    BY <1>1, <1>2 DEF IInv, TypeOK
<1>4. OrderBounds'
    BY <1>1, <1>2 DEF IInv, OrderBounds
<1>5. OrdersOfCycle'
    BY <1>1, <1>2 DEF IInv, OrdersOfCycle, Fresh, Imbalance
<1>6. NotShort'
    BY <1>1, <1>2 DEF IInv, NotShort, Sold, StraySales, Imbalance, Outcome, Awaited
<1>7. ProgressTraded'
    BY <1>1, <1>2 DEF IInv, ProgressTraded, Within, Sold, Awaited
<1>8. ResidualKept'
    BY <1>1, <1>2 DEF IInv, ResidualKept, Recorded, Blocked, ResidualBlocks, Trading
<1>9. ExposureKnown'
    BY <1>2 DEF IInv, ExposureKnown, StillBlocked, AsReviewed, Blocked, Trading, Outcome, Awaited,
       Halts, Repaired, Imbalance
<1>10. QED
    BY <1>3, <1>4, <1>5, <1>6, <1>7, <1>8, <1>9 DEF IInv

LEMMA IInvInit == Init => IInv
<1> SUFFICES ASSUME Init PROVE IInv
    OBVIOUS
<1> USE DEF Legs, Sides, At
<1>1. /\ route \in Routes /\ route.pair \in Pairs /\ route.path \in Paths
      /\ runtime = FreshRuntime(route.pair) /\ runtime \in Runtimes
      /\ runtime.completed = 0 /\ runtime.residual = 0
    BY FreshTyped DEF Init, Routes, Runtimes
<1>2. /\ cycle \in Cycles /\ cycle.pc = "idle" /\ cycle.local = FreshRuntime(route.pair)
  <2>1. cycle = CycleOf("idle", FreshRuntime(route.pair), 0) /\ "idle" \in Places /\ 0 \in 0..Slice
      BY DEF Init, Places
  <2>2. QED
      BY <1>1, <2>1, CycleTyped
<1>3. /\ file \in [Paths -> RuntimesOf(Pairs \cup {"none"})]
      /\ \A p \in Paths : file[p].completed = 0 /\ file[p].residual = 0
  <2>1. "none" \in Pairs \cup {"none"}
      OBVIOUS
  <2>2. /\ FreshRuntime("none") \in RuntimesOf(Pairs \cup {"none"})
        /\ FreshRuntime("none").completed = 0 /\ FreshRuntime("none").residual = 0
      BY <2>1, FreshTyped
  <2>3. QED
      BY <2>2 DEF Init
<1>4. /\ order \in [Legs -> Orders]
      /\ \A leg \in Legs : order[leg].open = 0 /\ order[leg].filled = 0
    BY NoOrdersTyped DEF Init
<1>5. /\ \A leg \in Legs : traded[leg] = 0 /\ stray[leg] = 0
      /\ traded \in [Legs -> Nat] /\ stray \in [Legs -> Nat]
      /\ review \in Reviews /\ review.exposure = 0 /\ review.unseen = 0
    BY DEF Init, Reviews
<1>6. path \in Paths /\ enabled \in BOOLEAN /\ incidents \in 0..MaxIncidents
    BY <1>1 DEF Init
<1>7. TypeOK
    BY <1>1, <1>2, <1>3, <1>4, <1>5, <1>6 DEF TypeOK
<1>8. OrderBounds /\ OrdersOfCycle
    BY <1>2, <1>4 DEF OrderBounds, OrdersOfCycle, Buying, Sizing, Selling, Hedging, Working
<1>9. NotShort /\ ProgressTraded
    BY <1>1, <1>2, <1>3, <1>4, <1>5 DEF NotShort, Sold, StraySales, ProgressTraded, Within, Buying, Sizing,
       Selling, Hedging, Working
<1>10. ResidualKept /\ ExposureKnown
    BY <1>1, <1>2, <1>3, <1>4, <1>5 DEF ResidualKept, Recorded, ResidualBlocks, Trading, ExposureKnown,
       AsReviewed, Buying, Sizing, Selling, Hedging, Working
<1>11. QED
    BY <1>7, <1>8, <1>9, <1>10 DEF IInv

LEMMA IInvNext == IInv /\ [Next]_vars => IInv'
<1> SUFFICES ASSUME IInv, [Next]_vars PROVE IInv'
    OBVIOUS
<1>1. CASE UNCHANGED vars
  <2>1. UNCHANGED <<order, traded, stray, cycle, runtime, path, file, route, enabled, review,
                    incidents>>
      BY <1>1 DEF vars, exchanges, saved, config
  <2>2. TypeOK'
      BY <2>1 DEF IInv, TypeOK
  <2>3. OrderBounds' /\ OrdersOfCycle'
      BY <2>1 DEF IInv, OrderBounds, OrdersOfCycle, Fresh, Imbalance, At
  <2>4. NotShort' /\ ProgressTraded'
      BY <2>1 DEF IInv, NotShort, ProgressTraded, Within, Sold, StraySales, Imbalance, Outcome,
         Awaited, At
  <2>5. ResidualKept'
      BY <2>1 DEF IInv, ResidualKept, Recorded, Blocked, ResidualBlocks, Trading, At
  <2>6. ExposureKnown'
    <3>1. /\ Trading' = Trading /\ Halts' = Halts /\ Outcome' = Outcome
          /\ StillBlocked' = StillBlocked /\ AsReviewed' = AsReviewed
        BY <2>1 DEF Trading, Halts, Repaired, Imbalance, Outcome, Awaited, StillBlocked, Blocked,
           AsReviewed, At
    <3>2. QED
        BY <2>1, <3>1 DEF IInv, ExposureKnown, At
  <2>7. QED
      BY <2>2, <2>3, <2>4, <2>5, <2>6 DEF IInv
<1>2. CASE CycleStep
    BY <1>2, BeginKeeps, SubmitBuyKeeps, WithdrawBuyKeeps, ReadBuyKeeps, SizeSellKeeps,
       SubmitSellKeeps, WithdrawSellKeeps, ReadBothKeeps, EndHedgeKeeps, HedgeKeeps,
       CountHedgeKeeps, EndCycleKeeps, ObserveKeeps, EndObserveKeeps DEF CycleStep
<1>3. CASE OperatorStep
    BY <1>3, AcknowledgeKeeps, StopAndReleaseKeeps, ResetKeeps, UpdateKeeps DEF OperatorStep
<1>4. QED
    BY <1>1, <1>2, <1>3, CrashKeeps, FillKeeps, FillStrayKeeps DEF Next

(* The invariant holds in every reachable state.                            *)
LEMMA Invariant == Spec => []IInv
BY IInvInit, IInvNext, PTL DEF Spec

-----------------------------------------------------------------------------
(* Every variable keeps its type: in particular the recorded progress never *)
(* exceeds the target, nor the hedge its cap and its attempts.              *)
THEOREM TypeCorrect == Spec => []TypeOK
<1>1. IInv => TypeOK
    BY DEF IInv
<1>2. QED
    BY <1>1, Invariant, PTL

(* The recorded progress was bought, and sold on the other venue or back on *)
(* the venue of the buy, for every instance: also when hedges are           *)
(* miscounted, when the process crashes and when another runtime is taken   *)
(* from a file.                                                             *)
THEOREM ProgressIsTraded == Spec => []CompletedIsTraded
<1>1. IInv => CompletedIsTraded
    BY DEF IInv, ProgressTraded, Within, Sold, CompletedIsTraded
<1>2. QED
    BY <1>1, Invariant, PTL

(* No live cycle works on a runtime with a residual exposure on record.     *)
THEOREM ResidualKeepsOut == Spec => []ResidualBlocks
<1>1. IInv => ResidualBlocks
    BY DEF IInv, ResidualKept
<1>2. QED
    BY <1>1, Invariant, PTL

(* No more of the base asset is sold than was bought and than the fills of  *)
(* hedges hide that no closed order showed.                                 *)
THEOREM NeverSoldShort == Spec => []NeverShort
<1>1. IInv => NeverShort
  <2>1. ASSUME IInv PROVE NeverShort
    <3>1. /\ traded \in [Legs -> Nat] /\ stray \in [Legs -> Nat]
          /\ order \in [Legs -> Orders] /\ review.unseen \in Nat
        BY <2>1 DEF IInv, TypeOK, Reviews
    <3>2. Sold + StraySales + order["sell"].open + order["hedge"].open
             <= traded["buy"] + review.unseen
        BY <2>1 DEF IInv, NotShort
    <3>3. QED
        BY <3>1, <3>2 DEF NeverShort, Sold, StraySales, Orders, Legs
  <2>2. QED
      BY <2>1
<1>2. QED
    BY <1>1, Invariant, PTL

(* With the hold on the market makers, which makes exceptions halt it, an   *)
(* exposure that nobody reviewed blocks the task, unless a crash came       *)
(* before its cycle was saved or an edit took the blocked runtime away.     *)
THEOREM ExposureStopsTask == ASSUME Coordinated PROVE Spec => []ExposureHalts
<1>1. IInv => ExposureHalts
    BY DEF IInv, ExposureKnown, ExposureHalts, AsReviewed, StillBlocked, Trading, At
<1>2. QED
    BY <1>1, Invariant, PTL
=============================================================================
