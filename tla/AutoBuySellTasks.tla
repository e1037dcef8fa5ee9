-------------------------- MODULE AutoBuySellTasks --------------------------
(***************************************************************************)
(* AutoBuySellTaskService (auto_buy_sell_task.py): tasks that buy or sell  *)
(* a total in slices, one slice at a time.  The loop of the leader runs    *)
(* the cycles of the tasks one after the other and without a lock, on the  *)
(* same objects that the API pauses, resumes, stops and clears meanwhile.  *)
(*                                                                         *)
(* A step is what the code does between two awaits; an await of the        *)
(* exchange may raise.  The program may crash: the tasks are then loaded   *)
(* from the file.  Time is left out: a task may be due, and an order may   *)
(* have outlived its ttl, at any moment; prices are free choices.  The     *)
(* lists of orders are exact when they are read, the list of trades may    *)
(* miss some; the amounts are those of a target in base units.             *)
(***************************************************************************)
EXTENDS Integers, FiniteSets

CONSTANTS
    Tasks,      \* task ids, each used once
    Orders,     \* order ids of the exchange
    NoTask,
    NoOrder,
    Total,      \* total_base
    Slice,      \* slice_base
    HasStart,   \* start_price is configured
    MaxFaults   \* bound on faults, for model checking

ASSUME TaskAssumption ==
    /\ NoTask \notin Tasks /\ NoOrder \notin Orders
    /\ Total \in Nat \ {0} /\ Slice \in Nat \ {0}
    /\ HasStart \in BOOLEAN /\ MaxFaults \in Nat

VARIABLES
    task,       \* AutoBuySellTaskService._tasks
    file,       \* what AutoBuySellTaskStore.save wrote last
    exch,       \* the orders at the exchange
    worker,     \* the coroutine in run_due_tasks
    stopper,    \* a coroutine in stop_task
    faults,     \* crashes, lost replies, short trade lists and missing owners
    overlapped, \* history: the tasks that a stop changed during their cycle
    lagged      \* history: the tasks for which a list of trades missed some

history == <<overlapped, lagged>>
vars == <<task, file, exch, worker, stopper, faults, history>>

-----------------------------------------------------------------------------
(* "active" stands for the statuses that no decision tells apart: running,  *)
(* waiting_for_fill, waiting_for_interval, blocked_by_risk, recovering and  *)
(* error.  A task that was never created or was removed is "none" or        *)
(* "cleared".                                                               *)
Terminal == {"complete", "stopped", "below_min_order_quote"}
Due == {"active", "waiting_for_start_price", "stopped_by_price", "stop_cancel_pending"}
Listed == Terminal \cup Due \cup {"paused"}
Targets == {"stopped", "waiting_for_start_price"}

Task == [status: Listed \cup {"none", "cleared"},
         target: Targets,            \* last_execution.target_status
         placed: SUBSET Orders,      \* placed_order_ids
         open: SUBSET Orders,        \* open_order_ids
         filled: 0..Total,           \* filled_base
         known: SUBSET (Orders \X (1..Slice)), \* known_trade_ids, a trade per unit
         finals: SUBSET Orders,      \* known_filled_order_ids
         triggered: BOOLEAN,         \* start_price_triggered
         gated: BOOLEAN]             \* start_price > 0 or last_stop_price_at is set
NoSuchTask == [status |-> "none", target |-> "stopped", placed |-> {}, open |-> {},
               filled |-> 0, known |-> {}, finals |-> {}, triggered |-> FALSE,
               gated |-> HasStart]

Order == [state: {"none", "open", "closed"}, amount: 0..Slice, fill: 0..Slice,
          task: Tasks \cup {NoTask}]
NoSuchOrder == [state |-> "none", amount |-> 0, fill |-> 0, task |-> NoTask]

Reasons == {"cycle", "retry", "stop_price", "expired"}
Worker == [pc: {"idle", "recover", "read_open", "read_history", "plan_stop", "cancel",
                "confirm", "plan", "submit", "reply"},
           task: Tasks \cup {NoTask}, why: Reasons, ids: SUBSET Orders,
           order: Orders \cup {NoOrder}, target: Targets]
Idle == [pc |-> "idle", task |-> NoTask, why |-> "cycle", ids |-> {}, order |-> NoOrder,
         target |-> "stopped"]

Stopper == [pc: {"idle", "cancel", "confirm"}, task: Tasks \cup {NoTask},
            ids: SUBSET Orders]
NoStop == [pc |-> "idle", task |-> NoTask, ids |-> {}]

TypeOK ==
    /\ task \in [Tasks -> Task]
    /\ file \in [Tasks -> Task]
    /\ exch \in [Orders -> Order]
    /\ worker \in Worker /\ (worker.pc # "idle" => worker.task \in Tasks)
    /\ stopper \in Stopper /\ (stopper.pc # "idle" => stopper.task \in Tasks)
    /\ faults \in 0..MaxFaults
    /\ overlapped \subseteq Tasks /\ lagged \subseteq Tasks

Init ==
    /\ task = [t \in Tasks |-> NoSuchTask]
    /\ file = task
    /\ exch = [o \in Orders |-> NoSuchOrder]
    /\ worker = Idle
    /\ stopper = NoStop
    /\ faults = 0
    /\ overlapped = {} /\ lagged = {}

OpenIn(ids) == {o \in ids : exch[o].state = "open"}
Lesser(a, b) == IF a <= b THEN a ELSE b

(* The units of base currency in the given amounts of the orders: a sum    *)
(* over orders is the number of their units.                                *)
Units(ids, amounts) == {unit \in ids \X (1..Slice) : unit[2] <= amounts[unit[1]]}

(* The trades of the orders at the exchange. *)
TradesOf(ids) == Units(ids, [o \in Orders |-> exch[o].fill])

-----------------------------------------------------------------------------
(* The exchange. *)

Fill(o) ==
    /\ exch[o].state = "open"
    /\ \E part \in 1..(exch[o].amount - exch[o].fill) :
           LET filled == exch[o].fill + part
           IN  exch' = [exch EXCEPT ![o].fill = filled,
                                    ![o].state = IF filled = exch[o].amount
                                                 THEN "closed" ELSE "open"]
    /\ UNCHANGED <<task, file, worker, stopper, faults, history>>

(* cancel_order_ids: each order is cancelled or its error is noted. *)
CancelOneOf(sets) ==
    \E canceled \in sets :
        exch' = [o \in Orders |-> IF o \in canceled THEN [exch[o] EXCEPT !.state = "closed"]
                                  ELSE exch[o]]

CancelOrders(ids) == CancelOneOf(SUBSET OpenIn(ids))

(* _cancel_and_confirm_order_ids: the ids that may still be open; all of    *)
(* them when the open orders cannot be read.                                *)
Remaining(ids) == {ids, OpenIn(ids)}

-----------------------------------------------------------------------------
(* The cycle of one task. *)

(* The task object of the worker changes; one that was cleared meanwhile is *)
(* no longer in the list.                                                   *)
Changed(record) ==
    [task EXCEPT ![worker.task] =
        IF @.status = "cleared" THEN [record EXCEPT !.status = "cleared"] ELSE record]

At(pc) == worker.pc = pc
GoTo(pc) == worker' = [worker EXCEPT !.pc = pc]
This == task[worker.task]

(* run_due_tasks saves, or cycles another task first. *)
PassSaves(t) ==
    \/ file' = task'
    \/ /\ \E u \in Tasks \ {t} : task[u].status \in Due
       /\ UNCHANGED file

(* The cycle is over. *)
EndsWith(record) == task' = Changed(record) /\ worker' = Idle /\ PassSaves(worker.task)

ContinuesWith(record) == task' = Changed(record) /\ UNCHANGED file

StatusAfter(status) == [This EXCEPT !.status = status]

(* While the program or the strategies are paused, a pass begins no cycle   *)
(* and changes nothing that is modelled.                                    *)
BeginCycle(t) ==
    /\ At("idle")
    /\ task[t].status \in Due
    /\ worker' = IF task[t].status = "stop_cancel_pending"
                 THEN [Idle EXCEPT !.task = t, !.why = "retry", !.ids = task[t].open,
                                   !.target = task[t].target,
                                   !.pc = IF task[t].open = {} THEN "confirm" ELSE "cancel"]
                 ELSE [Idle EXCEPT !.task = t, !.pc = "recover"]
    /\ UNCHANGED <<task, file, exch, stopper, faults, history>>

(* The exchange runtime of the owner is missing: the task is in error, also *)
(* one whose stop is pending.                                               *)
OwnerUnavailable(t) ==
    /\ At("idle")
    /\ task[t].status \in Due
    /\ faults < MaxFaults /\ faults' = faults + 1
    /\ task' = [task EXCEPT ![t].status = "active"]
    /\ PassSaves(t)
    /\ UNCHANGED <<exch, worker, stopper, history>>

(* An exception at any await. *)
Fail ==
    /\ worker.pc \notin {"idle", "cancel", "reply"}
    /\ ~(At("confirm") /\ worker.ids = {})
    /\ EndsWith(IF This.status = "stop_cancel_pending" THEN This ELSE StatusAfter("active"))
    /\ UNCHANGED <<exch, stopper, faults, history>>

(* _recover_pending_order_state: an unresolved intent of the market ends    *)
(* the cycle.                                                               *)
Recover ==
    /\ At("recover")
    /\ \/ EndsWith(StatusAfter("active"))
       \/ GoTo("read_open") /\ ContinuesWith(This)
    /\ UNCHANGED <<exch, stopper, faults, history>>

Rearmed(record) ==
    [record EXCEPT !.status = "waiting_for_start_price", !.triggered = FALSE]

(* _handle_open_orders: wait for the fill, or cancel what has expired. *)
HandleOpenOrders(record) ==
    \/ EndsWith([record EXCEPT !.status = "active"])
    \/ \E expired \in SUBSET record.open \ {{}} :
           /\ worker' = [worker EXCEPT !.pc = "cancel", !.why = "expired", !.ids = expired]
           /\ ContinuesWith(record)

(* What follows the price check: open orders, the interval, or a slice. *)
Proceed(record) ==
    IF record.open # {} THEN HandleOpenOrders(record)
    ELSE \/ EndsWith([record EXCEPT !.status = "active"])
         \/ GoTo("plan") /\ ContinuesWith(record)

(* Mutant: the fills are read, the open orders are kept. *)
KeepsOpenIds(record, open) == record

WithOpenIds(record, open) == [record EXCEPT !.open = open]

(* The orders that the lists show as final and filled. *)
FinalIn(ids) == {o \in ids : exch[o].state = "closed" /\ exch[o].fill > 0}

(* What a refresh adds for orders that are newly final: the part of their   *)
(* fills that the list of trades does not show.  The first final orders of  *)
(* a task that has counted before are only remembered.                      *)
LateFills(record, trades) ==
    IF record.finals = {} /\ record.filled > 0 THEN {}
    ELSE TradesOf(FinalIn(record.placed) \ record.finals) \ trades

(* The count with the trades in new, which is not below what the lists show *)
(* together.                                                                *)
CountedWith(record, new, trades) ==
    LET additive == record.filled + Cardinality(new) + Cardinality(LateFills(record, trades))
        shown == Cardinality(TradesOf(record.placed))
    IN  IF additive >= shown THEN additive ELSE shown

(* Mutant: the count is not cut to the total. *)
CountedUncut(record, trades) == CountedWith(record, trades \ record.known, trades)

(* Mutant: trades count again in every refresh. *)
CountedAgain(record, trades) == Lesser(Total, CountedWith(record, trades, trades))

Counted(record, trades) ==
    Lesser(Total, CountedWith(record, trades \ record.known, trades))

Refreshed(record, trades) ==
    [record EXCEPT !.filled = Counted(record, trades), !.known = @ \cup trades,
                   !.finals = @ \cup FinalIn(record.placed)]

ReadOpen ==
    /\ At("read_open")
    /\ IF This.placed = {}
       THEN /\ ContinuesWith([This EXCEPT !.filled = 0, !.open = {}])
            /\ GoTo("plan_stop")
       ELSE /\ worker' = [worker EXCEPT !.pc = "read_history", !.ids = OpenIn(This.placed)]
            /\ ContinuesWith(This)
    /\ UNCHANGED <<exch, stopper, faults, history>>

(* The list of trades shows those of the orders, or misses some that came   *)
(* late or lie beyond its limit.                                            *)
ListsTrades(trades) ==
    \/ trades = TradesOf(This.placed) /\ UNCHANGED <<faults, lagged>>
    \/ /\ trades \in SUBSET TradesOf(This.placed) \ {TradesOf(This.placed)}
       /\ faults < MaxFaults /\ faults' = faults + 1
       /\ lagged' = lagged \cup {worker.task}

(* The second half of _refresh_task_activity, the end of the cycle after an *)
(* expiry, and the check for completion.                                    *)
ReadHistory ==
    /\ At("read_history")
    /\ \E trades \in SUBSET TradesOf(This.placed) :
           /\ ListsTrades(trades)
           /\ LET record == WithOpenIds(Refreshed(This, trades), worker.ids)
              IN  CASE worker.why = "expired" -> EndsWith(record)
                    [] worker.why # "expired" /\ record.filled >= Total ->
                           EndsWith([record EXCEPT !.status = "complete"])
                    [] OTHER -> /\ worker' = [worker EXCEPT !.pc = "plan_stop", !.ids = {}]
                                /\ ContinuesWith(record)
    /\ UNCHANGED <<exch, stopper, overlapped>>

(* _stop_task_if_price_limit_reached. *)
PlanStop ==
    /\ At("plan_stop")
    /\ \/ Proceed(This)
       \/ /\ ~This.triggered /\ This.gated
          /\ EndsWith(StatusAfter("waiting_for_start_price"))
       \/ /\ (This.triggered \/ ~This.gated)
          /\ IF This.open = {}
             THEN EndsWith(Rearmed([This EXCEPT !.gated = TRUE,
                                                !.target = "waiting_for_start_price"]))
             ELSE /\ ContinuesWith([This EXCEPT !.gated = TRUE])
                  /\ worker' = [worker EXCEPT !.pc = "cancel", !.why = "stop_price",
                                              !.ids = This.open,
                                              !.target = "waiting_for_start_price"]
    /\ UNCHANGED <<exch, stopper, faults, history>>

Cancel ==
    /\ At("cancel")
    /\ CancelOrders(worker.ids)
    /\ IF worker.why = "expired"
       THEN /\ ContinuesWith([This EXCEPT !.status = "active", !.open = @ \ worker.ids,
                                           !.target = "stopped"])
            /\ worker' = [worker EXCEPT !.pc = "read_open", !.ids = {}]
       ELSE /\ GoTo("confirm")
            /\ ContinuesWith(This)
    /\ UNCHANGED <<stopper, faults, history>>

(* Mutant: an order that was asked to cancel counts as cancelled. *)
SettledUnconfirmed(remaining) == Rearmed([This EXCEPT !.open = {}])

(* Mutant: the retry gives up and leaves orders behind. *)
SettledOnce(remaining) == [This EXCEPT !.open = remaining, !.status = worker.target]

(* The end of _retry_pending_stop and of a stop by price: the target is the *)
(* one that was read before the orders were cancelled.                      *)
Settled(remaining) ==
    LET record == [This EXCEPT !.open = remaining, !.target = worker.target]
    IN  CASE remaining # {} -> [record EXCEPT !.status = "stop_cancel_pending"]
          [] remaining = {} /\ worker.target = "waiting_for_start_price" -> Rearmed(record)
          [] OTHER -> [record EXCEPT !.status = worker.target]

ConfirmOneOf(answers) ==
    /\ At("confirm")
    /\ \E remaining \in answers : EndsWith(Settled(remaining))
    /\ UNCHANGED <<exch, stopper, faults, history>>

Confirm == ConfirmOneOf(Remaining(worker.ids))

-----------------------------------------------------------------------------
(* run_cycle of slow_executor.py: a slice of what is left of the target. *)

(* Mutant: the slice is not cut to what is left of the target. *)
WholeSlice(t) == Slice

SliceAmount(t) == Lesser(Slice, Total - task[t].filled)

(* build_slow_execution_plan: what the plan may say; the price decides. *)
Planned ==
    IF This.filled >= Total THEN {"complete"}
    ELSE {"stopped_by_price", "below_min_order_quote", "planned"}
         \cup (IF HasStart /\ ~This.triggered THEN {"waiting_for_start_price"} ELSE {})

(* _task_status_from_cycle_status: every other status is an active one. *)
StatusFromCycle(status) ==
    IF status \in Terminal \cup {"waiting_for_start_price", "stopped_by_price"}
    THEN status ELSE "active"

AfterCycle(status) ==
    [This EXCEPT !.status = StatusFromCycle(status), !.target = "stopped",
                 !.triggered = @ \/ (HasStart /\ status # "waiting_for_start_price")]

(* The plan, the risk checks and the validation, up to the request. *)
Plan ==
    /\ At("plan")
    /\ \E status \in Planned :
           \/ EndsWith(AfterCycle(IF status = "planned" THEN "blocked_by_risk" ELSE status))
           \/ status = "planned" /\ GoTo("submit") /\ ContinuesWith(This)
    /\ UNCHANGED <<exch, stopper, faults, history>>

NextOrder == CHOOSE o \in Orders : exch[o].state = "none"

(* The exchange accepts the order of place_plan. *)
Submit ==
    /\ At("submit")
    /\ \E o \in Orders : exch[o].state = "none"
    /\ exch' = [exch EXCEPT ![NextOrder] =
                   [state |-> "open", amount |-> SliceAmount(worker.task), fill |-> 0,
                    task |-> worker.task]]
    /\ worker' = [worker EXCEPT !.pc = "reply", !.order = NextOrder]
    /\ UNCHANGED <<task, file, stopper, faults, history>>

RecordOrder ==
    /\ At("reply")
    /\ EndsWith([AfterCycle("placed") EXCEPT !.placed = @ \cup {worker.order},
                                             !.open = @ \cup {worker.order}])
    /\ UNCHANGED <<exch, stopper, faults, history>>

(* create_order raises although the order was accepted. *)
LoseReply ==
    /\ At("reply")
    /\ faults < MaxFaults
    /\ faults' = faults + 1
    /\ EndsWith(IF This.status = "stop_cancel_pending" THEN This ELSE StatusAfter("active"))
    /\ UNCHANGED <<exch, stopper, history>>

-----------------------------------------------------------------------------
(* The API; every change is saved with all tasks. *)

Saved(t, record) ==
    /\ task' = [task EXCEPT ![t] = record]
    /\ file' = task'

(* Tasks of one configuration are duplicates of each other. *)
Create(t) ==
    /\ task[t].status = "none"
    /\ \A u \in Tasks : task[u].status \notin Listed \ Terminal
    /\ Saved(t, [NoSuchTask EXCEPT !.status = "active"])
    /\ UNCHANGED <<exch, worker, stopper, faults, history>>

Pause(t) ==
    /\ task[t].status \in Listed \ {"stop_cancel_pending"}
    /\ Saved(t, [task[t] EXCEPT !.status = "paused"])
    /\ UNCHANGED <<exch, worker, stopper, faults, history>>

Resume(t) ==
    /\ task[t].status \in Listed \ ({"stop_cancel_pending"} \cup Terminal)
    /\ Saved(t, [task[t] EXCEPT !.status = "active"])
    /\ UNCHANGED <<exch, worker, stopper, faults, history>>

(* stop_task without orders to cancel, or with cancel_open_orders false. *)
StopNow(t) ==
    /\ task[t].status \in Listed \ Terminal
    /\ Saved(t, [task[t] EXCEPT !.status = "stopped"])
    /\ UNCHANGED <<exch, worker, stopper, faults, history>>

BeginStop(t) ==
    /\ stopper.pc = "idle"
    /\ task[t].status \in Listed \ Terminal /\ task[t].open # {}
    /\ stopper' = [pc |-> "cancel", task |-> t, ids |-> task[t].open]
    /\ UNCHANGED <<task, file, exch, worker, faults, history>>

StopCancels ==
    /\ stopper.pc = "cancel"
    /\ CancelOrders(stopper.ids)
    /\ stopper' = [stopper EXCEPT !.pc = "confirm"]
    /\ UNCHANGED <<task, file, worker, faults, history>>

(* The orders of the task that are tracked after a stop. *)
StillOpen(t, remaining) == remaining \cup (task[t].open \ stopper.ids)

EndStop ==
    /\ stopper.pc = "confirm"
    /\ stopper' = NoStop
    /\ LET t == stopper.task
       IN  IF task[t].status \notin Listed THEN UNCHANGED <<task, file>>
           ELSE \E remaining \in Remaining(stopper.ids) :
                    LET open == StillOpen(t, remaining)
                    IN  Saved(t, [task[t] EXCEPT
                            !.open = open, !.target = "stopped",
                            !.status = IF open # {} THEN "stop_cancel_pending"
                                       ELSE "stopped"])
    /\ overlapped' = overlapped \cup ({stopper.task} \cap {worker.task})
    /\ UNCHANGED <<exch, worker, faults, lagged>>

ClearTerminal ==
    /\ \E t \in Tasks : task[t].status \in Terminal
    /\ task' = [t \in Tasks |-> IF task[t].status \in Terminal
                                THEN [task[t] EXCEPT !.status = "cleared"] ELSE task[t]]
    /\ file' = task'
    /\ UNCHANGED <<exch, worker, stopper, faults, history>>

(* AutoBuySellTaskStore.load: a task that was stopped by price is complete  *)
(* or waits for its start price.                                            *)
Loaded(record) ==
    CASE record.status # "stopped_by_price" -> record
      [] record.status = "stopped_by_price" /\ record.filled >= Total ->
             [record EXCEPT !.status = "complete"]
      [] OTHER -> Rearmed([record EXCEPT !.gated = TRUE])

(* The process dies and the file is read.                                   *)
Crash ==
    /\ faults < MaxFaults
    /\ faults' = faults + 1
    /\ task' = [t \in Tasks |-> Loaded(file[t])]
    /\ worker' = Idle
    /\ stopper' = NoStop
    /\ UNCHANGED <<file, exch, history>>

-----------------------------------------------------------------------------
CycleStep ==
    \/ \E t \in Tasks : BeginCycle(t) \/ OwnerUnavailable(t)
    \/ Fail \/ Recover \/ ReadOpen \/ ReadHistory \/ PlanStop \/ Cancel \/ Confirm
    \/ Plan \/ Submit \/ RecordOrder \/ LoseReply

ApiStep ==
    \/ \E t \in Tasks : Create(t) \/ Pause(t) \/ Resume(t) \/ StopNow(t) \/ BeginStop(t)
    \/ StopCancels \/ EndStop \/ ClearTerminal

Next ==
    \/ \E o \in Orders : Fill(o)
    \/ CycleStep \/ ApiStep \/ Crash

Spec == Init /\ [][Next]_vars

(* The loop cycles every task again and again: neither the program nor the  *)
(* strategies are paused for ever.  A cancellation and a read of the open   *)
(* orders that are tried for ever succeed at last.                          *)
Fairness ==
    /\ WF_vars(CycleStep)
    /\ \A t \in Tasks : SF_vars(BeginCycle(t))
    /\ SF_vars(Cancel /\ CancelOneOf({OpenIn(worker.ids)}))
    /\ SF_vars(ConfirmOneOf({OpenIn(worker.ids)}))

FairSpec == Spec /\ Fairness

-----------------------------------------------------------------------------
(* Properties. *)

(* A slice is sent only when every order that the task has recorded is      *)
(* closed at the exchange, however failed cancellations and reads, stops,   *)
(* restarts and expiries interleave with the cycles: two slices never work  *)
(* at once.                                                                 *)
NoOverlappingSlices ==
    [][\A o \in Orders : exch[o].state = "none" /\ exch'[o].state # "none" =>
           OpenIn(task[exch'[o].task].placed) = {}]_vars

(* What the recorded orders have traded and can still trade.                *)
Exposure(t) ==
    Cardinality(Units(task[t].placed,
        [o \in Orders |-> IF exch[o].state = "open" THEN exch[o].amount ELSE exch[o].fill]))

(* README.md:344, "stops when either cap is reached": the recorded orders   *)
(* stay within the total, with partial fills, failed cancellations and      *)
(* restarts, unless a stop took effect in the middle of a cycle.            *)
CapRespected == \A t \in Tasks \ overlapped : Exposure(t) <= Total

(* The same without the exception.                                          *)
CapAlwaysRespected == \A t \in Tasks : Exposure(t) <= Total

(* A task that is complete has traded its total and left nothing open, with *)
(* the same exception, unless a list of trades missed some: what it shows   *)
(* late is counted on top of the fill of its order.                         *)
CompleteIsDone ==
    \A t \in Tasks \ (overlapped \cup lagged) : task[t].status = "complete" =>
        Exposure(t) = Total /\ OpenIn(task[t].placed) = {}

(* A task that waits for its start price, also after a stop by price whose  *)
(* cancellation had to be retried, has no recorded order at the exchange.   *)
(* (Without a start price a task trades on after its first stop, and the    *)
(* second one makes it wait without cancelling its orders.)                 *)
WaitingIsFlat ==
    \A t \in Tasks :
        HasStart /\ task[t].status = "waiting_for_start_price" =>
            OpenIn(task[t].placed) = {}

(* A stop that waits for its cancellations ends, and it ends only when the  *)
(* orders it waits for are closed, across failed cancellations, failed      *)
(* reads and restarts.  It may be lost in the cycle that it interrupted, by *)
(* a stop without cancellation, when the runtime of the owner is missing,   *)
(* and in a crash before it is saved.                                       *)
StopPending(t) == task[t].status = "stop_cancel_pending"

StopKept ==
    [][\A t \in Tasks : StopPending(t) /\ ~StopPending(t)' =>
           \/ OpenIn(task[t].open) = {}
           \/ t \in overlapped \/ StopNow(t) \/ OwnerUnavailable(t) \/ Crash]_vars

StopSettles == StopKept /\ \A t \in Tasks : StopPending(t) ~> ~StopPending(t)
=============================================================================
