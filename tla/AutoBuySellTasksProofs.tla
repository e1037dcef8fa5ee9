------------------------ MODULE AutoBuySellTasksProofs ------------------------
(***************************************************************************)
(* Proofs about AutoBuySellTasks for all targets, slices, tasks and        *)
(* orders: slices do not overlap, a task that waits for its start price    *)
(* has nothing at the exchange, the recorded orders stay within the total, *)
(* and a task that is complete has traded it.                              *)
(*                                                                         *)
(* The first invariant, IInv, says which orders are open.  LiveOf is what  *)
(* a record still has at the exchange; Kept says what holds of every       *)
(* record in memory and in the file, Sound what the coroutine in           *)
(* run_due_tasks knows of the orders of its task at each place.            *)
(*                                                                         *)
(* The second one, Money, rests on the first and says how much they trade. *)
(* Sums over orders are cardinalities of sets of units.  A count is never  *)
(* below what the lists show, so it bounds the next slice also when trades *)
(* were counted twice; it is not above the trades that are known while     *)
(* every list of trades was whole.                                         *)
(***************************************************************************)
EXTENDS AutoBuySellTasks, FiniteSetTheorems, TLAPS

Waiting == "waiting_for_start_price"
Pending == "stop_cancel_pending"
ByPrice == "stopped_by_price"

TaskShaped(r) == r \in Task /\ IsFiniteSet(r.placed)

OrdersShaped(orders) == orders \in [Orders -> Order]

Statuses == Listed \cup {"none", "cleared"}

LiveOf(r, orders) == {o \in r.placed : orders[o].state = "open"}

(* An order is placed once and closed once. *)
Ages(orders, next) ==
    \A o \in Orders : orders[o].state # "none" =>
        next[o].state # "none" /\ (next[o].state = "open" => orders[o].state = "open")

Kept(r, orders) ==
    /\ TaskShaped(r)
    /\ \A o \in r.placed : orders[o].state # "none"
    /\ HasStart /\ (~r.triggered \/ r.status \in {Waiting, ByPrice}) => LiveOf(r, orders) = {}
    /\ r.status = Pending /\ r.target = Waiting => LiveOf(r, orders) \subseteq r.open

Sound(w, r, orders) ==
    /\ w.pc = "read_history" => LiveOf(r, orders) \subseteq w.ids
    /\ w.pc = "plan_stop" => LiveOf(r, orders) \subseteq r.open
    /\ w.pc \in {"plan", "submit"} => LiveOf(r, orders) = {}
    /\ w.pc \in {"cancel", "confirm"} => w.why # "cycle"
    /\ w.pc = "confirm" => w.why # "expired"
    /\ w.pc \in {"cancel", "confirm"} /\ w.why # "expired" /\ w.target = Waiting =>
           LiveOf(r, orders) \subseteq w.ids
    /\ w.pc = "reply" => w.order \in Orders /\ orders[w.order].state # "none"

(* The tasks in memory and in the file. *)
Table(book) == book = [t \in Tasks |-> book[t]]
Book == Table(task) /\ Table(file)
Coroutines ==
    /\ worker \in Worker /\ (worker.pc # "idle" => worker.task \in Tasks)
    /\ stopper \in Stopper /\ (stopper.pc # "idle" => stopper.task \in Tasks)

IInv ==
    /\ Book /\ OrdersShaped(exch) /\ Coroutines
    /\ \A t \in Tasks : Kept(task[t], exch) /\ Kept(file[t], exch)
    /\ worker.pc # "idle" => Sound(worker, task[worker.task], exch)

-----------------------------------------------------------------------------
LEMMA AgedKeeps ==
    ASSUME NEW r, NEW a, NEW b, Kept(r, a), Ages(a, b)
    PROVE  Kept(r, b) /\ LiveOf(r, b) \subseteq LiveOf(r, a)
<1>1. \A o \in r.placed : o \in Orders /\ a[o].state # "none"
    BY DEF Kept, TaskShaped, Task
<1>2. LiveOf(r, b) \subseteq LiveOf(r, a)
    BY <1>1 DEF Ages, LiveOf
<1>3. QED
    BY <1>1, <1>2 DEF Kept, Ages

LEMMA AgedSound ==
    ASSUME NEW w, NEW r, NEW a, NEW b, Kept(r, a), Ages(a, b), Sound(w, r, a)
    PROVE  Sound(w, r, b)
BY AgedKeeps DEF Sound, Ages

(* A record that keeps its orders, its target and its trigger. *)
LEMMA StatusKeeps ==
    ASSUME NEW r, NEW orders, Kept(r, orders), NEW s \in Statuses,
           HasStart /\ s \in {Waiting, ByPrice} => LiveOf(r, orders) = {},
           s = Pending => r.status = Pending
    PROVE  /\ Kept([r EXCEPT !.status = s], orders)
           /\ [r EXCEPT !.status = s].status = s
           /\ [r EXCEPT !.status = s].placed = r.placed
           /\ [r EXCEPT !.status = s].open = r.open
           /\ [r EXCEPT !.status = s].target = r.target
BY DEF Kept, TaskShaped, LiveOf, Task, Statuses

(* The names of the statuses that the proofs mention. *)
LEMMA StatusNames ==
    /\ {"active", "paused", "stopped", "complete", "cleared", Waiting, Pending, ByPrice}
           \subseteq Statuses
    /\ Targets \subseteq Statuses /\ Terminal \subseteq Statuses
BY DEF Statuses, Listed, Terminal, Due, Targets, Waiting, Pending, ByPrice

LEMMA Zero == 0 \in 0..Total /\ 0 \in 0..Slice
BY TaskAssumption

LEMMA OpenKeeps ==
    ASSUME NEW r, NEW orders, Kept(r, orders), NEW ids \in SUBSET Orders,
           LiveOf(r, orders) \subseteq ids
    PROVE  /\ Kept([r EXCEPT !.open = ids], orders)
           /\ [r EXCEPT !.open = ids].placed = r.placed
           /\ [r EXCEPT !.open = ids].open = ids
BY DEF Kept, TaskShaped, LiveOf, Task

LEMMA EmptyKeeps ==
    ASSUME NEW r, NEW orders, Kept(r, orders), r.placed = {}, NEW n \in 0..Total
    PROVE  /\ Kept([r EXCEPT !.filled = n, !.open = {}], orders)
           /\ LiveOf([r EXCEPT !.filled = n, !.open = {}], orders) = {}
BY DEF Kept, TaskShaped, LiveOf, Task

LEMMA GatedKeeps ==
    ASSUME NEW r, NEW orders, Kept(r, orders), NEW b \in BOOLEAN
    PROVE  /\ Kept([r EXCEPT !.gated = b], orders)
           /\ [r EXCEPT !.gated = b].placed = r.placed
           /\ [r EXCEPT !.gated = b].open = r.open
BY DEF Kept, TaskShaped, LiveOf, Task

LEMMA TargetKeeps ==
    ASSUME NEW r, NEW orders, Kept(r, orders), LiveOf(r, orders) = {}, NEW b \in BOOLEAN
    PROVE  /\ Kept([r EXCEPT !.gated = b, !.target = Waiting], orders)
           /\ LiveOf([r EXCEPT !.gated = b, !.target = Waiting], orders) = {}
<1>1. Waiting \in Targets
    BY DEF Waiting, Targets
<1>2. QED
    BY <1>1 DEF Kept, TaskShaped, LiveOf, Task

LEMMA RearmKeeps ==
    ASSUME NEW r, NEW orders, Kept(r, orders), HasStart => LiveOf(r, orders) = {}
    PROVE  Kept([r EXCEPT !.status = Waiting, !.triggered = FALSE], orders)
<1> DEFINE armed == FALSE
<1>1. Waiting \in Statuses /\ Waiting # Pending /\ armed \in BOOLEAN
    BY StatusNames DEF Waiting, Pending, ByPrice
<1> HIDE DEF armed
<1>2. Kept([r EXCEPT !.status = Waiting, !.triggered = armed], orders)
  <2> DEFINE copy == [r EXCEPT !.status = Waiting, !.triggered = armed]
  <2>1. r \in Task
      BY DEF Kept, TaskShaped
  <2>2. copy \in Task /\ copy.placed = r.placed /\ copy.status = Waiting
      BY <1>1, <2>1 DEF Task, Statuses
  <2> HIDE DEF copy
  <2>3. TaskShaped(copy) /\ LiveOf(copy, orders) = LiveOf(r, orders)
      BY <2>2 DEF Kept, TaskShaped, LiveOf
  <2>4. Kept(copy, orders)
      BY <1>1, <2>2, <2>3 DEF Kept
  <2>5. QED
      BY <2>4 DEF copy
<1>3. QED
    BY <1>2 DEF armed

LEMMA PendingKeeps ==
    ASSUME NEW r, NEW orders, Kept(r, orders),
           r.target = Waiting => LiveOf(r, orders) \subseteq r.open
    PROVE  Kept([r EXCEPT !.status = Pending], orders)
<1>1. Pending \in Statuses /\ Pending \notin {Waiting, ByPrice}
    BY StatusNames DEF Waiting, Pending, ByPrice
<1>2. QED
    BY <1>1 DEF Kept, TaskShaped, LiveOf, Task, Statuses

LEMMA SoundCopies ==
    ASSUME NEW w, NEW r, NEW copy, NEW orders, Sound(w, r, orders),
           copy.placed = r.placed, copy.open = r.open
    PROVE  Sound(w, copy, orders)
BY DEF Sound, LiveOf

(* The exchange moves on. *)
LEMMA ExchangeKeeps ==
    ASSUME IInv, OrdersShaped(exch'), Ages(exch, exch'), UNCHANGED <<task, file>>
    PROVE  /\ \A t \in Tasks : Kept(task[t], exch)' /\ Kept(file[t], exch)'
           /\ \A t \in Tasks : LiveOf(task[t], exch)' \subseteq LiveOf(task[t], exch)
           /\ worker.pc # "idle" /\ UNCHANGED worker => Sound(worker, task[worker.task], exch)'
<1>1. \A t \in Tasks : /\ Kept(task[t], exch') /\ Kept(file[t], exch')
                      /\ LiveOf(task[t], exch') \subseteq LiveOf(task[t], exch)
    BY AgedKeeps DEF IInv
<1>2. ASSUME worker.pc # "idle" PROVE Sound(worker, task[worker.task], exch')
    BY <1>2, AgedSound DEF IInv, Coroutines
<1>3. QED
    BY <1>1, <1>2

(* The worker writes the record of its task. *)
LEMMA ChangedKeeps ==
    ASSUME IInv, worker.pc # "idle", NEW record, Kept(record, exch), task' = Changed(record)
    PROVE  /\ Table(task')
           /\ \A t \in Tasks : Kept(task'[t], exch)
           /\ task'[worker.task].placed = record.placed
           /\ task'[worker.task].open = record.open
<1> DEFINE cleared == [record EXCEPT !.status = "cleared"]
<1>1. Kept(cleared, exch) /\ cleared.placed = record.placed /\ cleared.open = record.open
    BY StatusNames, StatusKeeps DEF Waiting, Pending, ByPrice
<1>2. worker.task \in Tasks /\ DOMAIN task = Tasks
    BY DEF IInv, Book, Table, Coroutines
<1>3. Table(task')
    BY <1>2 DEF Changed, Table
<1>4. task'[worker.task] \in {record, cleared}
    BY <1>2 DEF Changed
<1>5. \A t \in Tasks \ {worker.task} : task'[t] = task[t]
    BY <1>2 DEF Changed
<1>6. QED
    BY <1>1, <1>2, <1>3, <1>4, <1>5 DEF IInv

LEMMA IdleTyped == Idle \in Worker /\ Idle.pc = "idle"
BY DEF Idle, Worker, Reasons, Targets

LEMMA EndsKeep ==
    ASSUME IInv, worker.pc # "idle", NEW record, Kept(record, exch), EndsWith(record),
           UNCHANGED <<exch, stopper>>
    PROVE  IInv'
<1>1. Table(task') /\ \A t \in Tasks : Kept(task'[t], exch)
    BY ChangedKeeps DEF EndsWith
<1>2. worker' \in Worker /\ worker'.pc = "idle"
    BY IdleTyped DEF EndsWith
<1>3. file' = task' \/ file' = file
    BY DEF EndsWith, PassSaves
<1>4. Table(file') /\ \A t \in Tasks : Kept(file'[t], exch)
    BY <1>1, <1>3 DEF IInv, Book, Table
<1>5. QED
    BY <1>1, <1>2, <1>4 DEF IInv, Book, Table, Coroutines

LEMMA SameOrders ==
    ASSUME IInv, UNCHANGED exch PROVE OrdersShaped(exch') /\ Ages(exch, exch')
BY DEF IInv, Ages

LEMMA ContinuesKeep ==
    ASSUME IInv, worker.pc # "idle", NEW record, Kept(record, exch), ContinuesWith(record),
           worker' \in Worker, worker'.task = worker.task, Sound(worker', record, exch),
           OrdersShaped(exch'), Ages(exch, exch'), UNCHANGED stopper
    PROVE  IInv'
<1>1. /\ Table(task') /\ \A t \in Tasks : Kept(task'[t], exch)
      /\ task'[worker.task].placed = record.placed
      /\ task'[worker.task].open = record.open
    BY ChangedKeeps DEF ContinuesWith
<1>2. worker.task \in Tasks
    BY DEF IInv, Coroutines
<1>3. Sound(worker', task'[worker.task], exch')
    BY <1>1, <1>2, SoundCopies, AgedSound
<1>4. \A t \in Tasks : Kept(task'[t], exch') /\ Kept(file'[t], exch')
    BY <1>1, AgedKeeps DEF IInv, ContinuesWith
<1>5. Coroutines'
    BY DEF IInv, Coroutines
<1>6. QED
    BY <1>1, <1>3, <1>4, <1>5 DEF IInv, Book, Table, ContinuesWith

-----------------------------------------------------------------------------
(* The cycle. *)

LEMMA ThisKept ==
    ASSUME IInv, worker.pc # "idle"
    PROVE  /\ worker.task \in Tasks /\ worker \in Worker
           /\ Kept(This, exch) /\ Sound(worker, This, exch)
BY DEF IInv, Coroutines, This

LEMMA GoToTyped ==
    ASSUME worker \in Worker, NEW pc, GoTo(pc),
           pc \in {"read_open", "plan_stop", "confirm", "plan", "submit"}
    PROVE  /\ worker' \in Worker /\ worker'.pc = pc
           /\ worker'.task = worker.task /\ worker'.ids = worker.ids
           /\ worker'.why = worker.why /\ worker'.order = worker.order
           /\ worker'.target = worker.target
BY DEF GoTo, Worker

LEMMA StatusAfterKept ==
    ASSUME NEW s \in Statuses, Kept(This, exch), s # Pending,
           HasStart /\ s \in {Waiting, ByPrice} => LiveOf(This, exch) = {}
    PROVE  Kept(StatusAfter(s), exch)
BY StatusNames, StatusKeeps DEF StatusAfter

LEMMA BeginCycleKeeps == ASSUME IInv, NEW t \in Tasks, BeginCycle(t) PROVE IInv'
<1>1. Kept(task[t], exch) /\ task[t].open \subseteq Orders /\ task[t].target \in Targets
    BY DEF IInv, Kept, TaskShaped, Task
<1>2. worker' \in Worker /\ worker'.task = t
    BY <1>1, IdleTyped DEF BeginCycle, Idle, Worker, Reasons
<1>3. Sound(worker', task[t], exch)
  <2>1. CASE task[t].status = "stop_cancel_pending"
    <3>1. worker'.pc \in {"cancel", "confirm"} /\ worker'.why = "retry"
          /\ worker'.ids = task[t].open /\ worker'.target = task[t].target
        BY <2>1 DEF BeginCycle, Idle
    <3>2. QED
        BY <1>1, <2>1, <3>1 DEF Sound, Kept, Waiting, Pending, ByPrice
  <2>2. CASE task[t].status # "stop_cancel_pending"
    <3>1. worker'.pc = "recover"
        BY <2>2 DEF BeginCycle, Idle
    <3>2. QED
        BY <3>1 DEF Sound
  <2>3. QED
      BY <2>1, <2>2
<1>4. QED
    BY <1>2, <1>3 DEF BeginCycle, IInv, Book, Table, Coroutines

LEMMA OwnerUnavailableKeeps ==
    ASSUME IInv, NEW t \in Tasks, OwnerUnavailable(t) PROVE IInv'
<1> DEFINE record == [task[t] EXCEPT !.status = "active"]
<1>1. Kept(task[t], exch)
    BY DEF IInv
<1>2. Kept(record, exch)
    BY <1>1, StatusNames, StatusKeeps DEF Waiting, Pending, ByPrice
<1>3. task' = [task EXCEPT ![t] = record]
    BY DEF OwnerUnavailable, IInv, Book, Table
<1> HIDE DEF record
<1>4. Table(task') /\ \A u \in Tasks : Kept(task'[u], exch)
    BY <1>2, <1>3 DEF IInv, Book, Table
<1>5. Table(file') /\ \A u \in Tasks : Kept(file'[u], exch)
    BY <1>4 DEF OwnerUnavailable, PassSaves, IInv, Book, Table
<1>6. worker.pc = "idle" /\ UNCHANGED <<exch, worker, stopper>>
    BY DEF OwnerUnavailable, At
<1>7. QED
    BY <1>4, <1>5, <1>6 DEF IInv, Book, Coroutines

LEMMA FailKeeps == ASSUME IInv, Fail \/ LoseReply PROVE IInv'
<1>1. worker.pc # "idle"
    BY DEF Fail, LoseReply, At
<1>2. Kept(This, exch) /\ Kept(StatusAfter("active"), exch)
    BY <1>1, ThisKept, StatusNames, StatusAfterKept DEF Waiting, Pending, ByPrice
<1>3. QED
    BY <1>1, <1>2, EndsKeep DEF Fail, LoseReply

LEMMA RecoverKeeps == ASSUME IInv, Recover PROVE IInv'
<1>1. worker.pc # "idle"
    BY DEF Recover, At
<1>2. CASE EndsWith(StatusAfter("active"))
  <2>1. Kept(StatusAfter("active"), exch)
      BY <1>1, ThisKept, StatusNames, StatusAfterKept DEF Waiting, Pending, ByPrice
  <2>2. QED
      BY <1>1, <1>2, <2>1, EndsKeep DEF Recover
<1>3. CASE GoTo("read_open") /\ ContinuesWith(This)
  <2>1. /\ Kept(This, exch) /\ worker' \in Worker /\ worker'.task = worker.task
        /\ worker'.pc = "read_open"
      BY <1>1, <1>3, ThisKept, GoToTyped
  <2>2. Sound(worker', This, exch)
      BY <2>1 DEF Sound
  <2>3. QED
      BY <1>1, <1>3, <2>1, <2>2, SameOrders, ContinuesKeep DEF Recover
<1>4. QED
    BY <1>2, <1>3 DEF Recover

LEMMA ReadOpenKeeps == ASSUME IInv, ReadOpen PROVE IInv'
<1>1. worker.pc # "idle" /\ worker \in Worker /\ Kept(This, exch)
    BY ThisKept DEF ReadOpen, At
<1>2. CASE This.placed = {}
  <2> DEFINE record == [This EXCEPT !.filled = 0, !.open = {}]
  <2>1. Kept(record, exch) /\ LiveOf(record, exch) = {}
      BY <1>1, <1>2, Zero, EmptyKeeps
  <2>2. ContinuesWith(record) /\ GoTo("plan_stop")
      BY <1>2 DEF ReadOpen
  <2>3. Sound(worker', record, exch)
      BY <1>1, <2>1, <2>2, GoToTyped DEF Sound
  <2>4. QED
      BY <1>1, <2>1, <2>2, <2>3, GoToTyped, SameOrders, ContinuesKeep DEF ReadOpen
<1>3. CASE This.placed # {}
  <2>1. /\ worker' = [worker EXCEPT !.pc = "read_history", !.ids = OpenIn(This.placed)]
        /\ ContinuesWith(This)
      BY <1>3 DEF ReadOpen
  <2>2. OpenIn(This.placed) = LiveOf(This, exch) /\ OpenIn(This.placed) \subseteq Orders
      BY <1>1 DEF OpenIn, LiveOf, Kept, TaskShaped, Task
  <2>3. /\ worker' \in Worker /\ worker'.pc = "read_history" /\ worker'.task = worker.task
        /\ worker'.ids = LiveOf(This, exch)
      BY <1>1, <2>1, <2>2 DEF Worker
  <2>4. Sound(worker', This, exch)
      BY <2>3 DEF Sound
  <2>5. QED
      BY <1>1, <2>1, <2>3, <2>4, SameOrders, ContinuesKeep DEF ReadOpen
<1>4. QED
    BY <1>2, <1>3

(* The units of finitely many orders are finitely many. *)
LEMMA UnitsFinite ==
    ASSUME NEW ids, IsFiniteSet(ids), NEW amounts
    PROVE  IsFiniteSet(Units(ids, amounts)) /\ Cardinality(Units(ids, amounts)) \in Nat
<1>1. IsFiniteSet(1..Slice)
    BY TaskAssumption, FS_Interval
<1>2. IsFiniteSet(ids \X (1..Slice))
    BY <1>1, FS_Product
<1>3. Units(ids, amounts) \in SUBSET (ids \X (1..Slice))
    BY DEF Units
<1>4. QED
    BY <1>2, <1>3, FS_Subset, FS_CardinalityType

(* Trades of the orders of a task. *)
LEMMA TradesTyped ==
    ASSUME NEW ids, NEW trades \in SUBSET TradesOf(ids), IsFiniteSet(ids)
    PROVE  /\ IsFiniteSet(TradesOf(ids)) /\ Cardinality(TradesOf(ids)) \in Nat
           /\ IsFiniteSet(trades) /\ Cardinality(trades) \in Nat
           /\ trades \subseteq ids \X (1..Slice)
<1>1. IsFiniteSet(TradesOf(ids)) /\ Cardinality(TradesOf(ids)) \in Nat
    BY UnitsFinite DEF TradesOf
<1>2. IsFiniteSet(trades) /\ Cardinality(trades) \in Nat
    BY <1>1, FS_Subset, FS_CardinalityType
<1>3. trades \subseteq ids \X (1..Slice)
    BY DEF TradesOf, Units
<1>4. QED
    BY <1>1, <1>2, <1>3

LEMMA CountedTyped ==
    ASSUME NEW r, TaskShaped(r), NEW trades \in SUBSET TradesOf(r.placed)
    PROVE  /\ Counted(r, trades) \in 0..Total
           /\ Cardinality(trades \ r.known) \in Nat
           /\ Cardinality(LateFills(r, trades)) \in Nat
<1>1. IsFiniteSet(r.placed) /\ r.filled \in 0..Total
    BY DEF TaskShaped, Task
<1>2. Cardinality(TradesOf(r.placed)) \in Nat /\ IsFiniteSet(trades)
    BY <1>1, TradesTyped
<1>3. Cardinality(trades \ r.known) \in Nat
    BY <1>2, FS_Difference, FS_CardinalityType
<1>4. Cardinality(LateFills(r, trades)) \in Nat
  <2> DEFINE ids == FinalIn(r.placed) \ r.finals
  <2>1. IsFiniteSet(ids)
      BY <1>1, FS_Subset DEF FinalIn
  <2>2. IsFiniteSet(TradesOf(ids))
      BY <2>1, TradesTyped
  <2>3. LateFills(r, trades) \in {{}, TradesOf(ids) \ trades}
      BY DEF LateFills
  <2> HIDE DEF ids
  <2>4. QED
      BY <2>2, <2>3, FS_Difference, FS_EmptySet, FS_CardinalityType
<1>5. CountedWith(r, trades \ r.known, trades) \in Nat
  <2> DEFINE additive == r.filled + Cardinality(trades \ r.known)
                                  + Cardinality(LateFills(r, trades))
  <2>1. additive \in Nat
      BY <1>1, <1>3, <1>4, TaskAssumption
  <2> HIDE DEF additive
  <2>2. CountedWith(r, trades \ r.known, trades) \in {additive, Cardinality(TradesOf(r.placed))}
      BY DEF CountedWith, additive
  <2>3. QED
      BY <1>2, <2>1, <2>2
<1>6. QED
    BY <1>3, <1>4, <1>5, TaskAssumption DEF Counted, Lesser

LEMMA RefreshedKeeps ==
    ASSUME NEW r, NEW orders, Kept(r, orders), NEW trades \in SUBSET TradesOf(r.placed)
    PROVE  /\ Kept(Refreshed(r, trades), orders)
           /\ Refreshed(r, trades).placed = r.placed
<1> DEFINE count == Counted(r, trades)
           seen == r.known \cup trades
           done == r.finals \cup FinalIn(r.placed)
<1>1. TaskShaped(r) /\ r.placed \subseteq Orders
    BY DEF Kept, TaskShaped, Task
<1>2. count \in 0..Total /\ trades \subseteq Orders \X (1..Slice)
  <2>1. count \in 0..Total
      BY <1>1, CountedTyped
  <2>2. trades \subseteq r.placed \X (1..Slice)
      BY <1>1, TradesTyped DEF TaskShaped
  <2>3. QED
      BY <1>1, <2>1, <2>2
<1>3. seen \in SUBSET (Orders \X (1..Slice)) /\ done \in SUBSET Orders
    BY <1>1, <1>2 DEF TaskShaped, Task, FinalIn
<1>4. Refreshed(r, trades) = [r EXCEPT !.filled = count, !.known = seen, !.finals = done]
    BY <1>1 DEF Refreshed, TaskShaped, Task
<1> DEFINE record == Refreshed(r, trades)
<1> HIDE DEF count, seen, done
<1>5. /\ record \in Task /\ record.placed = r.placed /\ record.open = r.open
      /\ record.status = r.status /\ record.target = r.target
      /\ record.triggered = r.triggered
    BY <1>1, <1>2, <1>3, <1>4 DEF TaskShaped, Task
<1> HIDE DEF record
<1>6. TaskShaped(record) /\ LiveOf(record, orders) = LiveOf(r, orders)
    BY <1>1, <1>5 DEF TaskShaped, LiveOf
<1>7. Kept(record, orders)
    BY <1>5, <1>6 DEF Kept
<1>8. QED
    BY <1>5, <1>7 DEF record

LEMMA ReadHistoryKeeps == ASSUME IInv, ReadHistory PROVE IInv'
<1>1. /\ worker.pc = "read_history" /\ worker \in Worker /\ Kept(This, exch)
      /\ LiveOf(This, exch) \subseteq worker.ids
    BY ThisKept DEF ReadHistory, At, Sound
<1>2. PICK trades \in SUBSET TradesOf(This.placed) :
          LET record == WithOpenIds(Refreshed(This, trades), worker.ids)
          IN  \/ EndsWith(record)
              \/ EndsWith([record EXCEPT !.status = "complete"])
              \/ /\ worker' = [worker EXCEPT !.pc = "plan_stop", !.ids = {}]
                 /\ ContinuesWith(record)
    BY DEF ReadHistory
<1> DEFINE counted == Refreshed(This, trades)
           record == WithOpenIds(counted, worker.ids)
           complete == [record EXCEPT !.status = "complete"]
<1>3. Kept(counted, exch) /\ counted.placed = This.placed
    BY <1>1, RefreshedKeeps
<1> HIDE DEF counted
<1>4. /\ Kept(record, exch) /\ record.placed = This.placed /\ record.open = worker.ids
  <2>1. worker.ids \in SUBSET Orders /\ LiveOf(counted, exch) \subseteq worker.ids
      BY <1>1, <1>3 DEF LiveOf, Worker
  <2>2. record = [counted EXCEPT !.open = worker.ids]
      BY DEF WithOpenIds
  <2>3. /\ Kept([counted EXCEPT !.open = worker.ids], exch)
        /\ [counted EXCEPT !.open = worker.ids].placed = counted.placed
        /\ [counted EXCEPT !.open = worker.ids].open = worker.ids
      BY <1>3, <2>1, OpenKeeps
  <2> HIDE DEF record
  <2>4. QED
      BY <1>3, <2>2, <2>3
<1>5. Kept(complete, exch)
    BY <1>4, StatusNames, StatusKeeps DEF Waiting, Pending, ByPrice
<1>6. \/ EndsWith(record) \/ EndsWith(complete)
      \/ /\ worker' = [worker EXCEPT !.pc = "plan_stop", !.ids = {}]
         /\ ContinuesWith(record)
    BY <1>2 DEF counted
<1> HIDE DEF record, complete
<1>7. CASE EndsWith(record) \/ EndsWith(complete)
    BY <1>1, <1>4, <1>5, <1>7, EndsKeep DEF ReadHistory
<1>8. CASE /\ worker' = [worker EXCEPT !.pc = "plan_stop", !.ids = {}]
           /\ ContinuesWith(record)
  <2>1. worker' \in Worker /\ worker'.task = worker.task /\ worker'.pc = "plan_stop"
      BY <1>1, <1>8 DEF Worker
  <2>2. LiveOf(record, exch) \subseteq record.open
      BY <1>1, <1>4 DEF LiveOf
  <2>3. Sound(worker', record, exch)
      BY <2>1, <2>2 DEF Sound
  <2>4. QED
      BY <1>1, <1>4, <1>8, <2>1, <2>3, SameOrders, ContinuesKeep DEF ReadHistory
<1>9. QED
    BY <1>6, <1>7, <1>8

LEMMA PlanStopKeeps == ASSUME IInv, PlanStop PROVE IInv'
<1>1. /\ worker.pc = "plan_stop" /\ worker \in Worker /\ Kept(This, exch)
      /\ LiveOf(This, exch) \subseteq This.open /\ This.open \subseteq Orders
    BY ThisKept DEF PlanStop, At, Sound, Kept, TaskShaped, Task
<1>2. ASSUME NEW why \in {"expired", "stop_price"}, NEW ids \in SUBSET This.open,
             NEW target \in Targets,
             worker' = [worker EXCEPT !.pc = "cancel", !.why = why, !.ids = ids,
                                      !.target = target],
             why = "stop_price" => ids = This.open
      PROVE  /\ worker' \in Worker /\ worker'.task = worker.task
             /\ Sound(worker', This, exch)
  <2>1. /\ worker' \in Worker /\ worker'.task = worker.task /\ worker'.pc = "cancel"
        /\ worker'.why = why /\ worker'.ids = ids
      BY <1>1, <1>2 DEF Worker, Reasons
  <2>2. QED
      BY <1>1, <1>2, <2>1 DEF Sound
<1>3. Kept(StatusAfter("active"), exch)
    BY <1>1, StatusNames, StatusAfterKept DEF Waiting, Pending, ByPrice
<1>4. CASE Proceed(This)
  <2>1. CASE EndsWith([This EXCEPT !.status = "active"])
      BY <1>1, <1>3, <2>1, EndsKeep DEF PlanStop, StatusAfter
  <2>2. CASE \E expired \in SUBSET This.open \ {{}} :
                 /\ worker' = [worker EXCEPT !.pc = "cancel", !.why = "expired",
                                             !.ids = expired]
                 /\ ContinuesWith(This)
    <3>1. PICK expired \in SUBSET This.open :
              worker' = [worker EXCEPT !.pc = "cancel", !.why = "expired", !.ids = expired]
        BY <2>2
    <3>2. worker' = [worker EXCEPT !.pc = "cancel", !.why = "expired", !.ids = expired,
                                   !.target = worker.target] /\ worker.target \in Targets
        BY <1>1, <3>1 DEF Worker
    <3>3. QED
        BY <1>1, <1>2, <2>2, <3>2, SameOrders, ContinuesKeep DEF PlanStop
  <2>3. CASE This.open = {} /\ GoTo("plan") /\ ContinuesWith(This)
    <3>1. worker' \in Worker /\ worker'.task = worker.task /\ worker'.pc = "plan"
        BY <1>1, <2>3, GoToTyped
    <3>2. Sound(worker', This, exch)
        BY <1>1, <2>3, <3>1 DEF Sound
    <3>3. QED
        BY <1>1, <2>3, <3>1, <3>2, SameOrders, ContinuesKeep DEF PlanStop
  <2>4. QED
      BY <1>4, <2>1, <2>2, <2>3 DEF Proceed, HandleOpenOrders
<1>5. CASE /\ ~This.triggered /\ This.gated
           /\ EndsWith(StatusAfter("waiting_for_start_price"))
  <2>1. Kept(StatusAfter(Waiting), exch)
      BY <1>1, <1>5, StatusNames, StatusAfterKept DEF Kept, Waiting, Pending, ByPrice
  <2>2. QED
      BY <1>1, <1>5, <2>1, EndsKeep DEF PlanStop, Waiting
<1>6. CASE /\ This.open = {}
           /\ EndsWith(Rearmed([This EXCEPT !.gated = TRUE,
                                            !.target = "waiting_for_start_price"]))
  <2>1. Kept(Rearmed([This EXCEPT !.gated = TRUE, !.target = "waiting_for_start_price"]),
             exch)
      BY <1>1, <1>6, TargetKeeps, RearmKeeps DEF Rearmed, Waiting
  <2>2. QED
      BY <1>1, <1>6, <2>1, EndsKeep DEF PlanStop
<1>7. CASE /\ ContinuesWith([This EXCEPT !.gated = TRUE])
           /\ worker' = [worker EXCEPT !.pc = "cancel", !.why = "stop_price",
                                       !.ids = This.open,
                                       !.target = "waiting_for_start_price"]
  <2> DEFINE record == [This EXCEPT !.gated = TRUE]
  <2>1. /\ Kept(record, exch) /\ record.placed = This.placed /\ record.open = This.open
      BY <1>1, GatedKeeps
  <2>2. /\ worker' \in Worker /\ worker'.task = worker.task
        /\ Sound(worker', This, exch)
      BY <1>2, <1>7 DEF Targets
  <2>3. Sound(worker', record, exch)
      BY <2>1, <2>2, SoundCopies
  <2>4. QED
      BY <1>1, <1>7, <2>1, <2>2, <2>3, SameOrders, ContinuesKeep DEF PlanStop
<1>8. QED
    BY <1>4, <1>5, <1>6, <1>7 DEF PlanStop

(* A cancellation closes orders that are open. *)
LEMMA CancellationAges ==
    ASSUME IInv, NEW ids, CancelOrders(ids)
    PROVE  OrdersShaped(exch') /\ Ages(exch, exch')
<1>1. PICK canceled \in SUBSET OpenIn(ids) :
          exch' = [o \in Orders |-> IF o \in canceled THEN [exch[o] EXCEPT !.state = "closed"]
                                    ELSE exch[o]]
    BY DEF CancelOrders, CancelOneOf
<1>2. QED
    BY <1>1 DEF IInv, OrdersShaped, Ages, OpenIn, Order

LEMMA CancelRecordKept ==
    ASSUME Kept(This, exch)
    PROVE  Kept([This EXCEPT !.status = "active", !.open = @ \ worker.ids,
                             !.target = "stopped"], exch)
<1>1. "active" \in Statuses \ {Waiting, Pending, ByPrice} /\ "stopped" \in Targets
    BY StatusNames DEF Waiting, Pending, ByPrice, Targets
<1>2. QED
    BY <1>1 DEF Kept, TaskShaped, Task, LiveOf, Statuses

LEMMA CancelKeeps == ASSUME IInv, Cancel PROVE IInv'
<1>1. /\ worker.pc = "cancel" /\ worker \in Worker /\ Kept(This, exch)
      /\ Sound(worker, This, exch)
    BY ThisKept DEF Cancel, At
<1>2. OrdersShaped(exch') /\ Ages(exch, exch')
    BY CancellationAges DEF Cancel
<1>3. CASE worker.why = "expired"
  <2> DEFINE record == [This EXCEPT !.status = "active", !.open = @ \ worker.ids,
                                     !.target = "stopped"]
  <2>1. Kept(record, exch)
      BY <1>1, CancelRecordKept
  <2>2. /\ ContinuesWith(record)
        /\ worker' = [worker EXCEPT !.pc = "read_open", !.ids = {}]
      BY <1>3 DEF Cancel
  <2>3. worker' \in Worker /\ worker'.task = worker.task /\ worker'.pc = "read_open"
      BY <1>1, <2>2 DEF Worker
  <2>4. Sound(worker', record, exch)
      BY <2>3 DEF Sound
  <2> HIDE DEF record
  <2>5. QED
      BY <1>1, <1>2, <2>1, <2>2, <2>3, <2>4, ContinuesKeep DEF Cancel
<1>4. CASE worker.why # "expired"
  <2>1. GoTo("confirm") /\ ContinuesWith(This)
      BY <1>4 DEF Cancel
  <2>2. /\ worker' \in Worker /\ worker'.pc = "confirm" /\ worker'.task = worker.task
        /\ worker'.why = worker.why /\ worker'.ids = worker.ids
        /\ worker'.target = worker.target
      BY <1>1, <2>1, GoToTyped
  <2>3. Sound(worker', This, exch)
      BY <1>1, <1>4, <2>2 DEF Sound
  <2>4. QED
      BY <1>1, <1>2, <2>1, <2>2, <2>3, ContinuesKeep DEF Cancel
<1>5. QED
    BY <1>3, <1>4

(* What the worker writes while orders are cancelled. *)
LEMMA CancelTasks ==
    ASSUME IInv, Cancel PROVE \A t \in Tasks : Kept(task'[t], exch)
<1>1. worker.pc # "idle" /\ Kept(This, exch)
    BY ThisKept DEF Cancel, At
<1>2. PICK record : Kept(record, exch) /\ task' = Changed(record)
    BY <1>1, CancelRecordKept DEF Cancel, ContinuesWith
<1>3. QED
    BY <1>1, <1>2, ChangedKeeps

LEMMA ConfirmKeeps == ASSUME IInv, Confirm PROVE IInv'
<1>1. /\ worker.pc = "confirm" /\ worker \in Worker /\ Kept(This, exch)
      /\ Sound(worker, This, exch)
    BY ThisKept DEF Confirm, ConfirmOneOf, At
<1>2. PICK remaining \in Remaining(worker.ids) : EndsWith(Settled(remaining))
    BY DEF Confirm, ConfirmOneOf
<1>3. remaining \in SUBSET Orders
    BY <1>1 DEF Remaining, OpenIn, Worker
<1> DEFINE target == worker.target
           record == [This EXCEPT !.open = remaining, !.target = target]
<1>4. target \in Targets
    BY <1>1 DEF Worker
<1>5. target = Waiting => LiveOf(This, exch) \subseteq remaining
  <2>1. SUFFICES ASSUME target = Waiting PROVE LiveOf(This, exch) \subseteq worker.ids
      BY DEF Remaining, OpenIn, LiveOf
  <2>2. QED
      BY <1>1, <2>1 DEF Sound
<1>6. /\ TaskShaped(record) /\ record.placed = This.placed /\ record.open = remaining
      /\ record.status = This.status /\ record.triggered = This.triggered
      /\ record.target = target
    BY <1>1, <1>3, <1>4 DEF Kept, TaskShaped, Task
<1>7. LiveOf(record, exch) = LiveOf(This, exch)
    BY <1>6 DEF LiveOf
<1> HIDE DEF record, target
<1>8. Kept(record, exch)
    BY <1>1, <1>5, <1>6, <1>7 DEF Kept
<1>9. Settled(remaining) =
        CASE remaining # {} -> [record EXCEPT !.status = "stop_cancel_pending"]
          [] remaining = {} /\ target = "waiting_for_start_price" -> Rearmed(record)
          [] OTHER -> [record EXCEPT !.status = target]
    BY DEF Settled, record, target
<1>10. Kept(Settled(remaining), exch)
  <2>1. CASE remaining # {}
    <3>1. Kept([record EXCEPT !.status = Pending], exch)
        BY <1>5, <1>6, <1>7, <1>8, StatusNames, PendingKeeps DEF Kept
    <3>2. QED
        BY <1>9, <2>1, <3>1 DEF Pending
  <2>2. CASE remaining = {} /\ target = Waiting
    <3>1. LiveOf(record, exch) = {}
        BY <1>5, <1>7, <2>2
    <3>2. Kept(Rearmed(record), exch)
        BY <1>8, <3>1, RearmKeeps DEF Rearmed, Waiting
    <3>3. QED
        BY <1>9, <2>2, <3>2 DEF Waiting
  <2>3. CASE remaining = {} /\ target # Waiting
    <3>1. target # Pending
        BY <1>4 DEF Targets, Pending
    <3>2. target \notin {Waiting, ByPrice}
        BY <1>4, <2>3 DEF Targets, ByPrice
    <3>3. Kept([record EXCEPT !.status = target], exch)
        BY <1>4, <1>8, <3>1, <3>2, StatusNames, StatusKeeps
    <3>4. QED
        BY <1>9, <2>3, <3>3 DEF Waiting
  <2>4. QED
      BY <2>1, <2>2, <2>3
<1>11. QED
    BY <1>1, <1>2, <1>10, EndsKeep DEF Confirm, ConfirmOneOf

LEMMA AfterCycleTyped ==
    ASSUME This \in Task, NEW s, StatusFromCycle(s) \in Statuses
    PROVE  /\ AfterCycle(s) \in Task /\ AfterCycle(s).status = StatusFromCycle(s)
           /\ AfterCycle(s).placed = This.placed /\ AfterCycle(s).open = This.open
           /\ AfterCycle(s).filled = This.filled /\ AfterCycle(s).known = This.known
<1> DEFINE status == StatusFromCycle(s)
           triggered == This.triggered \/ (HasStart /\ s # "waiting_for_start_price")
<1>1. triggered \in BOOLEAN
    BY TaskAssumption DEF Task
<1>2. AfterCycle(s) = [This EXCEPT !.status = status, !.target = "stopped",
                                   !.triggered = triggered]
    BY DEF AfterCycle
<1>3. status \in Statuses /\ "stopped" \in Targets
    BY DEF Targets
<1> HIDE DEF status, triggered
<1>4. QED
    BY <1>1, <1>2, <1>3 DEF Task, Statuses, status

LEMMA PlanKeeps == ASSUME IInv, Plan PROVE IInv'
<1>1. /\ worker.pc = "plan" /\ worker \in Worker /\ Kept(This, exch)
      /\ LiveOf(This, exch) = {}
    BY ThisKept DEF Plan, At, Sound
<1>2. ASSUME NEW s \in Planned \cup {"blocked_by_risk"} PROVE Kept(AfterCycle(s), exch)
  <2> DEFINE status == StatusFromCycle(s)
             triggered == This.triggered \/ (HasStart /\ s # "waiting_for_start_price")
  <2>1. triggered \in BOOLEAN
      BY <1>1 DEF Kept, TaskShaped, Task
  <2>5. status \in Statuses /\ status # Pending
      BY StatusNames DEF status, StatusFromCycle, Terminal, Waiting, Pending, ByPrice
  <2> HIDE DEF status
  <2>6. "stopped" \in Targets
      BY DEF Targets
  <2>2. ASSUME NEW b \in BOOLEAN
        PROVE  Kept([This EXCEPT !.status = status, !.target = "stopped", !.triggered = b],
                    exch)
      BY <1>1, <2>5, <2>6 DEF Kept, TaskShaped, Task, LiveOf, Statuses
  <2>3. AfterCycle(s) = [This EXCEPT !.status = status, !.target = "stopped",
                                     !.triggered = triggered]
      BY DEF AfterCycle, status
  <2> HIDE DEF triggered
  <2>4. QED
      BY <2>1, <2>2, <2>3
<1>3. CASE \E s \in Planned \cup {"blocked_by_risk"} : EndsWith(AfterCycle(s))
    BY <1>1, <1>2, <1>3, EndsKeep DEF Plan
<1>4. CASE GoTo("submit") /\ ContinuesWith(This)
  <2>1. worker' \in Worker /\ worker'.task = worker.task /\ worker'.pc = "submit"
      BY <1>1, <1>4, GoToTyped
  <2>2. Sound(worker', This, exch)
      BY <1>1, <2>1 DEF Sound
  <2>3. QED
      BY <1>1, <1>4, <2>1, <2>2, SameOrders, ContinuesKeep DEF Plan
<1>5. QED
    BY <1>3, <1>4 DEF Plan

LEMMA SubmitAges ==
    ASSUME IInv, Submit
    PROVE  /\ OrdersShaped(exch') /\ Ages(exch, exch')
           /\ NextOrder \in Orders /\ exch'[NextOrder].state = "open"
           /\ exch'[NextOrder].task = worker.task
           /\ \A o \in Orders \ {NextOrder} : exch'[o] = exch[o]
<1> DEFINE new == [state |-> "open", amount |-> SliceAmount(worker.task), fill |-> 0,
                   task |-> worker.task]
<1>1. NextOrder \in Orders /\ exch[NextOrder].state = "none"
    BY DEF Submit, NextOrder
<1>2. exch' = [exch EXCEPT ![NextOrder] = new] /\ DOMAIN exch = Orders
    BY DEF Submit, IInv, OrdersShaped
<1>3. new.state = "open" /\ new.task = worker.task /\ new \in Order
  <2>1. worker.task \in Tasks /\ task[worker.task].filled \in 0..Total
      BY ThisKept DEF Submit, At, This, Kept, TaskShaped, Task
  <2>2. SliceAmount(worker.task) \in 0..Slice
      BY <2>1, TaskAssumption DEF SliceAmount, Lesser
  <2>3. QED
      BY <2>1, <2>2, TaskAssumption DEF Order
<1> HIDE DEF new
<1>4. QED
    BY <1>1, <1>2, <1>3 DEF IInv, OrdersShaped, Ages

LEMMA SubmitKeeps == ASSUME IInv, Submit PROVE IInv'
<1>1. worker.pc = "submit" /\ worker \in Worker /\ worker.task \in Tasks
    BY ThisKept DEF Submit, At
<1>2. /\ OrdersShaped(exch') /\ Ages(exch, exch')
      /\ NextOrder \in Orders /\ exch'[NextOrder].state = "open"
    BY SubmitAges
<1>3. /\ worker' \in Worker /\ worker'.pc = "reply" /\ worker'.task = worker.task
      /\ worker'.order = NextOrder
    BY <1>1, <1>2 DEF Submit, Worker
<1>4. Sound(worker', task[worker.task], exch')
    BY <1>2, <1>3 DEF Sound
<1>5. \A t \in Tasks : Kept(task[t], exch)' /\ Kept(file[t], exch)'
    BY <1>2, ExchangeKeeps DEF Submit
<1>6. QED
    BY <1>1, <1>2, <1>3, <1>4, <1>5 DEF Submit, IInv, Book, Table, Coroutines

LEMMA RecordOrderKeeps == ASSUME IInv, RecordOrder PROVE IInv'
<1>1. /\ worker.pc = "reply" /\ worker \in Worker /\ Kept(This, exch)
      /\ worker.order \in Orders /\ exch[worker.order].state # "none"
    BY ThisKept DEF RecordOrder, At, Sound
<1> DEFINE after == [This EXCEPT !.status = "active", !.target = "stopped",
                                 !.triggered = @ \/ HasStart]
           record == [after EXCEPT !.placed = @ \cup {worker.order},
                                   !.open = @ \cup {worker.order}]
<1>2. AfterCycle("placed") = after
    BY DEF AfterCycle, StatusFromCycle, Terminal
<1>8. "active" \in Statuses /\ "stopped" \in Targets
    BY StatusNames DEF Targets
<1>3. TaskShaped(after) /\ after.status = "active" /\ (HasStart => after.triggered)
      /\ after.placed = This.placed /\ after.open = This.open
  <2>1. (This.triggered \/ HasStart) \in BOOLEAN
      BY <1>1 DEF Kept, TaskShaped, Task
  <2>2. ASSUME NEW b \in BOOLEAN, b = (This.triggered \/ HasStart),
               after = [This EXCEPT !.status = "active", !.target = "stopped",
                                    !.triggered = b]
        PROVE  TaskShaped(after) /\ after.status = "active" /\ (HasStart => after.triggered)
               /\ after.placed = This.placed /\ after.open = This.open
      BY <1>1, <1>8, <2>2 DEF Kept, TaskShaped, Task, Statuses
  <2>3. QED
      BY <2>1, <2>2
<1> HIDE DEF after
<1>4. /\ TaskShaped(record) /\ record.status = "active" /\ (HasStart => record.triggered)
      /\ record.placed = This.placed \cup {worker.order}
  <2> DEFINE placed == after.placed \cup {worker.order}
             open == after.open \cup {worker.order}
  <2>1. placed \in SUBSET Orders /\ open \in SUBSET Orders /\ IsFiniteSet(placed)
      BY <1>1, <1>3, FS_AddElement DEF TaskShaped, Task
  <2>2. record = [after EXCEPT !.placed = placed, !.open = open]
      BY <1>3 DEF TaskShaped, Task
  <2>3. placed = This.placed \cup {worker.order}
      BY <1>3
  <2> HIDE DEF placed, open, record
  <2>4. QED
      BY <1>3, <2>1, <2>2, <2>3 DEF TaskShaped, Task
<1>5. Kept(record, exch)
    BY <1>1, <1>4 DEF Kept, Waiting, Pending, ByPrice
<1>6. EndsWith(record)
    BY <1>2 DEF RecordOrder
<1> HIDE DEF record
<1>7. QED
    BY <1>1, <1>5, <1>6, EndsKeep DEF RecordOrder

LEMMA FillKeeps == ASSUME IInv, NEW o \in Orders, Fill(o) PROVE IInv'
<1>1. PICK part \in 1..(exch[o].amount - exch[o].fill) :
          LET filled == exch[o].fill + part
          IN  exch' = [exch EXCEPT ![o].fill = filled,
                                   ![o].state = IF filled = exch[o].amount
                                                THEN "closed" ELSE "open"]
    BY DEF Fill
<1> DEFINE filled == exch[o].fill + part
           state == IF filled = exch[o].amount THEN "closed" ELSE "open"
<1>2. state \in {"open", "closed"} /\ filled \in 0..Slice
    BY TaskAssumption DEF IInv, OrdersShaped, Order
<1> HIDE DEF filled
<1>3. exch' = [exch EXCEPT ![o].fill = filled, ![o].state = state]
    BY <1>1 DEF filled
<1> HIDE DEF state
<1>4. /\ OrdersShaped(exch') /\ exch[o].state = "open"
      /\ exch'[o].state = state /\ \A p \in Orders \ {o} : exch'[p] = exch[p]
    BY <1>2, <1>3 DEF IInv, OrdersShaped, Fill, Order
<1>5. Ages(exch, exch')
    BY <1>2, <1>4 DEF Ages
<1>6. QED
    BY <1>4, <1>5, ExchangeKeeps DEF Fill, IInv, Book, Table, Coroutines

-----------------------------------------------------------------------------
(* The API. *)

LEMMA SavedKeeps ==
    ASSUME IInv, NEW t \in Tasks, NEW record, Kept(record, exch), Saved(t, record),
           worker.pc # "idle" /\ worker.task = t => Sound(worker, record, exch),
           stopper' \in Stopper, stopper'.pc # "idle" => stopper'.task \in Tasks,
           UNCHANGED <<exch, worker>>
    PROVE  IInv'
<1>1. Table(task') /\ task'[t] = record /\ \A u \in Tasks \ {t} : task'[u] = task[u]
    BY DEF Saved, IInv, Book, Table
<1>2. Book' /\ Coroutines'
    BY <1>1 DEF Saved, IInv, Book, Table, Coroutines
<1>3. \A u \in Tasks : Kept(task'[u], exch) /\ Kept(file'[u], exch)
    BY <1>1 DEF Saved, IInv
<1>4. worker.pc # "idle" => Sound(worker, task'[worker.task], exch)
    BY <1>1 DEF IInv, Coroutines
<1>5. QED
    BY <1>2, <1>3, <1>4 DEF IInv

LEMMA SavedStatusKeeps ==
    ASSUME IInv, NEW t \in Tasks, NEW s \in Statuses, s \notin {Waiting, Pending, ByPrice},
           Saved(t, [task[t] EXCEPT !.status = s]), UNCHANGED <<exch, worker, stopper>>
    PROVE  IInv'
<1> DEFINE record == [task[t] EXCEPT !.status = s]
<1>1. Kept(task[t], exch)
    BY DEF IInv
<1>2. /\ Kept(record, exch) /\ record.placed = task[t].placed /\ record.open = task[t].open
    BY <1>1, StatusNames, StatusKeeps
<1> HIDE DEF record
<1>3. worker.pc # "idle" /\ worker.task = t => Sound(worker, record, exch)
    BY <1>2, SoundCopies DEF IInv
<1>4. Saved(t, record)
    BY DEF record
<1>5. QED
    BY <1>2, <1>3, <1>4, SavedKeeps DEF IInv, Coroutines

LEMMA NewTaskKept ==
    ASSUME OrdersShaped(exch)
    PROVE  /\ Kept(NoSuchTask, exch)
           /\ Kept([NoSuchTask EXCEPT !.status = "active"], exch)
           /\ LiveOf([NoSuchTask EXCEPT !.status = "active"], exch) = {}
<1>1. NoSuchTask \in Task /\ [NoSuchTask EXCEPT !.status = "active"] \in Task
  <2>1. {"none", "active"} \subseteq Statuses /\ "stopped" \in Targets
      BY StatusNames DEF Statuses, Targets
  <2> DEFINE none == 0
             armed == FALSE
             empty == {}
  <2>2. /\ none \in 0..Total /\ armed \in BOOLEAN
        /\ empty \in SUBSET Orders /\ empty \in SUBSET (Orders \X (1..Slice))
      BY Zero
  <2> HIDE DEF none, armed, empty
  <2>3. ASSUME NEW s \in Statuses
        PROVE  [status |-> s, target |-> "stopped", placed |-> empty, open |-> empty,
                filled |-> none, known |-> empty, finals |-> empty, triggered |-> armed,
                gated |-> HasStart] \in Task
      BY <2>1, <2>2, TaskAssumption DEF Task, Statuses
  <2>4. NoSuchTask \in Task
      BY <2>1, <2>3 DEF NoSuchTask, none, armed, empty
  <2>5. QED
      BY <2>1, <2>4 DEF Task, Statuses
<1>2. QED
    BY <1>1, FS_EmptySet DEF NoSuchTask, Kept, TaskShaped, LiveOf, Waiting, Pending, ByPrice

LEMMA CreateKeeps == ASSUME IInv, NEW t \in Tasks, Create(t) PROVE IInv'
<1> DEFINE record == [NoSuchTask EXCEPT !.status = "active"]
<1>1. Kept(record, exch) /\ LiveOf(record, exch) = {}
    BY NewTaskKept DEF IInv
<1>2. Saved(t, record)
    BY DEF Create
<1> HIDE DEF record
<1>3. worker.pc # "idle" /\ worker.task = t => Sound(worker, record, exch)
    BY <1>1 DEF IInv, Sound
<1>4. QED
    BY <1>1, <1>2, <1>3, SavedKeeps DEF Create, IInv, Coroutines

LEMMA EndStopKeeps == ASSUME IInv, EndStop PROVE IInv'
<1> DEFINE t == stopper.task
<1>1. /\ t \in Tasks /\ Kept(task[t], exch) /\ stopper.ids \subseteq Orders
      /\ stopper' = NoStop /\ NoStop \in Stopper /\ NoStop.pc = "idle"
    BY DEF EndStop, IInv, Coroutines, Stopper, NoStop
<1>2. CASE task[t].status \notin Listed
    BY <1>1, <1>2 DEF EndStop, IInv, Book, Table, Coroutines
<1>3. CASE task[t].status \in Listed
  <2>1. PICK remaining \in Remaining(stopper.ids) :
            LET open == StillOpen(t, remaining)
            IN  Saved(t, [task[t] EXCEPT !.open = open, !.target = "stopped",
                              !.status = IF open # {} THEN "stop_cancel_pending"
                                         ELSE "stopped"])
      BY <1>3 DEF EndStop
  <2> DEFINE open == StillOpen(t, remaining)
             status == IF open # {} THEN "stop_cancel_pending" ELSE "stopped"
             record == [task[t] EXCEPT !.open = open, !.target = "stopped", !.status = status]
  <2>2. open \subseteq Orders
      BY <1>1 DEF StillOpen, Remaining, OpenIn, Kept, TaskShaped, Task
  <2>3. LiveOf(task[t], exch) \subseteq task[t].open => LiveOf(task[t], exch) \subseteq open
      BY DEF StillOpen, Remaining, OpenIn, LiveOf
  <2>4. status \in {"stop_cancel_pending", "stopped"}
      OBVIOUS
  <2>5. Saved(t, record)
      BY <2>1
  <2> HIDE DEF open, status
  <2>6. /\ TaskShaped(record) /\ record.placed = task[t].placed /\ record.open = open
        /\ record.triggered = task[t].triggered /\ record.target = "stopped"
        /\ record.status = status
    <3>1. status \in Statuses /\ "stopped" \in Targets /\ task[t] \in Task
        BY <1>1, <2>4, StatusNames DEF Kept, TaskShaped, Targets, Pending
    <3>2. QED
        BY <1>1, <2>2, <3>1 DEF Kept, TaskShaped, Task, Statuses
  <2> HIDE DEF record
  <2>7. LiveOf(record, exch) = LiveOf(task[t], exch)
      BY <2>6 DEF LiveOf
  <2>8. Kept(record, exch)
      BY <1>1, <2>4, <2>6, <2>7 DEF Kept, Waiting, ByPrice
  <2>9. worker.pc # "idle" /\ worker.task = t => Sound(worker, record, exch)
      BY <2>3, <2>6, <2>7 DEF IInv, Sound
  <2>10. UNCHANGED <<exch, worker>>
      BY DEF EndStop
  <2> HIDE DEF t
  <2>11. QED
      BY <1>1, <2>5, <2>8, <2>9, <2>10, SavedKeeps
<1>4. QED
    BY <1>2, <1>3

LEMMA ClearKeeps == ASSUME IInv, ClearTerminal PROVE IInv'
<1>1. ASSUME NEW t \in Tasks
      PROVE  /\ Kept(task'[t], exch)
             /\ task'[t].placed = task[t].placed /\ task'[t].open = task[t].open
  <2>1. Kept(task[t], exch)
      BY DEF IInv
  <2> DEFINE cleared == [task[t] EXCEPT !.status = "cleared"]
  <2>2. task'[t] = task[t] \/ task'[t] = cleared
      BY DEF ClearTerminal
  <2>3. /\ Kept(cleared, exch) /\ cleared.placed = task[t].placed
        /\ cleared.open = task[t].open
      BY <2>1, StatusNames, StatusKeeps DEF Waiting, Pending, ByPrice
  <2> HIDE DEF cleared
  <2>4. QED
      BY <2>1, <2>2, <2>3
<1>2. Book' /\ Coroutines'
    BY DEF ClearTerminal, IInv, Book, Table, Coroutines
<1>3. worker.pc # "idle" => Sound(worker, task'[worker.task], exch)
    BY <1>1, SoundCopies DEF IInv, Coroutines
<1>4. QED
    BY <1>1, <1>2, <1>3 DEF ClearTerminal, IInv

LEMMA ApiKeeps == ASSUME IInv, ApiStep PROVE IInv'
<1>1. ASSUME NEW t \in Tasks, Create(t) PROVE IInv'
    BY <1>1, CreateKeeps
<1>2. ASSUME NEW t \in Tasks, Pause(t) \/ Resume(t) \/ StopNow(t) PROVE IInv'
  <2>1. /\ \E s \in {"paused", "active", "stopped"} :
               Saved(t, [task[t] EXCEPT !.status = s])
        /\ UNCHANGED <<exch, worker, stopper>>
      BY <1>2 DEF Pause, Resume, StopNow
  <2>2. QED
      BY <2>1, StatusNames, SavedStatusKeeps DEF Waiting, Pending, ByPrice
<1>3. ASSUME NEW t \in Tasks, BeginStop(t) PROVE IInv'
  <2>1. stopper' \in Stopper /\ stopper'.task = t
      BY <1>3 DEF BeginStop, IInv, Kept, TaskShaped, Task, Stopper
  <2>2. QED
      BY <1>3, <2>1 DEF BeginStop, IInv, Book, Table, Coroutines
<1>4. CASE StopCancels
  <2>1. OrdersShaped(exch') /\ Ages(exch, exch')
      BY <1>4, CancellationAges DEF StopCancels
  <2>2. stopper' \in Stopper /\ stopper'.task = stopper.task /\ stopper.task \in Tasks
      BY <1>4 DEF StopCancels, IInv, Coroutines, Stopper
  <2>3. QED
      BY <1>4, <2>1, <2>2, ExchangeKeeps DEF StopCancels, IInv, Book, Table, Coroutines
<1>5. QED
    BY <1>1, <1>2, <1>3, <1>4, EndStopKeeps, ClearKeeps DEF ApiStep

LEMMA LoadedKeeps ==
    ASSUME NEW r, Kept(r, exch)
    PROVE  /\ Kept(Loaded(r), exch) /\ Loaded(r).placed = r.placed
           /\ Loaded(r).filled = r.filled /\ Loaded(r).known = r.known
           /\ Loaded(r).status = "complete" => r.status = "complete" \/ r.filled >= Total
<1>1. CASE r.status # ByPrice
    BY <1>1 DEF Loaded, ByPrice
<1>2. CASE r.status = ByPrice /\ r.filled >= Total
  <2> DEFINE complete == [r EXCEPT !.status = "complete"]
  <2>1. Loaded(r) = complete
      BY <1>2 DEF Loaded, ByPrice
  <2>2. Kept(complete, exch) /\ complete.placed = r.placed
      BY StatusNames, StatusKeeps DEF Waiting, Pending, ByPrice
  <2>3. complete.filled = r.filled /\ complete.known = r.known
      BY DEF Kept, TaskShaped, Task
  <2> HIDE DEF complete
  <2>4. QED
      BY <1>2, <2>1, <2>2, <2>3
<1>3. CASE r.status = ByPrice /\ ~(r.filled >= Total)
  <2> DEFINE gated == [r EXCEPT !.gated = TRUE]
             rearmed == [gated EXCEPT !.status = Waiting, !.triggered = FALSE]
  <2>1. Loaded(r) = rearmed
      BY <1>3 DEF Loaded, Rearmed, ByPrice, Waiting
  <2>2. /\ Kept(gated, exch) /\ gated.placed = r.placed
        /\ gated.filled = r.filled /\ gated.known = r.known
      BY GatedKeeps DEF Kept, TaskShaped, Task
  <2>3. HasStart => LiveOf(gated, exch) = {}
      BY <1>3, <2>2 DEF Kept, LiveOf
  <2> HIDE DEF gated
  <2>4. Kept(rearmed, exch)
      BY <2>2, <2>3, RearmKeeps
  <2>5. /\ rearmed.placed = gated.placed /\ rearmed.filled = gated.filled
        /\ rearmed.known = gated.known /\ rearmed.status = Waiting
      BY <2>2 DEF Kept, TaskShaped, Task
  <2> HIDE DEF rearmed
  <2>6. QED
      BY <2>1, <2>2, <2>4, <2>5 DEF Waiting
<1>4. QED
    BY <1>1, <1>2, <1>3

LEMMA CrashKeeps == ASSUME IInv, Crash PROVE IInv'
<1>1. NoStop \in Stopper /\ NoStop.pc = "idle"
    BY DEF NoStop, Stopper
<1>2. Table(task') /\ \A t \in Tasks : task'[t] = Loaded(file[t])
    BY DEF Crash, Table
<1>3. \A t \in Tasks : Kept(task'[t], exch) /\ Kept(file[t], exch)
    BY <1>2, LoadedKeeps DEF IInv
<1>4. UNCHANGED <<file, exch>> /\ worker' = Idle /\ stopper' = NoStop
    BY DEF Crash
<1>5. QED
    BY <1>1, <1>2, <1>3, <1>4, IdleTyped DEF IInv, Book, Table, Coroutines

-----------------------------------------------------------------------------
LEMMA IInvInit == Init => IInv
<1> SUFFICES ASSUME Init PROVE IInv
    OBVIOUS
<1>1. DOMAIN exch = Orders /\ \A o \in Orders : exch[o] = NoSuchOrder
    BY DEF Init
<1>2. OrdersShaped(exch)
  <2>1. NoSuchOrder \in Order
      BY Zero DEF NoSuchOrder, Order
  <2>2. QED
      BY <2>1 DEF Init, OrdersShaped
<1>3. NoStop \in Stopper /\ NoStop.pc = "idle"
    BY DEF NoStop, Stopper
<1>4. \A t \in Tasks : task[t] = NoSuchTask /\ file[t] = NoSuchTask
    BY DEF Init
<1>5. QED
    BY <1>2, <1>3, <1>4, NewTaskKept, IdleTyped DEF Init, IInv, Book, Table, Coroutines

LEMMA IInvNext == IInv /\ [Next]_vars => IInv'
<1> SUFFICES ASSUME IInv, [Next]_vars PROVE IInv'
    OBVIOUS
<1>1. CASE UNCHANGED vars
    BY <1>1 DEF IInv, Book, Table, Coroutines, vars
<1>2. CASE \E o \in Orders : Fill(o)
    BY <1>2, FillKeeps
<1>3. CASE CycleStep
    BY <1>3, BeginCycleKeeps, OwnerUnavailableKeeps, FailKeeps, RecoverKeeps,
       ReadOpenKeeps, ReadHistoryKeeps, PlanStopKeeps, CancelKeeps, ConfirmKeeps, PlanKeeps, SubmitKeeps, RecordOrderKeeps
       DEF CycleStep
<1>4. CASE ApiStep
    BY <1>4, ApiKeeps
<1>5. CASE Crash
    BY <1>5, CrashKeeps
<1>6. QED
    BY <1>1, <1>2, <1>3, <1>4, <1>5 DEF Next

LEMMA Invariant == Spec => []IInv
BY IInvInit, IInvNext, PTL DEF Spec

-----------------------------------------------------------------------------
(* The money.  Reach is what an order has traded or can still trade: it     *)
(* shrinks as the order ages, and what it has traded grows.                 *)
Fills(orders) == [o \in Orders |-> orders[o].fill]
Reach(orders) ==
    [o \in Orders |-> IF orders[o].state = "open" THEN orders[o].amount ELSE orders[o].fill]
Traded(r, orders) == Cardinality(Units(r.placed, Fills(orders)))
Exposed(r, orders) == Cardinality(Units(r.placed, Reach(orders)))

Executable(orders) ==
    \A o \in Orders : /\ orders[o].fill <= orders[o].amount
                      /\ orders[o].state = "open" => orders[o].fill < orders[o].amount

(* The trades that a record knows are trades of its orders, one of these at *)
(* most is open, and together they reach the total and a slice at most.     *)
Reckoned(r, orders) ==
    /\ r.known \subseteq Units(r.placed, Fills(orders))
    /\ \A o, p \in LiveOf(r, orders) : o = p
    /\ Exposed(r, orders) <= Total + Slice

(* Without a stop in the middle of a cycle they stay within the total, and  *)
(* while every list of trades was whole a record counts the trades that it  *)
(* knows.  With both, a record that is complete has traded the total.       *)
Within(t, r, orders, over, lag) ==
    /\ t \notin over => Exposed(r, orders) <= Total
    /\ t \notin lag => r.filled <= Cardinality(r.known)
    /\ t \notin over \cup lag /\ r.status = "complete" =>
           Exposed(r, orders) = Total /\ LiveOf(r, orders) = {}

(* What the cycle may still order. *)
Unfinished(w, r, orders) ==
    /\ w.pc \in {"plan_stop", "plan", "submit"} =>
           r.filled < Total /\ Exposed(r, orders) <= r.filled + Slice
    /\ w.pc = "reply" =>
           /\ LiveOf(r, orders) = {}
           /\ Exposed(r, orders) + orders[w.order].amount <= Total + Slice
Budgeted(w, r, orders) ==
    /\ w.pc = "plan_stop" /\ r.open = {} => Exposed(r, orders) <= r.filled
    /\ w.pc \in {"plan", "submit"} => Exposed(r, orders) <= r.filled
    /\ w.pc = "reply" => Exposed(r, orders) + orders[w.order].amount <= Total

Money ==
    /\ Executable(exch)
    /\ \A t \in Tasks : Reckoned(task[t], exch) /\ Reckoned(file[t], exch)
    /\ \A t \in Tasks : /\ Within(t, task[t], exch, overlapped, lagged)
                       /\ Within(t, file[t], exch, overlapped, lagged)
    /\ worker.pc # "idle" => Unfinished(worker, task[worker.task], exch)
    /\ worker.pc # "idle" /\ worker.task \notin overlapped =>
           Budgeted(worker, task[worker.task], exch)

(* Counting units. *)
LEMMA MoreUnits ==
    ASSUME NEW big, IsFiniteSet(big), NEW ids \in SUBSET big, NEW amounts, NEW more,
           \A o \in ids : amounts[o] \in Int /\ more[o] \in Int /\ amounts[o] <= more[o]
    PROVE  /\ Units(ids, amounts) \subseteq Units(big, more)
           /\ Cardinality(Units(ids, amounts)) <= Cardinality(Units(big, more))
           /\ Cardinality(Units(ids, amounts)) = Cardinality(Units(big, more)) =>
                  Units(ids, amounts) = Units(big, more)
<1>1. Units(ids, amounts) \subseteq Units(big, more)
  <2>1. SUFFICES ASSUME NEW o \in ids, NEW n \in 1..Slice, n <= amounts[o]
                 PROVE  n <= more[o]
      BY DEF Units
  <2>2. QED
      BY <2>1, TaskAssumption
<1>2. IsFiniteSet(Units(big, more))
    BY UnitsFinite
<1>3. QED
    BY <1>1, <1>2, FS_Subset

LEMMA UnitsAdded ==
    ASSUME NEW ids, IsFiniteSet(ids), NEW o, NEW amounts, amounts[o] \in Nat
    PROVE  Cardinality(Units(ids \cup {o}, amounts)) <= Cardinality(Units(ids, amounts)) + amounts[o]
<1> DEFINE own == {o} \X (1..amounts[o])
           both == Units(ids, amounts) \cup own
<1>1. IsFiniteSet(Units(ids, amounts)) /\ Cardinality(Units(ids, amounts)) \in Nat
    BY UnitsFinite
<1>2. IsFiniteSet(own) /\ Cardinality(own) = amounts[o]
  <2>1. IsFiniteSet({o}) /\ Cardinality({o}) = 1
      BY FS_Singleton
  <2>2. IsFiniteSet(1..amounts[o]) /\ Cardinality(1..amounts[o]) = amounts[o]
      BY FS_Interval
  <2>3. IsFiniteSet(own) /\ Cardinality(own) = Cardinality({o}) * Cardinality(1..amounts[o])
      BY <2>1, <2>2, FS_Product
  <2>4. QED
      BY <2>1, <2>2, <2>3
<1>3. Units(ids \cup {o}, amounts) \subseteq both
  <2>1. SUFFICES ASSUME NEW p \in ids \cup {o}, NEW n \in 1..Slice, n <= amounts[p]
                 PROVE  <<p, n>> \in both
      BY DEF Units
  <2>2. CASE p \in ids
      BY <2>1, <2>2 DEF Units
  <2>3. CASE p = o
      BY <2>1, <2>3, TaskAssumption
  <2>4. QED
      BY <2>2, <2>3
<1> HIDE DEF own
<1>4. IsFiniteSet(both) /\ Cardinality(both) <= Cardinality(Units(ids, amounts)) + amounts[o]
  <2>1. /\ IsFiniteSet(both)
        /\ Cardinality(both) = Cardinality(Units(ids, amounts)) + Cardinality(own)
                                 - Cardinality(Units(ids, amounts) \cap own)
      BY <1>1, <1>2, FS_Union
  <2>2. Cardinality(Units(ids, amounts) \cap own) \in Nat
      BY <1>1, FS_Intersection, FS_CardinalityType
  <2>3. QED
      BY <1>1, <1>2, <2>1, <2>2
<1>5. /\ Cardinality(Units(ids \cup {o}, amounts)) <= Cardinality(both)
      /\ Cardinality(Units(ids \cup {o}, amounts)) \in Nat
    BY <1>3, <1>4, FS_Subset, FS_CardinalityType
<1>6. Cardinality(both) \in Nat
    BY <1>4, FS_CardinalityType
<1> HIDE DEF both
<1>7. QED
    BY <1>1, <1>4, <1>5, <1>6

LEMMA NoUnits == ASSUME NEW amounts PROVE Cardinality(Units({}, amounts)) = 0
BY FS_EmptySet DEF Units

(* What has traded and what can trade of a record. *)
LEMMA Reaches ==
    ASSUME NEW orders, OrdersShaped(orders), Executable(orders), NEW o \in Orders
    PROVE  /\ Fills(orders)[o] = orders[o].fill /\ orders[o].fill \in 0..Slice
           /\ orders[o].amount \in 0..Slice
           /\ Reach(orders)[o] = IF orders[o].state = "open" THEN orders[o].amount
                                 ELSE orders[o].fill
           /\ Fills(orders)[o] \in Nat /\ Reach(orders)[o] \in Nat
           /\ Fills(orders)[o] <= Reach(orders)[o] /\ Reach(orders)[o] <= orders[o].amount
           /\ orders[o].state = "open" => Fills(orders)[o] < Reach(orders)[o]
<1>1. orders[o] \in Order
    BY DEF OrdersShaped
<1>2. /\ orders[o].fill \in 0..Slice /\ orders[o].amount \in 0..Slice
      /\ orders[o].fill <= orders[o].amount
      /\ orders[o].state = "open" => orders[o].fill < orders[o].amount
    BY <1>1 DEF Order, Executable
<1>3. QED
    BY <1>2, TaskAssumption DEF Fills, Reach

LEMMA CountsTyped ==
    ASSUME NEW r, TaskShaped(r), NEW orders
    PROVE  /\ Traded(r, orders) \in Nat /\ Exposed(r, orders) \in Nat
           /\ r.filled \in 0..Total /\ Total \in Nat \ {0}
BY UnitsFinite, TaskAssumption DEF TaskShaped, Task, Traded, Exposed

LEMMA TradedReaches ==
    ASSUME NEW r, TaskShaped(r), NEW orders, OrdersShaped(orders), Executable(orders)
    PROVE  /\ Traded(r, orders) <= Exposed(r, orders)
           /\ Traded(r, orders) = Exposed(r, orders) <=> LiveOf(r, orders) = {}
<1>1. IsFiniteSet(r.placed) /\ r.placed \subseteq Orders
    BY DEF TaskShaped, Task
<1>2. \A o \in r.placed : /\ Fills(orders)[o] \in Int /\ Reach(orders)[o] \in Int
                          /\ Fills(orders)[o] <= Reach(orders)[o]
    BY <1>1, Reaches
<1>3. /\ Traded(r, orders) <= Exposed(r, orders)
      /\ Traded(r, orders) = Exposed(r, orders) =>
             Units(r.placed, Fills(orders)) = Units(r.placed, Reach(orders))
    BY <1>1, <1>2, MoreUnits DEF Traded, Exposed
<1>4. ASSUME LiveOf(r, orders) = {} PROVE Traded(r, orders) = Exposed(r, orders)
  <2>1. \A o \in r.placed : Reach(orders)[o] \in Int /\ Reach(orders)[o] <= Fills(orders)[o]
      BY <1>1, <1>2, <1>4, Reaches DEF LiveOf
  <2>2. Exposed(r, orders) <= Traded(r, orders)
      BY <1>1, <1>2, <2>1, MoreUnits DEF Traded, Exposed
  <2>3. QED
      BY <1>3, <2>2, CountsTyped
<1>5. ASSUME NEW o \in LiveOf(r, orders),
             Units(r.placed, Fills(orders)) = Units(r.placed, Reach(orders))
      PROVE  FALSE
  <2>1. o \in r.placed /\ o \in Orders /\ orders[o].state = "open"
      BY <1>1 DEF LiveOf
  <2>2. /\ Fills(orders)[o] \in Nat /\ Reach(orders)[o] \in 1..Slice
        /\ Fills(orders)[o] < Reach(orders)[o]
      BY <2>1, Reaches, TaskAssumption
  <2>3. <<o, Reach(orders)[o]>> \in Units(r.placed, Reach(orders))
      BY <2>1, <2>2 DEF Units
  <2>4. <<o, Reach(orders)[o]>> \notin Units(r.placed, Fills(orders))
      BY <2>2 DEF Units
  <2>5. QED
      BY <1>5, <2>3, <2>4
<1>6. QED
    BY <1>3, <1>4, <1>5

LEMMA OneLiveReaches ==
    ASSUME NEW r, TaskShaped(r), NEW orders, OrdersShaped(orders), Executable(orders),
           \A o, p \in LiveOf(r, orders) : o = p
    PROVE  Exposed(r, orders) <= Traded(r, orders) + Slice
<1>1. IsFiniteSet(r.placed) /\ r.placed \subseteq Orders
    BY DEF TaskShaped, Task
<1>2. /\ Traded(r, orders) \in Nat /\ Exposed(r, orders) \in Nat /\ Slice \in Nat
    BY CountsTyped, TaskAssumption
<1>3. CASE LiveOf(r, orders) = {}
    BY <1>2, <1>3, TradedReaches
<1>4. ASSUME NEW o \in LiveOf(r, orders) PROVE Exposed(r, orders) <= Traded(r, orders) + Slice
  <2> DEFINE others == r.placed \ {o}
  <2>1. o \in Orders /\ others \cup {o} = r.placed /\ others \subseteq r.placed
        /\ IsFiniteSet(others) /\ Reach(orders)[o] \in Nat /\ Reach(orders)[o] <= Slice
    <3>1. o \in Orders /\ o \in r.placed
        BY <1>1 DEF LiveOf
    <3>2. Reach(orders)[o] \in Nat /\ Reach(orders)[o] <= orders[o].amount
          /\ orders[o].amount \in 0..Slice
        BY <3>1, Reaches
    <3>3. Reach(orders)[o] <= Slice
        BY <3>2, TaskAssumption
    <3>4. IsFiniteSet(others)
        BY <1>1, FS_RemoveElement
    <3>5. QED
        BY <3>1, <3>2, <3>3, <3>4
  <2>2. \A p \in others : /\ Reach(orders)[p] \in Int /\ Fills(orders)[p] \in Int
                          /\ Reach(orders)[p] <= Fills(orders)[p]
    <3>1. ASSUME NEW p \in others PROVE p \in Orders /\ orders[p].state # "open"
        BY <1>1, <1>4 DEF LiveOf
    <3>2. QED
        BY <3>1, Reaches
  <2> HIDE DEF others
  <2>3. Cardinality(Units(others, Reach(orders))) <= Cardinality(Units(r.placed, Fills(orders)))
      BY <1>1, <2>1, <2>2, MoreUnits
  <2>4. Cardinality(Units(r.placed, Reach(orders)))
            <= Cardinality(Units(others, Reach(orders))) + Reach(orders)[o]
      BY <2>1, UnitsAdded
  <2>5. Cardinality(Units(others, Reach(orders))) \in Nat
      BY <2>1, UnitsFinite
  <2>6. QED
      BY <1>2, <2>1, <2>3, <2>4, <2>5 DEF Traded, Exposed
<1>5. QED
    BY <1>3, <1>4

(* An order keeps its amount, trades more and reaches less. *)
Moves(orders, next) ==
    /\ Ages(orders, next)
    /\ \A o \in Orders : orders[o].state # "none" =>
           /\ next[o].amount = orders[o].amount
           /\ orders[o].fill <= next[o].fill
           /\ Reach(next)[o] <= Reach(orders)[o]

Sane(orders) == OrdersShaped(orders) /\ Executable(orders)

LEMMA MovedCounts ==
    ASSUME NEW r, NEW a, NEW b, Kept(r, a), Sane(a), Sane(b), Moves(a, b)
    PROVE  /\ Traded(r, a) <= Traded(r, b) /\ Exposed(r, b) <= Exposed(r, a)
           /\ Units(r.placed, Fills(a)) \subseteq Units(r.placed, Fills(b))
<1>1. TaskShaped(r) /\ IsFiniteSet(r.placed)
      /\ \A o \in r.placed : o \in Orders /\ a[o].state # "none"
    BY DEF Kept, TaskShaped, Task
<1>2. \A o \in r.placed : /\ Fills(a)[o] \in Int /\ Fills(b)[o] \in Int
                          /\ Reach(a)[o] \in Int /\ Reach(b)[o] \in Int
                          /\ Fills(a)[o] <= Fills(b)[o] /\ Reach(b)[o] <= Reach(a)[o]
    BY <1>1, Reaches DEF Sane, Moves
<1>3. QED
    BY <1>1, <1>2, MoreUnits DEF Traded, Exposed

LEMMA MovedKeeps ==
    ASSUME NEW r, NEW a, NEW b, Kept(r, a), Sane(a), Sane(b), Moves(a, b)
    PROVE  /\ Reckoned(r, a) => Reckoned(r, b)
           /\ \A t, over, lag : Within(t, r, a, over, lag) => Within(t, r, b, over, lag)
           /\ \A w : (w.pc = "reply" => w.order \in Orders /\ a[w.order].state # "none") =>
                  /\ Budgeted(w, r, a) => Budgeted(w, r, b)
                  /\ Unfinished(w, r, a) => Unfinished(w, r, b)
<1>1. Kept(r, b) /\ LiveOf(r, b) \subseteq LiveOf(r, a) /\ TaskShaped(r)
    BY AgedKeeps DEF Moves, Kept
<1>2. /\ Traded(r, a) \in Nat /\ Exposed(r, a) \in Nat
      /\ Traded(r, b) \in Nat /\ Exposed(r, b) \in Nat
      /\ r.filled \in 0..Total /\ Total \in Nat
    BY <1>1, CountsTyped
<1>3. /\ Traded(r, a) <= Traded(r, b) /\ Exposed(r, b) <= Exposed(r, a)
      /\ Units(r.placed, Fills(a)) \subseteq Units(r.placed, Fills(b))
    BY MovedCounts
<1>4. Reckoned(r, a) => Reckoned(r, b)
    BY <1>1, <1>2, <1>3, TaskAssumption DEF Reckoned
<1>5. LiveOf(r, a) = {} => Exposed(r, b) = Exposed(r, a)
  <2>1. SUFFICES ASSUME LiveOf(r, a) = {} PROVE Exposed(r, b) = Exposed(r, a)
      OBVIOUS
  <2>2. Exposed(r, a) = Traded(r, a) /\ Exposed(r, b) = Traded(r, b)
      BY <1>1, <2>1, TradedReaches DEF Sane
  <2>3. QED
      BY <1>2, <1>3, <2>2
<1>6. ASSUME NEW t, NEW over, NEW lag, Within(t, r, a, over, lag)
      PROVE  Within(t, r, b, over, lag)
    BY <1>1, <1>2, <1>3, <1>5, <1>6 DEF Within
<1>7. ASSUME NEW w, w.pc = "reply" => w.order \in Orders /\ a[w.order].state # "none"
      PROVE  /\ Budgeted(w, r, a) => Budgeted(w, r, b)
             /\ Unfinished(w, r, a) => Unfinished(w, r, b)
  <2>1. w.pc = "reply" => b[w.order].amount = a[w.order].amount /\ a[w.order].amount \in 0..Slice
      BY <1>7, Reaches DEF Moves, Sane
  <2>2. Budgeted(w, r, a) => Budgeted(w, r, b)
      BY <1>2, <1>3, <2>1, TaskAssumption DEF Budgeted
  <2>3. Unfinished(w, r, a) => Unfinished(w, r, b)
      BY <1>1, <1>2, <1>3, <2>1, TaskAssumption DEF Unfinished
  <2>4. QED
      BY <2>2, <2>3
<1>8. QED
    BY <1>4, <1>6, <1>7

(* What depends on the orders of a record, its count and its status alone. *)
LEMMA CopyCounts ==
    ASSUME NEW r, NEW copy, NEW orders, copy.placed = r.placed
    PROVE  /\ Exposed(copy, orders) = Exposed(r, orders)
           /\ LiveOf(copy, orders) = LiveOf(r, orders)
           /\ copy.known = r.known /\ Reckoned(r, orders) => Reckoned(copy, orders)
           /\ \A t, over, lag :
                  /\ copy.filled = r.filled /\ copy.known = r.known
                  /\ copy.status = "complete" => r.status = "complete"
                  /\ Within(t, r, orders, over, lag)
                  => Within(t, copy, orders, over, lag)
           /\ \A w : copy.filled = r.filled /\ copy.open = r.open /\ Budgeted(w, r, orders) =>
                  Budgeted(w, copy, orders)
           /\ \A w : copy.filled = r.filled /\ Unfinished(w, r, orders) =>
                  Unfinished(w, copy, orders)
BY DEF Exposed, Traded, LiveOf, Reckoned, Within, Budgeted, Unfinished

LEMMA WithinGrows ==
    ASSUME NEW t, NEW r, NEW orders, NEW over, NEW lag, NEW more, NEW longer,
           over \subseteq more, lag \subseteq longer, Within(t, r, orders, over, lag)
    PROVE  Within(t, r, orders, more, longer)
BY DEF Within

LEMMA NothingPlaced ==
    ASSUME NEW r, TaskShaped(r), r.placed = {}, NEW orders
    PROVE  /\ Exposed(r, orders) = 0 /\ LiveOf(r, orders) = {}
           /\ r.known = {} => Reckoned(r, orders)
           /\ \A t, over, lag :
                  r.known = {} /\ r.filled = 0 /\ r.status # "complete" =>
                      Within(t, r, orders, over, lag)
<1>1. Exposed(r, orders) = 0 /\ LiveOf(r, orders) = {}
    BY NoUnits DEF Exposed, LiveOf
<1>2. r.known = {} => Reckoned(r, orders)
    BY <1>1, TaskAssumption DEF Reckoned
<1>3. Cardinality({}) = 0
    BY FS_EmptySet
<1>4. QED
    BY <1>1, <1>2, <1>3, TaskAssumption DEF Within

(* The exchange moves on. *)
LEMMA OrdersMove ==
    ASSUME IInv, Money, Sane(exch'), Moves(exch, exch')
    PROVE  /\ \A t \in Tasks : Reckoned(task[t], exch') /\ Reckoned(file[t], exch')
           /\ \A t \in Tasks : /\ Within(t, task[t], exch', overlapped, lagged)
                               /\ Within(t, file[t], exch', overlapped, lagged)
           /\ worker.pc # "idle" => Unfinished(worker, task[worker.task], exch')
           /\ worker.pc # "idle" /\ worker.task \notin overlapped =>
                  Budgeted(worker, task[worker.task], exch')
<1>1. Sane(exch)
    BY DEF IInv, Money, Sane
<1>2. \A t \in Tasks : Kept(task[t], exch) /\ Kept(file[t], exch)
    BY DEF IInv
<1>3. /\ \A t \in Tasks : Reckoned(task[t], exch') /\ Reckoned(file[t], exch')
      /\ \A t \in Tasks : /\ Within(t, task[t], exch', overlapped, lagged)
                          /\ Within(t, file[t], exch', overlapped, lagged)
    BY <1>1, <1>2, MovedKeeps DEF Money
<1>4. ASSUME worker.pc # "idle"
      PROVE  /\ Unfinished(worker, task[worker.task], exch')
             /\ worker.task \notin overlapped => Budgeted(worker, task[worker.task], exch')
  <2>1. /\ worker.task \in Tasks /\ Unfinished(worker, task[worker.task], exch)
        /\ worker.task \notin overlapped => Budgeted(worker, task[worker.task], exch)
        /\ worker.pc = "reply" => worker.order \in Orders /\ exch[worker.order].state # "none"
      BY <1>4 DEF IInv, Coroutines, Sound, Money
  <2>2. QED
      BY <1>1, <1>2, <2>1, MovedKeeps
<1>5. QED
    BY <1>3, <1>4

LEMMA OrdersStay == ASSUME IInv, Money, UNCHANGED exch PROVE Sane(exch') /\ Moves(exch, exch')
<1>1. OrdersShaped(exch) /\ Executable(exch)
    BY DEF IInv, Money
<1>2. \A o \in Orders : exch[o].fill <= exch[o].fill /\ Reach(exch)[o] <= Reach(exch)[o]
    BY <1>1, Reaches
<1>3. QED
    BY <1>1, <1>2 DEF Sane, Moves, Ages

LEMMA CancellationMoves ==
    ASSUME IInv, Money, NEW ids, CancelOrders(ids)
    PROVE  Sane(exch') /\ Moves(exch, exch')
<1>1. PICK canceled \in SUBSET OpenIn(ids) :
          exch' = [o \in Orders |-> IF o \in canceled THEN [exch[o] EXCEPT !.state = "closed"]
                                    ELSE exch[o]]
    BY DEF CancelOrders, CancelOneOf
<1>2. OrdersShaped(exch') /\ Ages(exch, exch')
    BY CancellationAges
<1>3. ASSUME NEW o \in Orders
      PROVE  /\ exch'[o].amount = exch[o].amount /\ exch'[o].fill = exch[o].fill
             /\ exch'[o].state = exch[o].state \/ exch'[o].state = "closed"
    BY <1>1 DEF IInv, OrdersShaped, Order
<1>4. OrdersShaped(exch) /\ Executable(exch)
    BY DEF IInv, Money
<1>5. Executable(exch')
    BY <1>3, <1>4 DEF Executable
<1>6. ASSUME NEW o \in Orders
      PROVE exch[o].fill <= exch'[o].fill /\ Reach(exch')[o] <= Reach(exch)[o]
    BY <1>2, <1>3, <1>4, <1>5, Reaches
<1>7. QED
    BY <1>2, <1>3, <1>5, <1>6 DEF Sane, Moves

LEMMA FillMoves ==
    ASSUME IInv, Money, IInv', NEW o \in Orders, Fill(o) PROVE Sane(exch') /\ Moves(exch, exch')
<1>1. PICK part \in 1..(exch[o].amount - exch[o].fill) :
          LET filled == exch[o].fill + part
          IN  exch' = [exch EXCEPT ![o].fill = filled,
                                   ![o].state = IF filled = exch[o].amount
                                                THEN "closed" ELSE "open"]
    BY DEF Fill
<1>2. /\ OrdersShaped(exch) /\ Executable(exch) /\ OrdersShaped(exch')
      /\ exch[o].state = "open"
    BY DEF IInv, Money, Fill
<1>3. /\ exch[o].fill \in 0..Slice /\ exch[o].amount \in 0..Slice
    BY <1>2, Reaches
<1>4. /\ exch'[o].amount = exch[o].amount /\ exch'[o].fill = exch[o].fill + part
      /\ exch'[o].state = IF exch[o].fill + part = exch[o].amount THEN "closed" ELSE "open"
      /\ \A p \in Orders \ {o} : exch'[p] = exch[p]
    BY <1>1 DEF IInv, OrdersShaped, Order
<1>5. /\ exch[o].fill <= exch'[o].fill /\ exch'[o].fill <= exch'[o].amount
      /\ exch'[o].state = "open" => exch'[o].fill < exch'[o].amount
    BY <1>3, <1>4, TaskAssumption
<1>6. Executable(exch')
    BY <1>2, <1>4, <1>5 DEF Executable
<1>7. Ages(exch, exch')
    BY <1>2, <1>4 DEF Ages
<1>8. ASSUME NEW p \in Orders
      PROVE /\ exch'[p].amount = exch[p].amount /\ exch[p].fill <= exch'[p].fill
            /\ Reach(exch')[p] <= Reach(exch)[p]
  <2>1. CASE p = o
    <3>1. Reach(exch)[o] = exch[o].amount /\ Reach(exch')[o] <= exch'[o].amount
        BY <1>2, <1>6, Reaches
    <3>2. QED
        BY <1>4, <1>5, <2>1, <3>1
  <2>2. CASE p # o
      BY <1>2, <1>4, <1>6, <2>2, Reaches
  <2>3. QED
      BY <2>1, <2>2
<1>9. QED
    BY <1>2, <1>6, <1>7, <1>8 DEF Sane, Moves

LEMMA SubmitMoves ==
    ASSUME IInv, Money, Submit
    PROVE  /\ Sane(exch') /\ Moves(exch, exch')
           /\ NextOrder \in Orders /\ exch'[NextOrder].amount = SliceAmount(worker.task)
<1>1. /\ worker.pc = "submit" /\ worker.task \in Tasks /\ Kept(This, exch)
      /\ This.filled < Total
    BY ThisKept DEF Submit, At, Money, Unfinished, This
<1>2. OrdersShaped(exch) /\ Executable(exch)
    BY DEF IInv, Money
<1>3. /\ OrdersShaped(exch') /\ Ages(exch, exch') /\ NextOrder \in Orders
      /\ \A o \in Orders \ {NextOrder} : exch'[o] = exch[o]
    BY SubmitAges
<1>4. exch[NextOrder].state = "none"
    BY DEF Submit, NextOrder
<1>5. exch'[NextOrder].amount = SliceAmount(worker.task) /\ exch'[NextOrder].fill = 0
    BY <1>3 DEF Submit, IInv, OrdersShaped
<1>6. SliceAmount(worker.task) \in Nat \ {0}
    BY <1>1, TaskAssumption DEF SliceAmount, Lesser, This, Kept, TaskShaped, Task
<1>7. Executable(exch')
    BY <1>2, <1>3, <1>5, <1>6 DEF Executable
<1>8. ASSUME NEW o \in Orders, exch[o].state # "none"
      PROVE /\ exch'[o].amount = exch[o].amount /\ exch[o].fill <= exch'[o].fill
            /\ Reach(exch')[o] <= Reach(exch)[o]
    BY <1>2, <1>3, <1>4, <1>7, <1>8, Reaches
<1>9. QED
    BY <1>3, <1>5, <1>7, <1>8 DEF Sane, Moves

(* The worker writes the record of its task. *)
LEMMA ChangedMoney ==
    ASSUME IInv, Money, worker.pc # "idle", NEW record \in Task,
           NEW lag, lagged \subseteq lag,
           Reckoned(record, exch), Within(worker.task, record, exch, overlapped, lag),
           task' = Changed(record)
    PROVE  /\ \A t \in Tasks : Reckoned(task'[t], exch)
           /\ \A t \in Tasks : Within(t, task'[t], exch, overlapped, lag)
           /\ task'[worker.task].placed = record.placed
           /\ task'[worker.task].open = record.open
           /\ task'[worker.task].filled = record.filled
<1> DEFINE cleared == [record EXCEPT !.status = "cleared"]
<1>1. /\ cleared.placed = record.placed /\ cleared.open = record.open
      /\ cleared.filled = record.filled /\ cleared.known = record.known
      /\ cleared.status = "cleared"
    BY DEF Task
<1>2. worker.task \in Tasks /\ DOMAIN task = Tasks
    BY DEF IInv, Book, Table, Coroutines
<1>3. task'[worker.task] \in {record, cleared}
    BY <1>2 DEF Changed
<1>4. \A t \in Tasks \ {worker.task} : task'[t] = task[t]
    BY <1>2 DEF Changed
<1> HIDE DEF cleared
<1>5. /\ task'[worker.task].placed = record.placed
      /\ task'[worker.task].open = record.open
      /\ task'[worker.task].filled = record.filled
      /\ task'[worker.task].known = record.known
      /\ task'[worker.task].status = "complete" => record.status = "complete"
    BY <1>1, <1>3
<1>6. /\ Reckoned(task'[worker.task], exch)
      /\ Within(worker.task, task'[worker.task], exch, overlapped, lag)
    BY <1>5, CopyCounts
<1>7. ASSUME NEW t \in Tasks \ {worker.task}
      PROVE  Reckoned(task'[t], exch) /\ Within(t, task'[t], exch, overlapped, lag)
    BY <1>4, WithinGrows DEF Money
<1>8. QED
    BY <1>5, <1>6, <1>7

LEMMA EndsMoney ==
    ASSUME IInv, Money, worker.pc # "idle", NEW record \in Task,
           lagged \subseteq lagged', Reckoned(record, exch),
           Within(worker.task, record, exch, overlapped, lagged'),
           EndsWith(record), UNCHANGED <<exch, overlapped>>
    PROVE  Money'
<1>1. /\ \A t \in Tasks : Reckoned(task'[t], exch)
      /\ \A t \in Tasks : Within(t, task'[t], exch, overlapped, lagged')
    BY ChangedMoney DEF EndsWith
<1>2. worker'.pc = "idle" /\ (file' = task' \/ file' = file)
    BY IdleTyped DEF EndsWith, PassSaves
<1>3. \A t \in Tasks : /\ Reckoned(file[t], exch)
                     /\ Within(t, file[t], exch, overlapped, lagged')
    BY WithinGrows DEF Money
<1>4. QED
    BY <1>1, <1>2, <1>3 DEF Money

LEMMA ContinuesMoney ==
    ASSUME IInv, Money, worker.pc # "idle", NEW record \in Task,
           lagged \subseteq lagged', Reckoned(record, exch),
           Within(worker.task, record, exch, overlapped, lagged'),
           ContinuesWith(record), UNCHANGED <<exch, overlapped>>,
           worker'.task = worker.task, Unfinished(worker', record, exch),
           worker.task \notin overlapped => Budgeted(worker', record, exch)
    PROVE  Money'
<1>1. /\ \A t \in Tasks : Reckoned(task'[t], exch)
      /\ \A t \in Tasks : Within(t, task'[t], exch, overlapped, lagged')
      /\ task'[worker.task].placed = record.placed
      /\ task'[worker.task].open = record.open
      /\ task'[worker.task].filled = record.filled
    BY ChangedMoney DEF ContinuesWith
<1>2. Unfinished(worker', task'[worker.task], exch)
    BY <1>1, CopyCounts
<1>3. worker.task \notin overlapped => Budgeted(worker', task'[worker.task], exch)
    BY <1>1, CopyCounts
<1>4. \A t \in Tasks : Within(t, file[t], exch, overlapped, lagged')
    BY WithinGrows DEF Money
<1>5. QED
    BY <1>1, <1>2, <1>3, <1>4 DEF Money, ContinuesWith

(* A record of the worker that keeps its orders and its count. *)
LEMMA ThisMoney ==
    ASSUME IInv, Money, worker.pc # "idle"
    PROVE  /\ Kept(This, exch) /\ This \in Task /\ Reckoned(This, exch) /\ Unfinished(worker, This, exch)
           /\ Within(worker.task, This, exch, overlapped, lagged)
           /\ worker.task \notin overlapped => Budgeted(worker, This, exch)
BY ThisKept DEF Money, This, Kept, TaskShaped

LEMMA EndsCopy ==
    ASSUME IInv, Money, worker.pc # "idle", NEW record \in Task,
           record.placed = This.placed, record.filled = This.filled,
           record.known = This.known, record.status = "complete" => This.status = "complete",
           EndsWith(record), UNCHANGED <<exch, overlapped, lagged>>
    PROVE  Money'
BY ThisMoney, CopyCounts, EndsMoney

LEMMA BeginCycleMoney == ASSUME IInv, Money, NEW t \in Tasks, BeginCycle(t) PROVE Money'
<1>1. worker'.pc \in {"recover", "cancel", "confirm"}
    BY DEF BeginCycle, Idle
<1>2. UNCHANGED <<task, file, exch, overlapped, lagged>>
    BY DEF BeginCycle, history
<1>3. QED
    BY <1>1, <1>2 DEF Money, Unfinished, Budgeted

LEMMA OwnerUnavailableMoney ==
    ASSUME IInv, Money, NEW t \in Tasks, OwnerUnavailable(t) PROVE Money'
<1>1. task[t] \in Task /\ worker.pc = "idle" /\ DOMAIN task = Tasks
    BY DEF OwnerUnavailable, At, IInv, Book, Table, Kept, TaskShaped
<1>2. /\ task'[t].placed = task[t].placed /\ task'[t].filled = task[t].filled
      /\ task'[t].known = task[t].known /\ task'[t].status = "active"
      /\ \A u \in Tasks \ {t} : task'[u] = task[u]
    BY <1>1 DEF OwnerUnavailable, Task
<1>3. /\ UNCHANGED <<exch, worker, overlapped, lagged>>
      /\ file' = task' \/ file' = file
    BY DEF OwnerUnavailable, PassSaves, history
<1>4. Reckoned(task'[t], exch) /\ Within(t, task'[t], exch, overlapped, lagged)
    BY <1>2, CopyCounts DEF Money
<1>5. QED
    BY <1>1, <1>2, <1>3, <1>4 DEF Money

LEMMA FailMoney ==
    ASSUME IInv, Money, Fail \/ LoseReply \/ (Recover /\ EndsWith(StatusAfter("active")))
    PROVE  Money'
<1>1. worker.pc # "idle" /\ UNCHANGED <<exch, overlapped, lagged>>
    BY DEF Fail, LoseReply, Recover, At, history
<1>2. /\ This \in Task /\ StatusAfter("active") \in Task
      /\ StatusAfter("active").placed = This.placed
      /\ StatusAfter("active").filled = This.filled
      /\ StatusAfter("active").known = This.known
      /\ StatusAfter("active").status = "active"
  <2>1. This \in Task
      BY <1>1, ThisMoney
  <2>2. QED
      BY <2>1, StatusNames DEF StatusAfter, Task, Statuses
<1>3. EndsWith(This) \/ EndsWith(StatusAfter("active"))
    BY DEF Fail, LoseReply
<1>4. QED
    BY <1>1, <1>2, <1>3, EndsCopy

LEMMA RecoverMoney == ASSUME IInv, Money, Recover PROVE Money'
<1>1. CASE EndsWith(StatusAfter("active"))
    BY <1>1, FailMoney
<1>2. CASE GoTo("read_open") /\ ContinuesWith(This)
  <2>1. worker.pc # "idle" /\ worker \in Worker
      BY ThisKept DEF Recover, At
  <2>2. worker'.task = worker.task /\ worker'.pc = "read_open"
      BY <1>2, <2>1, GoToTyped
  <2>3. Unfinished(worker', This, exch) /\ Budgeted(worker', This, exch)
      BY <2>2 DEF Unfinished, Budgeted
  <2>4. UNCHANGED <<exch, overlapped, lagged>>
      BY DEF Recover, history
  <2>5. QED
      BY <1>2, <2>1, <2>2, <2>3, <2>4, ThisMoney, ContinuesMoney
<1>3. QED
    BY <1>1, <1>2 DEF Recover

LEMMA ReadOpenMoney == ASSUME IInv, Money, ReadOpen PROVE Money'
<1>1. /\ worker.pc # "idle" /\ worker \in Worker /\ Kept(This, exch)
      /\ UNCHANGED <<exch, overlapped, lagged>>
    BY ThisKept DEF ReadOpen, At, history
<1>2. CASE This.placed = {}
  <2> DEFINE record == [This EXCEPT !.filled = 0, !.open = {}]
  <2>1. Kept(record, exch)
      BY <1>1, <1>2, Zero, EmptyKeeps
  <2>2. ContinuesWith(record) /\ GoTo("plan_stop")
      BY <1>2 DEF ReadOpen
  <2>3. /\ record.placed = This.placed /\ record.filled = 0
        /\ record.known = This.known /\ record.status = This.status
      BY <1>1 DEF Kept, TaskShaped, Task
  <2>4. TaskShaped(record) /\ record \in Task
      BY <2>1 DEF Kept, TaskShaped
  <2> HIDE DEF record
  <2>5. Exposed(record, exch) = 0 /\ Reckoned(record, exch)
      BY <1>1, <1>2, <2>3, <2>4, NothingPlaced, ThisMoney, CopyCounts
  <2>6. Within(worker.task, record, exch, overlapped, lagged)
    <3>1. Within(worker.task, This, exch, overlapped, lagged) /\ record.known = {}
        BY <1>1, <1>2, <2>3, ThisMoney DEF Reckoned, Units
    <3>2. /\ Exposed(record, exch) = Exposed(This, exch)
          /\ LiveOf(record, exch) = LiveOf(This, exch)
        BY <2>3, CopyCounts
    <3>3. QED
        BY <2>3, <3>1, <3>2, FS_EmptySet DEF Within
  <2>7. worker'.pc = "plan_stop" /\ worker'.task = worker.task
      BY <1>1, <2>2, GoToTyped
  <2>8. Unfinished(worker', record, exch) /\ Budgeted(worker', record, exch)
      BY <2>3, <2>5, <2>7, TaskAssumption DEF Unfinished, Budgeted
  <2>9. QED
      BY <1>1, <2>2, <2>4, <2>5, <2>6, <2>7, <2>8, ContinuesMoney
<1>3. CASE This.placed # {}
  <2>1. /\ worker' = [worker EXCEPT !.pc = "read_history", !.ids = OpenIn(This.placed)]
        /\ ContinuesWith(This)
      BY <1>3 DEF ReadOpen
  <2>2. worker'.pc = "read_history" /\ worker'.task = worker.task
      BY <1>1, <2>1 DEF Worker
  <2>3. Unfinished(worker', This, exch) /\ Budgeted(worker', This, exch)
      BY <2>2 DEF Unfinished, Budgeted
  <2>4. QED
      BY <1>1, <2>1, <2>2, <2>3, ThisMoney, ContinuesMoney
<1>4. QED
    BY <1>2, <1>3

(* A count is not below what has traded, cut to the total; with a whole     *)
(* list of trades it is not above the trades that are then known.           *)
LEMMA Counting ==
    ASSUME NEW r, TaskShaped(r), NEW trades \in SUBSET TradesOf(r.placed),
           r.known \subseteq TradesOf(r.placed)
    PROVE  /\ Counted(r, trades) \in 0..Total
           /\ Lesser(Total, Traded(r, exch)) <= Counted(r, trades)
           /\ trades = TradesOf(r.placed) /\ r.filled <= Cardinality(r.known) =>
                  Counted(r, trades) <= Cardinality(r.known \cup trades)
<1> DEFINE new == Cardinality(trades \ r.known)
           late == Cardinality(LateFills(r, trades))
           shown == Cardinality(TradesOf(r.placed))
           count == CountedWith(r, trades \ r.known, trades)
<1>1. IsFiniteSet(r.placed) /\ r.filled \in 0..Total /\ Total \in Nat
    BY CountsTyped DEF TaskShaped
<1>2. /\ Counted(r, trades) \in 0..Total /\ new \in Nat /\ late \in Nat
      /\ shown \in Nat /\ shown = Traded(r, exch) /\ IsFiniteSet(TradesOf(r.placed))
    BY <1>1, CountedTyped, TradesTyped DEF TradesOf, Traded, Fills
<1>3. /\ Counted(r, trades) = Lesser(Total, count)
      /\ count = IF r.filled + new + late >= shown THEN r.filled + new + late ELSE shown
    BY DEF Counted, CountedWith
<1>4. ASSUME trades = TradesOf(r.placed), r.filled <= Cardinality(r.known)
      PROVE  late = 0 /\ r.filled + new <= shown /\ r.known \cup trades = TradesOf(r.placed)
  <2>1. LateFills(r, trades) = {}
      BY <1>4 DEF LateFills, FinalIn, TradesOf, Units
  <2>2. /\ IsFiniteSet(r.known) /\ Cardinality(r.known) \in Nat
        /\ trades \cap r.known = r.known
      BY <1>2, <1>4, FS_Subset, FS_CardinalityType
  <2>3. new = shown - Cardinality(r.known)
    <3>1. Cardinality(trades \ r.known) = Cardinality(trades) - Cardinality(trades \cap r.known)
        BY <1>2, <1>4, FS_Difference
    <3>2. QED
        BY <1>4, <2>2, <3>1
  <2>4. QED
      BY <1>1, <1>2, <1>4, <2>1, <2>2, <2>3, FS_EmptySet
<1> HIDE DEF new, late, shown, count
<1>5. count \in Nat /\ shown <= count
    BY <1>1, <1>2, <1>3
<1>6. Lesser(Total, Traded(r, exch)) <= Counted(r, trades)
    BY <1>1, <1>2, <1>3, <1>5 DEF Lesser
<1>7. ASSUME trades = TradesOf(r.placed), r.filled <= Cardinality(r.known)
      PROVE  Counted(r, trades) <= Cardinality(r.known \cup trades)
  <2>1. count <= shown /\ Cardinality(r.known \cup trades) = shown
      BY <1>1, <1>2, <1>3, <1>4, <1>7 DEF shown
  <2>2. QED
      BY <1>1, <1>2, <1>3, <1>5, <2>1 DEF Lesser
<1>8. QED
    BY <1>2, <1>6, <1>7

(* A record that counts to the total what it knows has traded it.           *)
LEMMA CountedOut ==
    ASSUME IInv, Money, NEW t, NEW r, TaskShaped(r), Reckoned(r, exch),
           NEW over, NEW lag, Within(t, r, exch, over, lag),
           t \notin over \cup lag, r.filled >= Total
    PROVE  Exposed(r, exch) = Total /\ LiveOf(r, exch) = {}
<1>1. /\ Exposed(r, exch) <= Total /\ r.filled <= Cardinality(r.known)
      /\ r.known \subseteq Units(r.placed, Fills(exch))
    BY DEF Within, Reckoned
<1>2. Cardinality(r.known) \in Nat /\ Cardinality(r.known) <= Traded(r, exch)
    BY <1>1, UnitsFinite, FS_Subset, FS_CardinalityType DEF Traded, TaskShaped
<1>3. /\ Traded(r, exch) <= Exposed(r, exch)
      /\ Traded(r, exch) = Exposed(r, exch) <=> LiveOf(r, exch) = {}
    BY TradedReaches DEF IInv, Money
<1>4. QED
    BY <1>1, <1>2, <1>3, CountsTyped

LEMMA ReadHistoryMoney == ASSUME IInv, Money, ReadHistory PROVE Money'
<1>1. /\ worker.pc = "read_history" /\ worker \in Worker /\ Kept(This, exch)
      /\ TaskShaped(This) /\ LiveOf(This, exch) \subseteq worker.ids
      /\ UNCHANGED <<exch, overlapped>>
    BY ThisKept DEF ReadHistory, At, Sound, Kept
<1>2. Reckoned(This, exch) /\ Within(worker.task, This, exch, overlapped, lagged)
    BY <1>1, ThisMoney
<1>3. PICK trades \in SUBSET TradesOf(This.placed) :
          /\ ListsTrades(trades)
          /\ LET record == WithOpenIds(Refreshed(This, trades), worker.ids)
             IN  CASE worker.why = "expired" -> EndsWith(record)
                   [] worker.why # "expired" /\ record.filled >= Total ->
                          EndsWith([record EXCEPT !.status = "complete"])
                   [] OTHER -> /\ worker' = [worker EXCEPT !.pc = "plan_stop", !.ids = {}]
                               /\ ContinuesWith(record)
    BY DEF ReadHistory
<1> DEFINE filled == Counted(This, trades)
           counted == Refreshed(This, trades)
           record == WithOpenIds(counted, worker.ids)
           complete == [record EXCEPT !.status = "complete"]
<1>4. /\ lagged \subseteq lagged'
      /\ worker.task \notin lagged' =>
             worker.task \notin lagged /\ trades = TradesOf(This.placed)
    BY <1>3 DEF ListsTrades
<1>5. /\ filled \in 0..Total /\ Total \in Nat
      /\ Lesser(Total, Traded(This, exch)) <= filled
      /\ trades = TradesOf(This.placed) /\ This.filled <= Cardinality(This.known) =>
             filled <= Cardinality(This.known \cup trades)
  <2>1. This.known \subseteq TradesOf(This.placed)
      BY <1>2 DEF Reckoned, TradesOf, Fills
  <2>2. QED
      BY <1>1, <2>1, Counting, TaskAssumption
<1>6. /\ counted \in Task /\ counted.placed = This.placed /\ counted.filled = filled
      /\ counted.known = This.known \cup trades /\ counted.status = This.status
  <2>1. counted \in Task
      BY <1>1, RefreshedKeeps DEF Kept, TaskShaped
  <2>2. QED
      BY <1>1, <2>1 DEF Refreshed, TaskShaped, Task
<1> HIDE DEF filled, counted
<1>7. /\ record \in Task /\ record.placed = This.placed /\ record.filled = filled
      /\ record.known = This.known \cup trades
      /\ record.open = worker.ids /\ record.status = This.status
    BY <1>1, <1>6 DEF WithOpenIds, Task, Worker
<1> HIDE DEF record
<1>8. /\ complete \in Task /\ complete.placed = This.placed /\ complete.filled = filled
      /\ complete.known = record.known /\ complete.status = "complete"
    BY <1>7, StatusNames DEF Task, Statuses
<1> HIDE DEF complete
<1>9. /\ Exposed(record, exch) = Exposed(This, exch)
      /\ Exposed(complete, exch) = Exposed(This, exch)
      /\ LiveOf(record, exch) = LiveOf(This, exch) /\ LiveOf(complete, exch) = LiveOf(This, exch)
    BY <1>7, <1>8, CopyCounts
<1>10. Reckoned(record, exch) /\ Reckoned(complete, exch)
  <2>1. This.known \cup trades \subseteq Units(This.placed, Fills(exch))
      BY <1>2 DEF Reckoned, TradesOf, Fills
  <2>2. Reckoned(record, exch)
      BY <1>2, <1>7, <1>9, <2>1 DEF Reckoned
  <2>3. QED
      BY <1>7, <1>8, <2>2, CopyCounts
<1>11. Within(worker.task, record, exch, overlapped, lagged')
  <2>1. worker.task \notin lagged' => filled <= Cardinality(This.known \cup trades)
      BY <1>2, <1>4, <1>5 DEF Within
  <2>2. QED
      BY <1>2, <1>4, <1>7, <1>9, <2>1 DEF Within
<1>12. CASE EndsWith(record)
    BY <1>1, <1>4, <1>7, <1>10, <1>11, <1>12, EndsMoney
<1>13. CASE filled >= Total /\ EndsWith(complete)
  <2>1. TaskShaped(record)
      BY <1>1, <1>7 DEF TaskShaped
  <2>2. worker.task \notin overlapped \cup lagged' =>
            Exposed(record, exch) = Total /\ LiveOf(record, exch) = {}
      BY <1>7, <1>10, <1>11, <1>13, <2>1, CountedOut
  <2>3. Within(worker.task, complete, exch, overlapped, lagged')
      BY <1>7, <1>8, <1>9, <1>11, <2>2 DEF Within
  <2>4. QED
      BY <1>1, <1>4, <1>8, <1>10, <1>13, <2>3, EndsMoney
<1>14. CASE /\ filled < Total /\ ContinuesWith(record)
            /\ worker' = [worker EXCEPT !.pc = "plan_stop", !.ids = {}]
  <2>1. worker'.task = worker.task /\ worker'.pc = "plan_stop"
      BY <1>1, <1>14 DEF Worker
  <2>2. /\ Traded(This, exch) <= filled
        /\ Traded(This, exch) \in Nat /\ Exposed(This, exch) \in Nat
      BY <1>1, <1>5, <1>14, CountsTyped DEF Lesser
  <2>3. Unfinished(worker', record, exch)
    <3>1. Exposed(This, exch) <= Traded(This, exch) + Slice
        BY <1>1, <1>2, OneLiveReaches DEF IInv, Money, Reckoned
    <3>2. QED
        BY <1>5, <1>7, <1>9, <1>14, <2>1, <2>2, <3>1, TaskAssumption DEF Unfinished
  <2>4. Budgeted(worker', record, exch)
    <3>1. record.open = {} => Exposed(This, exch) = Traded(This, exch)
        BY <1>1, <1>7, TradedReaches DEF IInv, Money
    <3>2. QED
        BY <1>5, <1>7, <1>9, <2>1, <2>2, <3>1 DEF Budgeted
  <2>5. QED
      BY <1>1, <1>4, <1>7, <1>10, <1>11, <1>14, <2>1, <2>3, <2>4, ContinuesMoney
<1>15. \/ EndsWith(record)
       \/ filled >= Total /\ EndsWith(complete)
       \/ /\ filled < Total /\ ContinuesWith(record)
          /\ worker' = [worker EXCEPT !.pc = "plan_stop", !.ids = {}]
  <2>1. \/ EndsWith(record)
        \/ record.filled >= Total /\ EndsWith(complete)
        \/ /\ ~(record.filled >= Total) /\ ContinuesWith(record)
           /\ worker' = [worker EXCEPT !.pc = "plan_stop", !.ids = {}]
    <3>1. CASE worker.why = "expired"
        BY <1>3, <3>1 DEF record, counted
    <3>2. CASE worker.why # "expired" /\ record.filled >= Total
        BY <1>3, <3>2 DEF record, counted, complete
    <3>3. CASE worker.why # "expired" /\ ~(record.filled >= Total)
        BY <1>3, <3>3 DEF record, counted
    <3>4. QED
        BY <3>1, <3>2, <3>3
  <2>2. QED
      BY <1>5, <1>7, <2>1
<1>16. QED
    BY <1>12, <1>13, <1>14, <1>15

LEMMA PlanStopMoney == ASSUME IInv, Money, PlanStop PROVE Money'
<1>1. /\ worker.pc = "plan_stop" /\ worker \in Worker /\ This \in Task
      /\ UNCHANGED <<exch, overlapped, lagged>>
    BY ThisKept DEF PlanStop, At, Kept, TaskShaped, history
<1>2. ASSUME NEW record \in Task, EndsWith(record), record.placed = This.placed,
             record.filled = This.filled, record.known = This.known,
             record.status # "complete"
      PROVE  Money'
    BY <1>1, <1>2, EndsCopy
<1>3. ASSUME NEW record \in Task, ContinuesWith(record), record.placed = This.placed,
             record.filled = This.filled, record.known = This.known,
             record.status = This.status,
             worker'.task = worker.task, worker'.pc = "cancel"
      PROVE  Money'
  <2>1. Unfinished(worker', record, exch) /\ Budgeted(worker', record, exch)
      BY <1>3 DEF Unfinished, Budgeted
  <2>2. QED
      BY <1>1, <1>3, <2>1, ThisMoney, CopyCounts, ContinuesMoney
<1>4. /\ StatusAfter("active") \in Task /\ StatusAfter("active").placed = This.placed
      /\ StatusAfter("active").filled = This.filled
      /\ StatusAfter("active").known = This.known /\ StatusAfter("active").status = "active"
    BY <1>1, StatusNames DEF StatusAfter, Task, Statuses
<1>5. CASE Proceed(This)
  <2>1. CASE EndsWith([This EXCEPT !.status = "active"])
      BY <1>2, <1>4, <2>1 DEF StatusAfter
  <2>2. CASE \E expired \in SUBSET This.open \ {{}} :
                 /\ worker' = [worker EXCEPT !.pc = "cancel", !.why = "expired",
                                             !.ids = expired]
                 /\ ContinuesWith(This)
      BY <1>1, <1>3, <2>2 DEF Worker
  <2>3. CASE This.open = {} /\ GoTo("plan") /\ ContinuesWith(This)
    <3>1. worker'.task = worker.task /\ worker'.pc = "plan"
        BY <1>1, <2>3, GoToTyped
    <3>2. Unfinished(worker', This, exch)
        BY <1>1, <3>1, ThisMoney DEF Unfinished
    <3>3. worker.task \notin overlapped => Budgeted(worker', This, exch)
        BY <1>1, <2>3, <3>1, ThisMoney DEF Budgeted
    <3>4. QED
        BY <1>1, <2>3, <3>1, <3>2, <3>3, ThisMoney, ContinuesMoney
  <2>4. QED
      BY <1>5, <2>1, <2>2, <2>3 DEF Proceed, HandleOpenOrders
<1>6. CASE EndsWith(StatusAfter("waiting_for_start_price"))
  <2>1. /\ StatusAfter(Waiting) \in Task /\ StatusAfter(Waiting).placed = This.placed
        /\ StatusAfter(Waiting).filled = This.filled
        /\ StatusAfter(Waiting).known = This.known /\ StatusAfter(Waiting).status = Waiting
      BY <1>1, StatusNames DEF StatusAfter, Task, Statuses
  <2>2. QED
      BY <1>2, <1>6, <2>1 DEF Waiting
<1>7. CASE EndsWith(Rearmed([This EXCEPT !.gated = TRUE,
                                         !.target = "waiting_for_start_price"]))
  <2> DEFINE record == Rearmed([This EXCEPT !.gated = TRUE,
                                            !.target = "waiting_for_start_price"])
  <2>1. Waiting \in Statuses /\ Waiting \in Targets
      BY StatusNames DEF Targets, Waiting
  <2>2. /\ record \in Task /\ record.placed = This.placed /\ record.filled = This.filled
        /\ record.known = This.known /\ record.status = Waiting
      BY <1>1, <2>1 DEF Rearmed, Task, Statuses, Waiting
  <2> HIDE DEF record
  <2>3. EndsWith(record)
      BY <1>7 DEF record
  <2>4. QED
      BY <1>2, <2>2, <2>3 DEF Waiting
<1>8. CASE /\ ContinuesWith([This EXCEPT !.gated = TRUE])
           /\ worker' = [worker EXCEPT !.pc = "cancel", !.why = "stop_price",
                                       !.ids = This.open,
                                       !.target = "waiting_for_start_price"]
  <2> DEFINE record == [This EXCEPT !.gated = TRUE]
  <2>1. /\ record \in Task /\ record.placed = This.placed /\ record.filled = This.filled
        /\ record.known = This.known /\ record.status = This.status
      BY <1>1 DEF Task
  <2> HIDE DEF record
  <2>2. ContinuesWith(record) /\ worker'.task = worker.task /\ worker'.pc = "cancel"
      BY <1>1, <1>8 DEF record, Worker
  <2>3. QED
      BY <1>3, <2>1, <2>2
<1>9. QED
    BY <1>5, <1>6, <1>7, <1>8 DEF PlanStop

LEMMA CancelMoney == ASSUME IInv, IInv', Money, Cancel PROVE Money'
<1>1. /\ worker.pc = "cancel" /\ worker \in Worker /\ worker.task \in Tasks
      /\ Kept(This, exch) /\ This \in Task /\ UNCHANGED <<overlapped, lagged>>
    BY ThisKept DEF Cancel, At, Kept, TaskShaped, history
<1>2. Sane(exch') /\ Moves(exch, exch')
    BY CancellationMoves DEF Cancel
<1>3. PICK record \in Task :
          /\ ContinuesWith(record) /\ record.placed = This.placed
          /\ record.filled = This.filled /\ record.known = This.known
          /\ record.status = "complete" => This.status = "complete"
  <2>1. CASE worker.why = "expired"
    <3> DEFINE record == [This EXCEPT !.status = "active", !.open = @ \ worker.ids,
                                     !.target = "stopped"]
    <3>1. /\ record \in Task /\ record.placed = This.placed /\ record.filled = This.filled
          /\ record.known = This.known /\ record.status = "active"
      <4>1. "active" \in Statuses /\ "stopped" \in Targets
          BY StatusNames DEF Targets
      <4>2. QED
          BY <1>1, <4>1 DEF Task, Statuses
    <3>2. ContinuesWith(record)
        BY <2>1 DEF Cancel
    <3>3. QED
        BY <3>1, <3>2
  <2>2. CASE worker.why # "expired"
      BY <1>1, <2>2 DEF Cancel
  <2>3. QED
      BY <2>1, <2>2
<1>4. worker'.pc \in {"read_open", "confirm"}
    BY <1>1, GoToTyped DEF Cancel, Worker
<1>5. /\ Reckoned(record, exch)
      /\ Within(worker.task, record, exch, overlapped, lagged)
    BY <1>1, <1>3, ThisMoney, CopyCounts
<1>6. /\ \A t \in Tasks : Reckoned(task'[t], exch)
      /\ \A t \in Tasks : Within(t, task'[t], exch, overlapped, lagged)
    BY <1>1, <1>3, <1>5, ChangedMoney DEF ContinuesWith
<1>7. file' = file /\ \A t \in Tasks : Kept(task'[t], exch) /\ Kept(file[t], exch)
  <2>1. file' = file /\ \A t \in Tasks : Kept(file[t], exch)
      BY <1>3 DEF IInv, ContinuesWith
  <2>2. \A t \in Tasks : Kept(task'[t], exch)
      BY <1>1, <1>2, CancelTasks
  <2>3. QED
      BY <2>1, <2>2
<1>8. /\ \A t \in Tasks : Reckoned(task'[t], exch') /\ Reckoned(file'[t], exch')
      /\ \A t \in Tasks : /\ Within(t, task'[t], exch', overlapped, lagged)
                          /\ Within(t, file'[t], exch', overlapped, lagged)
    BY <1>2, <1>6, <1>7, MovedKeeps DEF IInv, Money, Sane
<1>9. QED
    BY <1>1, <1>2, <1>4, <1>8 DEF Money, Sane, Unfinished, Budgeted

LEMMA ConfirmMoney == ASSUME IInv, Money, Confirm PROVE Money'
<1>1. /\ worker.pc = "confirm" /\ worker \in Worker /\ This \in Task
      /\ UNCHANGED <<exch, overlapped, lagged>>
    BY ThisKept DEF Confirm, ConfirmOneOf, At, Kept, TaskShaped, history
<1>2. PICK remaining \in Remaining(worker.ids) : EndsWith(Settled(remaining))
    BY DEF Confirm, ConfirmOneOf
<1>3. remaining \in SUBSET Orders
    BY <1>1 DEF Remaining, OpenIn, Worker
<1> DEFINE target == worker.target
           record == [This EXCEPT !.open = remaining, !.target = target]
<1>4. target \in Targets /\ "complete" \notin Targets /\ Waiting \in Targets
    BY <1>1 DEF Worker, Targets, Waiting
<1> HIDE DEF target
<1>5. /\ record \in Task /\ record.placed = This.placed /\ record.filled = This.filled
      /\ record.known = This.known
    BY <1>1, <1>3, <1>4 DEF Task
<1> HIDE DEF record
<1>6. PICK s \in Targets \cup {Pending} :
          \/ Settled(remaining) = [record EXCEPT !.status = s]
          \/ Settled(remaining) = Rearmed(record)
  <2>1. Settled(remaining) =
          CASE remaining # {} -> [record EXCEPT !.status = "stop_cancel_pending"]
            [] remaining = {} /\ target = "waiting_for_start_price" -> Rearmed(record)
            [] OTHER -> [record EXCEPT !.status = target]
      BY DEF Settled, record, target
  <2>2. QED
      BY <1>4, <2>1 DEF Pending
<1>7. s \in Statuses /\ s # "complete" /\ Waiting \in Statuses /\ Waiting # "complete"
    BY <1>4, StatusNames DEF Pending, Waiting
<1>8. /\ Settled(remaining) \in Task /\ Settled(remaining).placed = This.placed
      /\ Settled(remaining).filled = This.filled /\ Settled(remaining).known = This.known
      /\ Settled(remaining).status # "complete"
    BY <1>5, <1>6, <1>7 DEF Rearmed, Task, Statuses, Waiting
<1>9. QED
    BY <1>1, <1>2, <1>8, EndsCopy

LEMMA PlanMoney == ASSUME IInv, Money, Plan PROVE Money'
<1>1. /\ worker.pc = "plan" /\ worker \in Worker /\ This \in Task
      /\ This.filled < Total /\ UNCHANGED <<exch, overlapped, lagged>>
    BY ThisKept, ThisMoney DEF Plan, At, Kept, TaskShaped, Unfinished, history
<1>2. CASE \E s \in Planned \cup {"blocked_by_risk"} : EndsWith(AfterCycle(s))
  <2>1. PICK s \in Planned \cup {"blocked_by_risk"} : EndsWith(AfterCycle(s))
      BY <1>2
  <2>2. s # "complete"
      BY <1>1, TaskAssumption DEF Planned, Task
  <2>3. StatusFromCycle(s) \in Statuses /\ StatusFromCycle(s) # "complete"
      BY <2>2, StatusNames DEF StatusFromCycle, Terminal, Waiting, ByPrice
  <2>4. /\ AfterCycle(s) \in Task /\ AfterCycle(s).placed = This.placed
        /\ AfterCycle(s).filled = This.filled /\ AfterCycle(s).known = This.known
        /\ AfterCycle(s).status # "complete"
      BY <1>1, <2>3, AfterCycleTyped
  <2>5. QED
      BY <1>1, <2>1, <2>4, EndsCopy
<1>3. CASE GoTo("submit") /\ ContinuesWith(This)
  <2>1. worker'.task = worker.task /\ worker'.pc = "submit"
      BY <1>1, <1>3, GoToTyped
  <2>2. Unfinished(worker', This, exch)
      BY <1>1, <2>1, ThisMoney DEF Unfinished
  <2>3. worker.task \notin overlapped => Budgeted(worker', This, exch)
      BY <1>1, <2>1, ThisMoney DEF Budgeted
  <2>4. QED
      BY <1>1, <1>3, <2>1, <2>2, <2>3, ThisMoney, ContinuesMoney
<1>4. QED
    BY <1>2, <1>3 DEF Plan

LEMMA SubmitMoney == ASSUME IInv, Money, Submit PROVE Money'
<1>1. /\ worker.pc = "submit" /\ worker \in Worker /\ worker.task \in Tasks
      /\ TaskShaped(This) /\ UNCHANGED <<task, file, overlapped, lagged>>
    BY ThisKept DEF Submit, At, Kept, history
<1>2. /\ Sane(exch') /\ Moves(exch, exch')
      /\ NextOrder \in Orders /\ exch'[NextOrder].amount = SliceAmount(worker.task)
    BY SubmitMoves
<1>3. worker'.pc = "reply" /\ worker'.task = worker.task /\ worker'.order = NextOrder
    BY <1>1, <1>2 DEF Submit, Worker
<1>4. /\ \A t \in Tasks : Reckoned(task[t], exch') /\ Reckoned(file[t], exch')
      /\ \A t \in Tasks : /\ Within(t, task[t], exch', overlapped, lagged)
                          /\ Within(t, file[t], exch', overlapped, lagged)
    BY <1>2, OrdersMove
<1>5. ASSUME worker.task \notin overlapped
      PROVE  Exposed(This, exch') + exch'[NextOrder].amount <= Total
  <2>1. Exposed(This, exch) <= This.filled
      BY <1>1, <1>5, ThisMoney DEF Budgeted
  <2>2. Exposed(This, exch') <= Exposed(This, exch)
      BY <1>1, <1>2, ThisKept, MovedCounts DEF IInv, Money, Sane
  <2>3. SliceAmount(worker.task) <= Total - This.filled
      BY <1>1, CountsTyped, TaskAssumption DEF SliceAmount, Lesser, This
  <2>4. /\ Exposed(This, exch) \in Nat /\ Exposed(This, exch') \in Nat
        /\ This.filled \in 0..Total /\ Total \in Nat /\ SliceAmount(worker.task) \in Int
      BY <1>1, CountsTyped, TaskAssumption DEF SliceAmount, Lesser, This
  <2>5. QED
      BY <1>2, <2>1, <2>2, <2>3, <2>4
<1>6. LiveOf(This, exch') = {} /\ Exposed(This, exch') + exch'[NextOrder].amount <= Total + Slice
  <2>1. Exposed(This, exch) <= This.filled + Slice /\ LiveOf(This, exch) = {}
      BY <1>1, ThisMoney, ThisKept DEF Unfinished, Sound
  <2>2. Exposed(This, exch') <= Exposed(This, exch) /\ LiveOf(This, exch') = {}
      BY <1>1, <1>2, <2>1, ThisKept, MovedCounts, AgedKeeps DEF IInv, Money, Sane, Moves
  <2>3. SliceAmount(worker.task) <= Total - This.filled
      BY <1>1, CountsTyped, TaskAssumption DEF SliceAmount, Lesser, This
  <2>4. /\ Exposed(This, exch) \in Nat /\ Exposed(This, exch') \in Nat
        /\ This.filled \in 0..Total /\ Total \in Nat /\ Slice \in Nat
        /\ SliceAmount(worker.task) \in Int
      BY <1>1, CountsTyped, TaskAssumption DEF SliceAmount, Lesser, This
  <2>5. QED
      BY <1>2, <2>1, <2>2, <2>3, <2>4
<1>7. QED
    BY <1>1, <1>2, <1>3, <1>4, <1>5, <1>6 DEF Money, Sane, Unfinished, Budgeted, This

LEMMA RecordOrderMoney == ASSUME IInv, Money, RecordOrder PROVE Money'
<1>1. /\ worker.pc = "reply" /\ worker \in Worker /\ TaskShaped(This) /\ This \in Task
      /\ worker.order \in Orders /\ UNCHANGED <<exch, overlapped, lagged>>
      /\ OrdersShaped(exch) /\ Executable(exch)
    BY ThisKept DEF RecordOrder, At, Sound, Kept, TaskShaped, IInv, Money, history
<1> DEFINE after == AfterCycle("placed")
           record == [after EXCEPT !.placed = @ \cup {worker.order},
                                   !.open = @ \cup {worker.order}]
<1>2. /\ after \in Task /\ after.placed = This.placed /\ after.filled = This.filled
      /\ after.known = This.known /\ after.status = "active"
  <2>1. StatusFromCycle("placed") = "active"
      BY DEF StatusFromCycle, Terminal
  <2>2. QED
      BY <1>1, <2>1, StatusNames, AfterCycleTyped
<1> HIDE DEF after
<1>3. /\ record \in Task /\ record.placed = This.placed \cup {worker.order}
      /\ record.filled = This.filled /\ record.known = This.known
      /\ record.status = "active"
    BY <1>1, <1>2 DEF Task
<1>4. EndsWith(record)
    BY DEF RecordOrder, after
<1> HIDE DEF record
<1>5. TaskShaped(record)
    BY <1>1, <1>3, FS_AddElement DEF TaskShaped
<1>9. /\ exch[worker.order].amount \in 0..Slice
      /\ Exposed(record, exch) <= Exposed(This, exch) + exch[worker.order].amount
  <2>1. Reach(exch)[worker.order] \in Nat /\ exch[worker.order].amount \in 0..Slice
        /\ Reach(exch)[worker.order] <= exch[worker.order].amount
      BY <1>1, Reaches
  <2>2. Exposed(record, exch) <= Exposed(This, exch) + Reach(exch)[worker.order]
      BY <1>1, <1>3, <2>1, UnitsAdded DEF Exposed, TaskShaped
  <2>3. QED
      BY <1>1, <1>5, <2>1, <2>2, CountsTyped, TaskAssumption
<1>6. Reckoned(record, exch)
  <2>1. \A o \in This.placed : Fills(exch)[o] \in Int /\ Fills(exch)[o] <= Fills(exch)[o]
      BY <1>1, Reaches DEF Task
  <2>2. Units(This.placed, Fills(exch)) \subseteq Units(record.placed, Fills(exch))
      BY <1>3, <1>5, <2>1, MoreUnits DEF TaskShaped
  <2>3. record.known \subseteq Units(record.placed, Fills(exch))
      BY <1>1, <1>3, <2>2, ThisMoney DEF Reckoned
  <2>4. /\ LiveOf(This, exch) = {}
        /\ Exposed(This, exch) + exch[worker.order].amount <= Total + Slice
      BY <1>1, ThisMoney DEF Unfinished
  <2>5. \A o, p \in LiveOf(record, exch) : o = p
      BY <1>3, <2>4 DEF LiveOf
  <2>6. Exposed(record, exch) <= Total + Slice
      BY <1>1, <1>5, <1>9, <2>4, CountsTyped, TaskAssumption
  <2>7. QED
      BY <2>3, <2>5, <2>6 DEF Reckoned
<1>7. Within(worker.task, record, exch, overlapped, lagged)
  <2>1. ASSUME worker.task \notin overlapped PROVE Exposed(record, exch) <= Total
    <3>1. Exposed(This, exch) + exch[worker.order].amount <= Total
        BY <1>1, <2>1, ThisMoney DEF Budgeted
    <3>2. QED
        BY <1>1, <1>5, <1>9, <3>1, CountsTyped, TaskAssumption
  <2>2. worker.task \notin lagged => record.filled <= Cardinality(record.known)
      BY <1>1, <1>3, ThisMoney DEF Within
  <2>3. QED
      BY <1>3, <2>1, <2>2 DEF Within
<1>8. QED
    BY <1>1, <1>3, <1>4, <1>6, <1>7, EndsMoney

(* The API. *)
LEMMA SavedMoney ==
    ASSUME IInv, Money, NEW t \in Tasks, NEW record, Saved(t, record),
           Reckoned(record, exch), Within(t, record, exch, overlapped', lagged),
           worker.pc # "idle" /\ worker.task = t =>
               /\ Unfinished(worker, record, exch)
               /\ t \notin overlapped' => Budgeted(worker, record, exch),
           overlapped \subseteq overlapped', UNCHANGED <<exch, worker, lagged>>
    PROVE  Money'
<1>1. task'[t] = record /\ \A u \in Tasks \ {t} : task'[u] = task[u]
    BY DEF Saved, IInv, Book, Table
<1>2. file' = task'
    BY DEF Saved
<1>3. worker.pc # "idle" => worker.task \in Tasks
    BY DEF IInv, Coroutines
<1>4. \A u \in Tasks \ {t} : Within(u, task[u], exch, overlapped', lagged)
    BY WithinGrows DEF Money
<1>5. QED
    BY <1>1, <1>2, <1>3, <1>4 DEF Money

LEMMA SavedCopyMoney ==
    ASSUME IInv, Money, NEW t \in Tasks, NEW record, Saved(t, record),
           record.placed = task[t].placed, record.filled = task[t].filled,
           record.known = task[t].known, record.status # "complete",
           worker.task = t => t \in overlapped' \/ record.open = task[t].open,
           overlapped \subseteq overlapped', UNCHANGED <<exch, worker, lagged>>
    PROVE  Money'
<1>1. Reckoned(record, exch) /\ Within(t, record, exch, overlapped', lagged)
  <2>1. Reckoned(record, exch) /\ Within(t, record, exch, overlapped, lagged)
      BY CopyCounts DEF Money
  <2>2. QED
      BY <2>1, WithinGrows
<1>2. ASSUME worker.pc # "idle", worker.task = t
      PROVE  /\ Unfinished(worker, record, exch)
             /\ t \notin overlapped' => Budgeted(worker, record, exch)
    BY <1>2, CopyCounts DEF Money, Unfinished
<1>3. QED
    BY <1>1, <1>2, SavedMoney

LEMMA CreateMoney == ASSUME IInv, Money, NEW t \in Tasks, Create(t) PROVE Money'
<1> DEFINE record == [NoSuchTask EXCEPT !.status = "active"]
<1>1. /\ TaskShaped(record) /\ record.placed = {} /\ record.filled = 0
      /\ record.known = {} /\ record.status = "active"
    BY NewTaskKept DEF IInv, Kept, NoSuchTask
<1>2. Saved(t, record) /\ UNCHANGED <<exch, worker, overlapped, lagged>>
    BY DEF Create, history
<1> HIDE DEF record
<1>3. /\ Reckoned(record, exch) /\ Within(t, record, exch, overlapped, lagged)
      /\ Exposed(record, exch) = 0 /\ LiveOf(record, exch) = {}
    BY <1>1, NothingPlaced
<1>4. ASSUME worker.pc # "idle", worker.task = t
      PROVE  /\ Unfinished(worker, record, exch)
             /\ t \notin overlapped => Budgeted(worker, record, exch)
  <2>3. worker.pc = "reply" => exch[worker.order].amount \in 0..Slice
      BY <1>4, ThisKept, Reaches DEF Sound, IInv, Money
  <2>1. Unfinished(worker, record, exch)
      BY <1>1, <1>3, <2>3, TaskAssumption DEF Unfinished
  <2>2. ASSUME t \notin overlapped, worker.pc = "reply"
        PROVE  exch[worker.order].amount <= Total
    <3>1. TaskShaped(This) /\ worker.order \in Orders
        BY <1>4, <2>2, ThisKept DEF Kept, Sound
    <3>2. exch[worker.order].amount \in 0..Slice
        BY <3>1, Reaches DEF IInv, Money
    <3>3. Exposed(This, exch) + exch[worker.order].amount <= Total
        BY <1>4, <2>2, ThisMoney DEF Budgeted
    <3>4. QED
        BY <3>1, <3>2, <3>3, CountsTyped, TaskAssumption
  <2>4. t \notin overlapped => Budgeted(worker, record, exch)
      BY <1>1, <1>3, <2>2, <2>3, TaskAssumption DEF Budgeted
  <2>5. QED
      BY <2>1, <2>4
<1>5. QED
    BY <1>2, <1>3, <1>4, SavedMoney

LEMMA EndStopMoney == ASSUME IInv, Money, EndStop PROVE Money'
<1> DEFINE t == stopper.task
<1>1. /\ t \in Tasks /\ task[t] \in Task /\ UNCHANGED <<exch, worker, lagged>>
      /\ overlapped' = overlapped \cup ({t} \cap {worker.task})
    BY DEF EndStop, IInv, Coroutines, Kept, TaskShaped
<1>2. CASE task[t].status \notin Listed
  <2>1. UNCHANGED <<task, file>>
      BY <1>2 DEF EndStop
  <2>2. overlapped \subseteq overlapped'
      BY <1>1
  <2>3. QED
      BY <1>1, <2>1, <2>2, WithinGrows DEF Money
<1>3. CASE task[t].status \in Listed
  <2>1. PICK remaining \in Remaining(stopper.ids) :
            LET open == StillOpen(t, remaining)
            IN  Saved(t, [task[t] EXCEPT !.open = open, !.target = "stopped",
                              !.status = IF open # {} THEN "stop_cancel_pending"
                                         ELSE "stopped"])
      BY <1>3 DEF EndStop
  <2> DEFINE open == StillOpen(t, remaining)
             status == IF open # {} THEN "stop_cancel_pending" ELSE "stopped"
             record == [task[t] EXCEPT !.open = open, !.target = "stopped", !.status = status]
  <2>2. Saved(t, record) /\ status # "complete"
      BY <2>1
  <2> HIDE DEF open, status
  <2>3. /\ record.placed = task[t].placed /\ record.filled = task[t].filled
        /\ record.known = task[t].known /\ record.status # "complete"
      BY <1>1, <2>2 DEF Task
  <2> HIDE DEF record, t
  <2>4. QED
      BY <1>1, <2>2, <2>3, SavedCopyMoney
<1>4. QED
    BY <1>2, <1>3

LEMMA ClearMoney == ASSUME IInv, Money, ClearTerminal PROVE Money'
<1>1. ASSUME NEW t \in Tasks
      PROVE  /\ task'[t].placed = task[t].placed /\ task'[t].open = task[t].open
             /\ task'[t].filled = task[t].filled /\ task'[t].known = task[t].known
             /\ task'[t].status = "complete" => task[t].status = "complete"
    BY DEF ClearTerminal, IInv, Kept, TaskShaped, Task
<1>2. UNCHANGED <<exch, worker, overlapped, lagged>> /\ file' = task'
    BY DEF ClearTerminal, history
<1>3. /\ \A t \in Tasks : Reckoned(task'[t], exch)
      /\ \A t \in Tasks : Within(t, task'[t], exch, overlapped, lagged)
    BY <1>1, CopyCounts DEF Money
<1>4. ASSUME worker.pc # "idle"
      PROVE  /\ Unfinished(worker, task'[worker.task], exch)
             /\ worker.task \notin overlapped => Budgeted(worker, task'[worker.task], exch)
  <2>1. worker.task \in Tasks
      BY <1>4 DEF IInv, Coroutines
  <2>2. QED
      BY <1>1, <1>4, <2>1, CopyCounts DEF Money, Unfinished
<1>5. QED
    BY <1>2, <1>3, <1>4 DEF Money

(* A step of the exchange, or of a stop that cancels. *)
LEMMA ExchangeMoney ==
    ASSUME IInv, Money, Sane(exch'), Moves(exch, exch'),
           UNCHANGED <<task, file, worker, overlapped, lagged>>
    PROVE  Money'
BY OrdersMove DEF Money, Sane

LEMMA ApiMoney == ASSUME IInv, Money, ApiStep PROVE Money'
<1>1. ASSUME NEW t \in Tasks, Create(t) PROVE Money'
    BY <1>1, CreateMoney
<1>2. ASSUME NEW t \in Tasks, Pause(t) \/ Resume(t) \/ StopNow(t) PROVE Money'
  <2>1. PICK s \in {"paused", "active", "stopped"} : Saved(t, [task[t] EXCEPT !.status = s])
      BY <1>2 DEF Pause, Resume, StopNow
  <2>2. UNCHANGED <<exch, worker, overlapped, lagged>>
      BY <1>2 DEF Pause, Resume, StopNow, history
  <2> DEFINE record == [task[t] EXCEPT !.status = s]
  <2>3. /\ record.placed = task[t].placed /\ record.filled = task[t].filled
        /\ record.known = task[t].known /\ record.open = task[t].open
        /\ record.status # "complete"
      BY DEF IInv, Kept, TaskShaped, Task
  <2>4. Saved(t, record)
      BY <2>1
  <2> HIDE DEF record
  <2>5. QED
      BY <2>2, <2>3, <2>4, SavedCopyMoney
<1>3. ASSUME NEW t \in Tasks, BeginStop(t) PROVE Money'
    BY <1>3 DEF BeginStop, Money, history
<1>4. CASE StopCancels
    BY <1>4, CancellationMoves, ExchangeMoney DEF StopCancels, history
<1>5. QED
    BY <1>1, <1>2, <1>3, <1>4, EndStopMoney, ClearMoney DEF ApiStep

LEMMA CrashMoney == ASSUME IInv, Money, Crash PROVE Money'
<1>1. ASSUME NEW t \in Tasks
      PROVE  /\ Reckoned(Loaded(file[t]), exch)
             /\ Within(t, Loaded(file[t]), exch, overlapped, lagged)
  <2> DEFINE r == file[t]
             loaded == Loaded(file[t])
  <2>1. /\ TaskShaped(r) /\ Reckoned(r, exch) /\ Within(t, r, exch, overlapped, lagged)
        /\ loaded.placed = r.placed /\ loaded.filled = r.filled /\ loaded.known = r.known
        /\ loaded.status = "complete" => r.status = "complete" \/ r.filled >= Total
      BY LoadedKeeps DEF IInv, Money, Kept
  <2> HIDE DEF r, loaded
  <2>2. /\ Exposed(loaded, exch) = Exposed(r, exch) /\ LiveOf(loaded, exch) = LiveOf(r, exch)
        /\ Reckoned(loaded, exch)
      BY <2>1, CopyCounts
  <2>3. t \notin overlapped \cup lagged /\ r.filled >= Total =>
            Exposed(r, exch) = Total /\ LiveOf(r, exch) = {}
      BY <2>1, CountedOut
  <2>4. Within(t, loaded, exch, overlapped, lagged)
      BY <2>1, <2>2, <2>3 DEF Within
  <2>5. QED
      BY <2>2, <2>4 DEF loaded
<1>2. \A t \in Tasks : task'[t] = Loaded(file[t])
    BY DEF Crash
<1>3. UNCHANGED <<file, exch, overlapped, lagged>> /\ worker'.pc = "idle"
    BY IdleTyped DEF Crash, history
<1>4. QED
    BY <1>1, <1>2, <1>3 DEF Money

LEMMA MoneyInit == Init => Money
<1> SUFFICES ASSUME Init PROVE Money
    OBVIOUS
<1>1. Executable(exch)
    BY DEF Init, Executable, NoSuchOrder
<1>2. \A t \in Tasks : task[t] = NoSuchTask /\ file[t] = NoSuchTask
    BY DEF Init
<1>3. TaskShaped(NoSuchTask)
    BY IInvInit, NewTaskKept DEF IInv, Kept
<1>4. Reckoned(NoSuchTask, exch) /\ \A t : Within(t, NoSuchTask, exch, overlapped, lagged)
  <2>1. /\ NoSuchTask.placed = {} /\ NoSuchTask.known = {} /\ NoSuchTask.filled = 0
        /\ NoSuchTask.status # "complete"
      BY DEF NoSuchTask
  <2>2. QED
      BY <1>3, <2>1, NothingPlaced
<1>5. QED
    BY <1>1, <1>2, <1>4, IdleTyped DEF Init, Money

LEMMA MoneyNext == IInv /\ Money /\ [Next]_vars => Money'
<1> SUFFICES ASSUME IInv, Money, [Next]_vars PROVE Money'
    OBVIOUS
<1>1. IInv'
    BY IInvNext
<1>2. CASE UNCHANGED vars
    BY <1>2 DEF Money, vars, history
<1>3. ASSUME NEW o \in Orders, Fill(o) PROVE Money'
    BY <1>1, <1>3, FillMoves, ExchangeMoney DEF Fill, history
<1>4. CASE CycleStep
    BY <1>1, <1>4, BeginCycleMoney, OwnerUnavailableMoney, FailMoney, RecoverMoney,
       ReadOpenMoney, ReadHistoryMoney, PlanStopMoney, CancelMoney, ConfirmMoney, PlanMoney, SubmitMoney, RecordOrderMoney
       DEF CycleStep
<1>5. CASE ApiStep
    BY <1>5, ApiMoney
<1>6. CASE Crash
    BY <1>6, CrashMoney
<1>7. QED
    BY <1>2, <1>3, <1>4, <1>5, <1>6 DEF Next

LEMMA Accounts == Spec => [](IInv /\ Money)
BY IInvInit, IInvNext, MoneyInit, MoneyNext, PTL DEF Spec

-----------------------------------------------------------------------------
(* Two slices never work at once, however failed cancellations and reads,   *)
(* stops, restarts and expiries interleave with the cycles.                 *)
THEOREM SlicesApart == Spec => NoOverlappingSlices
<1> DEFINE Apart == \A o \in Orders : exch[o].state = "none" /\ exch'[o].state # "none" =>
                        OpenIn(task[exch'[o].task].placed) = {}
<1>1. IInv /\ [Next]_vars => [Apart]_vars
  <2> SUFFICES ASSUME IInv, Next, NEW o \in Orders,
                      exch[o].state = "none", exch'[o].state # "none"
               PROVE  OpenIn(task[exch'[o].task].placed) = {}
      BY DEF vars
  <2>1. CASE Submit
    <3>1. o = NextOrder /\ exch'[o].task = worker.task
        BY <2>1, SubmitAges
    <3>2. LiveOf(This, exch) = {}
        BY <2>1, ThisKept DEF Submit, At, Sound
    <3>3. QED
        BY <3>1, <3>2 DEF LiveOf, OpenIn, This
  <2>2. CASE \E p \in Orders : Fill(p)
    <3>1. PICK p \in Orders : Fill(p)
        BY <2>2
    <3>2. p # o
        BY <3>1 DEF Fill
    <3>3. exch'[o] = exch[o]
        BY <3>1, <3>2 DEF Fill, IInv, OrdersShaped
    <3>4. QED
        BY <3>3
  <2>3. ASSUME NEW ids, CancelOrders(ids) PROVE FALSE
      BY <2>3 DEF CancelOrders, CancelOneOf, OpenIn
  <2>4. exch' # exch
      OBVIOUS
  <2>5. CASE CycleStep /\ ~Submit
      BY <2>3, <2>4, <2>5 DEF CycleStep, BeginCycle, OwnerUnavailable, Fail, Recover, ReadOpen, ReadHistory,
         PlanStop, Cancel, Confirm, ConfirmOneOf, Plan, RecordOrder, LoseReply
  <2>6. CASE ApiStep
      BY <2>3, <2>4, <2>6 DEF ApiStep, Create, Pause, Resume, StopNow, BeginStop,
         StopCancels, EndStop, ClearTerminal
  <2>7. CASE Crash
      BY <2>4, <2>7 DEF Crash
  <2>8. QED
      BY <2>1, <2>2, <2>5, <2>6, <2>7 DEF Next
<1>2. QED
    BY <1>1, Invariant, PTL DEF Spec, NoOverlappingSlices

(* A task with a start price that waits for it has nothing at the exchange  *)
(* of what it has recorded, also after a stop by price that was retried.    *)
THEOREM WaitsFlat == Spec => []WaitingIsFlat
<1>1. IInv => WaitingIsFlat
    BY DEF IInv, Kept, LiveOf, OpenIn, WaitingIsFlat, Waiting
<1>2. QED
    BY <1>1, Invariant, PTL

(* Every variable keeps its type; a filled amount stays within the total    *)
(* and no order trades more than a slice.                                   *)
THEOREM TypeCorrect == Spec => []TypeOK
<1> DEFINE Bounded == faults \in 0..MaxFaults /\ overlapped \subseteq Tasks /\ lagged \subseteq Tasks
<1>1. Init => Bounded
    BY TaskAssumption DEF Init
<1>2. IInv /\ Bounded /\ [Next]_vars => Bounded'
  <2> SUFFICES ASSUME IInv, Bounded, [Next]_vars PROVE Bounded'
      OBVIOUS
  <2>1. CASE ReadHistory
    <3>1. \E trades : ListsTrades(trades)
        BY <2>1 DEF ReadHistory
    <3>2. /\ faults' = faults \/ (faults < MaxFaults /\ faults' = faults + 1)
          /\ lagged' \subseteq lagged \cup {worker.task} /\ worker.task \in Tasks
          /\ UNCHANGED overlapped
        BY <2>1, <3>1, ThisKept DEF ReadHistory, At, ListsTrades
    <3>3. QED
        BY <3>2, TaskAssumption
  <2>2. CASE ~ReadHistory
    <3>1. faults' = faults \/ (faults < MaxFaults /\ faults' = faults + 1)
        BY <2>2 DEF Next, vars, history, Fill, CycleStep, BeginCycle, OwnerUnavailable, Fail,
           Recover, ReadOpen, PlanStop, Cancel, Confirm, ConfirmOneOf, Plan, Submit,
           RecordOrder, LoseReply, ApiStep, Create, Pause, Resume, StopNow, BeginStop,
           StopCancels, EndStop, ClearTerminal, Crash
    <3>2. UNCHANGED lagged /\ (UNCHANGED overlapped \/ EndStop)
        BY <2>2 DEF Next, vars, history, Fill, CycleStep, BeginCycle, OwnerUnavailable, Fail,
           Recover, ReadOpen, PlanStop, Cancel, Confirm, ConfirmOneOf, Plan, Submit,
           RecordOrder, LoseReply, ApiStep, Create, Pause, Resume, StopNow, BeginStop,
           StopCancels, EndStop, ClearTerminal, Crash
    <3>3. EndStop => overlapped' \subseteq overlapped \cup {stopper.task}
                     /\ stopper.task \in Tasks
        BY DEF EndStop, IInv, Coroutines
    <3>4. QED
        BY <3>1, <3>2, <3>3, TaskAssumption
  <2>3. QED
      BY <2>1, <2>2
<1>3. IInv /\ Bounded => TypeOK
  <2> SUFFICES ASSUME IInv, Bounded PROVE TypeOK
      OBVIOUS
  <2>1. \A t \in Tasks : task[t] \in Task /\ file[t] \in Task
      BY DEF IInv, Kept, TaskShaped
  <2>2. task \in [Tasks -> Task] /\ file \in [Tasks -> Task]
      BY <2>1 DEF IInv, Book, Table
  <2>3. QED
      BY <2>2 DEF IInv, OrdersShaped, Coroutines, TypeOK
<1>4. QED
    BY <1>1, <1>2, <1>3, Invariant, PTL DEF Spec

(* What the recorded orders of a task have traded and can still trade stays *)
(* within its total, with partial fills, failed cancellations, lost replies *)
(* and restarts, unless a stop took effect in the middle of a cycle.        *)
THEOREM CapHolds == Spec => []CapRespected
<1>1. IInv /\ Money => CapRespected
    BY DEF Money, Within, Exposed, Reach, Exposure, CapRespected
<1>2. QED
    BY <1>1, Accounts, PTL

(* A task that says it is complete has traded its whole total and left      *)
(* nothing at the exchange, with the same exception, and unless a list of   *)
(* trades missed some.                                                      *)
THEOREM CompletionIsReal == Spec => []CompleteIsDone
<1>1. IInv /\ Money => CompleteIsDone
    BY DEF Money, Within, Exposed, Reach, LiveOf, OpenIn, Exposure, CompleteIsDone
<1>2. QED
    BY <1>1, Accounts, PTL

(* CapRespected has an exception: a stop that takes effect in the middle of *)
(* a cycle lets the cycle order on an old count.  However often that        *)
(* happens, the recorded orders reach at most one slice beyond the total.   *)
OverrunBounded == \A t \in Tasks : Exposure(t) <= Total + Slice

THEOREM OverrunIsOneSlice == Spec => []OverrunBounded
<1>1. IInv /\ Money => OverrunBounded
    BY DEF Money, Reckoned, Exposed, Reach, Exposure, OverrunBounded
<1>2. QED
    BY <1>1, Accounts, PTL
=============================================================================
