----------------------- MODULE RuntimeSupervisorProofs -----------------------
(***************************************************************************)
(* Proofs about RuntimeSupervisor for every set of processes and of loops. *)
(* The lease argument: whoever trades, recovers order intents or may yet   *)
(* perform a request holds the lease (Covered), so no two processes do.    *)
(***************************************************************************)
EXTENDS RuntimeSupervisor, TLAPS

(* The places between try_acquire and the finally clause of run. *)
Tenure == {"leader_starting", "leader", "notifying", "canceling", "error"}

(* A process in its tenure, or with a task that is not done, has the lease. *)
TenureCovered == \A p \in Processes : pc[p] \in Tenure => lock = p
TasksCovered == \A p \in Processes : tasks[p] # {} => lock = p

(* With enforce_leader_writes a request is pending in a tenure only: the    *)
(* middleware admits it there and the shutdown waits for it.                *)
RequestsCovered ==
    EnforceLeaderWrites => \A p \in Processes : requests[p] # {} => pc[p] \in Tenure

Covered == TenureCovered /\ TasksCovered /\ RequestsCovered

IInv == TypeOK /\ Covered

USE SupervisorAssumption

(* The typing of Loaded, the reading of the store. *)
LEMMA LoadedTyped == ASSUME NEW saved \in Stored PROVE Loaded(saved) \in Program
BY DEF Loaded, Stored, Program

(* What the mutators of the switch build is a switch. *)
LEMMA SwitchTyped ==
    ASSUME NEW running \in BOOLEAN
    PROVE  /\ [running |-> running, autoStopped |-> FALSE] \in Program
           /\ [running |-> FALSE, autoStopped |-> TRUE] \in Program
           /\ Program \subseteq Stored
BY DEF Stored, Program

(* The initial state is typed. *)
LEMMA TypeInit == Init => TypeOK
<1> SUFFICES ASSUME Init PROVE TypeOK
    OBVIOUS
<1>1. Loaded(store) \in Program
    BY LoadedTyped DEF Init
<1>2. QED
    BY <1>1 DEF Init, TypeOK, Places

(* Every step keeps the types. *)
LEMMA TypeStep == TypeOK /\ [Next]_vars => TypeOK'
<1> SUFFICES ASSUME TypeOK, [Next]_vars PROVE TypeOK'
    OBVIOUS
<1> USE DEF TypeOK, Places
<1>1. CASE UNCHANGED vars
    BY <1>1 DEF vars
<1>2. ASSUME NEW p \in Processes, ProcessStep(p) \/ Start(p) \/ Terminate(p) \/ Kill(p)
      PROVE TypeOK'
  <2>1. CASE AcquireFails(p)
      BY <2>1 DEF AcquireFails
  <2>2. CASE TryAcquire(p)
      BY <2>2 DEF TryAcquire
  <2>3. CASE RecoverOrders(p)
      BY <2>3 DEF RecoverOrders
  <2>4. CASE RecoveryFails(p)
      BY <2>4 DEF RecoveryFails
  <2>5. CASE NoticeFailure(p)
      BY <2>5 DEF NoticeFailure
  <2>6. CASE NotifyFailure(p)
      BY <2>6, SwitchTyped DEF NotifyFailure, SetAutoStopped, SaveProgram
  <2>7. CASE Halt(p)
      BY <2>7 DEF Halt
  <2>8. CASE CancelSupervisor(p)
      BY <2>8 DEF CancelSupervisor
  <2>9. CASE ReleaseLease(p)
      BY <2>9 DEF ReleaseLease, Freed
  <2>10. CASE \E loop \in Loops : TaskCanceled(p, loop)
      BY <2>10 DEF TaskCanceled
  <2>11. CASE MonitorStops(p)
      BY <2>11, SwitchTyped DEF MonitorStops, SetAutoStopped, SaveProgram
  <2>12. CASE \E loop \in Loops : LoopEnds(p, loop)
      BY <2>12 DEF LoopEnds
  <2>13. CASE \E request \in Requests : Admit(p, request)
      BY <2>13 DEF Admit, MutationAllowed
  <2>14. CASE \E request \in Requests : Perform(p, request)
    <3>1. PICK request \in Requests : Perform(p, request)
          BY <2>14
    <3>2. program'[p] \in Program /\ store' \in Stored
          BY <3>1, SwitchTyped DEF Perform, SetRunning, SaveProgram
    <3>3. program' \in [Processes -> Program]
          BY <3>1, SwitchTyped DEF Perform, SetRunning, SaveProgram
    <3>4. QED
          BY <3>1, <3>2, <3>3 DEF Perform
  <2>15. CASE \E request \in Requests : DropRequest(p, request)
      BY <2>15 DEF DropRequest
  <2>16. CASE Start(p)
      BY <2>16, LoadedTyped DEF Start
  <2>17. CASE Terminate(p)
      BY <2>17 DEF Terminate
  <2>18. CASE Kill(p)
      BY <2>18 DEF Kill, Freed
  <2>19. QED
      BY <1>2, <2>1, <2>2, <2>3, <2>4, <2>5, <2>6, <2>7, <2>8, <2>9, <2>10, <2>11, <2>12, <2>13, <2>14, <2>15, <2>16, <2>17, <2>18 DEF ProcessStep, SupervisorStep
<1>3. QED
    BY <1>1, <1>2 DEF Next

(* TypeOK is an invariant. *)
THEOREM TypeCorrect == Spec => []TypeOK
BY TypeInit, TypeStep, PTL DEF Spec

(* At first nobody needs the lease. *)
LEMMA CoveredInit == Init => Covered
BY DEF Init, Covered, TenureCovered, TasksCovered, RequestsCovered, Tenure

(* Every step of an instance keeps what the lease covers. *)
LEMMA CoveredStep == IInv /\ [Next]_vars => Covered'
<1> SUFFICES ASSUME TypeOK, Covered, [Next]_vars PROVE Covered'
    BY DEF IInv
<1> USE DEF TypeOK, Covered, TenureCovered, TasksCovered, RequestsCovered, Tenure
<1>1. CASE UNCHANGED vars
    BY <1>1 DEF vars
<1>2. ASSUME NEW p \in Processes, ProcessStep(p) \/ Start(p) \/ Terminate(p) \/ Kill(p)
      PROVE Covered'
  <2>1. CASE AcquireFails(p)
      BY <2>1 DEF AcquireFails
  <2>2. CASE TryAcquire(p)
      BY <2>2 DEF TryAcquire
  <2>3. CASE RecoverOrders(p)
      BY <2>3 DEF RecoverOrders
  <2>4. CASE RecoveryFails(p)
      BY <2>4 DEF RecoveryFails
  <2>5. CASE NoticeFailure(p)
      BY <2>5 DEF NoticeFailure
  <2>6. CASE NotifyFailure(p)
      BY <2>6 DEF NotifyFailure, SetAutoStopped, SaveProgram
  <2>7. CASE Halt(p)
      BY <2>7 DEF Halt
  <2>8. CASE CancelSupervisor(p)
      BY <2>8 DEF CancelSupervisor
  <2>9. CASE ReleaseLease(p)
      BY <2>9 DEF ReleaseLease, Freed
  <2>10. CASE \E loop \in Loops : TaskCanceled(p, loop)
      BY <2>10 DEF TaskCanceled
  <2>11. CASE MonitorStops(p)
      BY <2>11 DEF MonitorStops, SetAutoStopped, SaveProgram
  <2>12. CASE \E loop \in Loops : LoopEnds(p, loop)
      BY <2>12 DEF LoopEnds
  <2>13. CASE \E request \in Requests : Admit(p, request)
      BY <2>13 DEF Admit, MutationAllowed
  <2>14. CASE \E request \in Requests : Perform(p, request)
      BY <2>14 DEF Perform, SetRunning, SaveProgram
  <2>15. CASE \E request \in Requests : DropRequest(p, request)
      BY <2>15 DEF DropRequest
  <2>16. CASE Start(p)
      BY <2>16 DEF Start, Loaded
  <2>17. CASE Terminate(p)
      BY <2>17 DEF Terminate
  <2>18. CASE Kill(p)
      BY <2>18 DEF Kill, Freed
  <2>19. QED
      BY <1>2, <2>1, <2>2, <2>3, <2>4, <2>5, <2>6, <2>7, <2>8, <2>9, <2>10, <2>11, <2>12, <2>13, <2>14, <2>15, <2>16, <2>17, <2>18 DEF ProcessStep, SupervisorStep
<1>3. QED
    BY <1>1, <1>2 DEF Next

(* IInv is an inductive invariant. *)
THEOREM Inductive == Spec => []IInv
<1>1. Init => IInv
    BY TypeInit, CoveredInit DEF IInv
<1>2. IInv /\ [Next]_vars => IInv'
    BY TypeStep, CoveredStep DEF IInv
<1>3. QED
    BY <1>1, <1>2, PTL DEF Spec

(* No two processes of the host ever trade or recover order intents at the  *)
(* same time, for any number of processes and whatever is killed.           *)
THEOREM MutualExclusion == Spec => []OneTrader
<1>1. IInv => OneTrader
    BY DEF IInv, Covered, TenureCovered, TasksCovered, Tenure, OneTrader, Active
<1>2. QED
    BY <1>1, Inductive, PTL

(* With enforce_leader_writes only the holder of the lease writes the       *)
(* store.                                                                   *)
THEOREM HolderWrites == ASSUME EnforceLeaderWrites PROVE Spec => OnlyHolderWrites
<1> DEFINE ByHolder == store' # store => \E p \in Processes : lock = p /\ program'[p] = store'
<1>1. IInv /\ [Next]_vars => [ByHolder]_vars
  <2> SUFFICES ASSUME IInv, Next, store' # store PROVE ByHolder
      BY DEF vars
  <2> USE DEF IInv, Covered, TypeOK
  <2>1. PICK p \in Processes : ProcessStep(p) \/ Start(p) \/ Terminate(p) \/ Kill(p)
      BY DEF Next
  <2>2. \/ NotifyFailure(p) \/ MonitorStops(p)
        \/ \E request \in Requests : Perform(p, request)
      BY <2>1 DEF ProcessStep, SupervisorStep, AcquireFails, TryAcquire, RecoverOrders,
                  RecoveryFails, NoticeFailure, Halt, CancelSupervisor, ReleaseLease,
                  TaskCanceled, LoopEnds, Admit, DropRequest, Start, Terminate, Kill
  <2>3. program'[p] = store'
      BY <2>2 DEF NotifyFailure, MonitorStops, Perform, SetAutoStopped, SetRunning, SaveProgram
  <2>4. lock = p
    <3>1. CASE NotifyFailure(p)
        BY <3>1 DEF NotifyFailure, TenureCovered, Tenure
    <3>2. CASE MonitorStops(p)
        BY <3>2 DEF MonitorStops, TasksCovered
    <3>3. CASE \E request \in Requests : Perform(p, request)
        BY <3>3 DEF Perform, RequestsCovered, TenureCovered
    <3>4. QED
        BY <2>2, <3>1, <3>2, <3>3
  <2>5. QED
      BY <2>3, <2>4
<1>2. QED
    BY <1>1, Inductive, PTL DEF Spec, OnlyHolderWrites

(* What a process remembers of the switch is what it would load again.      *)
UpToDate == \A p \in Processes : program[p] = Loaded(store)

(* A switch that was saved is loaded as it is. *)
LEMMA LoadedAgain == ASSUME NEW switch \in Program PROVE Loaded(switch) = switch
BY DEF Loaded, Program, Stored

(* Without a standby the only process writes the store and stays up to date. *)
LEMMA UpToDateStep ==
    ASSUME \A p, q \in Processes : p = q, TypeOK, UpToDate, [Next]_vars
    PROVE  UpToDate'
<1>1. CASE UNCHANGED <<program, store>>
    BY <1>1 DEF UpToDate, Loaded
<1>2. ASSUME NEW p \in Processes, Start(p) PROVE UpToDate'
    BY <1>2 DEF Start, UpToDate, TypeOK, Loaded
<1>3. ASSUME NEW p \in Processes, NEW switch \in Program, SaveProgram(p, switch)
      PROVE  UpToDate'
  <2>1. program'[p] = switch /\ store' = switch
      BY <1>3 DEF SaveProgram, TypeOK
  <2>2. Loaded(switch) = switch
      BY LoadedAgain
  <2>3. Loaded(store)' = Loaded(switch)
      BY <2>1 DEF Loaded
  <2>4. QED
      BY <2>1, <2>2, <2>3 DEF UpToDate
<1>4. ASSUME NEW p \in Processes, ProcessStep(p) PROVE UpToDate'
  <2>1. CASE NotifyFailure(p) \/ MonitorStops(p)
      BY <2>1, <1>3, SwitchTyped DEF NotifyFailure, MonitorStops, SetAutoStopped
  <2>2. CASE \E request \in Requests : Perform(p, request)
      BY <2>2, <1>3, SwitchTyped DEF Perform, SetRunning
  <2>3. CASE UNCHANGED <<program, store>>
      BY <1>1, <2>3
  <2>4. QED
      BY <1>4, <2>1, <2>2, <2>3 DEF ProcessStep, SupervisorStep, AcquireFails, TryAcquire,
         RecoverOrders, RecoveryFails, NoticeFailure, Halt, CancelSupervisor, ReleaseLease,
         TaskCanceled, LoopEnds, Admit, DropRequest
<1>5. QED
    BY <1>1, <1>2, <1>4 DEF Next, Terminate, Kill, vars

(* Only a standby breaks StopHolds: where a single process uses the data     *)
(* directory, a stop that the store records holds, whatever ends, fails or   *)
(* is restarted.                                                             *)
THEOREM StopHoldsAlone ==
    ASSUME \A p, q \in Processes : p = q PROVE Spec => []StopHolds
<1>1. Init => UpToDate
    BY DEF Init, UpToDate
<1>2. TypeOK /\ UpToDate => StopHolds
    BY DEF TypeOK, UpToDate, Loaded, StopHolds, Stored
<1>3. QED
    BY <1>1, <1>2, UpToDateStep, TypeInit, TypeStep, PTL DEF Spec

(* With a standby a memory goes out of date while its process waits for the *)
(* lease, never later: a holder of the lease that agrees with the store     *)
(* agrees with it as long as it holds the lease, since nobody else writes.  *)
HolderKeepsUp ==
    [][\A p \in Processes :
          lock = p /\ program[p] = Loaded(store) => program'[p] = Loaded(store)']_vars

THEOREM OutOfDateAtTakeover == ASSUME EnforceLeaderWrites PROVE Spec => HolderKeepsUp
<1> DEFINE KeepsUp == \A p \in Processes :
          lock = p /\ program[p] = Loaded(store) => program'[p] = Loaded(store)'
           ByHolder == store' # store => \E p \in Processes : lock = p /\ program'[p] = store'
<1>1. TypeOK /\ TypeOK' /\ [Next]_vars /\ [ByHolder]_vars => [KeepsUp]_vars
  <2> SUFFICES ASSUME TypeOK, TypeOK', Next, ByHolder, NEW p \in Processes,
                      lock = p, program[p] = Loaded(store)
               PROVE  program'[p] = Loaded(store)'
      BY DEF vars
  <2>1. CASE store' # store
    <3>1. program'[p] = store'
        BY <2>1
    <3>2. Loaded(program'[p]) = program'[p]
        BY LoadedAgain DEF TypeOK
    <3>3. QED
        BY <3>1, <3>2 DEF Loaded
  <2>2. CASE store' = store
    <3>1. Loaded(store)' = Loaded(store)
        BY <2>2 DEF Loaded
    <3>2. ASSUME NEW q \in Processes, NEW switch \in Program, SaveProgram(q, switch)
          PROVE  program'[p] = Loaded(store)'
      <4>1. Loaded(store) = switch /\ program' = [program EXCEPT ![q] = switch]
          BY <2>2, <3>2, LoadedAgain DEF SaveProgram
      <4>2. QED
          BY <3>1, <4>1 DEF TypeOK
    <3>3. PICK q \in Processes : ProcessStep(q) \/ Start(q) \/ Terminate(q) \/ Kill(q)
        BY DEF Next
    <3>4. CASE NotifyFailure(q) \/ MonitorStops(q)
        BY <3>2, <3>4, SwitchTyped DEF NotifyFailure, MonitorStops, SetAutoStopped
    <3>5. CASE \E request \in Requests : Perform(q, request)
        BY <3>2, <3>5, SwitchTyped DEF Perform, SetRunning
    <3>6. CASE Start(q)
        BY <3>1, <3>6 DEF Start, TypeOK
    <3>7. CASE program' = program
        BY <3>1, <3>7
    <3>8. QED
        BY <3>3, <3>4, <3>5, <3>6, <3>7 DEF ProcessStep, SupervisorStep, AcquireFails, TryAcquire,
           RecoverOrders, RecoveryFails, NoticeFailure, Halt, CancelSupervisor, ReleaseLease,
           TaskCanceled, LoopEnds, Admit, DropRequest, Terminate, Kill
  <2>3. QED
      BY <2>1, <2>2
<1>2. Spec => [][ByHolder]_vars
    BY HolderWrites DEF OnlyHolderWrites
<1>3. QED
    BY <1>1, <1>2, TypeCorrect, PTL DEF Spec, HolderKeepsUp

(* Who trades after a step in which one process may change its tasks.       *)
LEMMA TradersStep ==
    ASSUME TypeOK, TypeOK', NEW p \in Processes,
           \A q \in Processes \ {p} : pc'[q] = pc[q] /\ tasks'[q] = tasks[q]
    PROVE  \A q \in Processes \ {p} : Active(q)' <=> Active(q)
BY DEF Active

(* Every step of the supervisors is a step of the lease or leaves it alone. *)
LEMMA LeaseRefined ==
    ASSUME EnforceLeaderWrites, IInv, IInv', [Next]_vars
    PROVE  [Lease!Next]_(Lease!vars)
<1> DEFINE traders == {q \in Processes : Active(q)}
<1> USE DEF IInv
<1>1. CASE UNCHANGED vars
    BY <1>1 DEF vars, Lease!vars, Active
<1>2. ASSUME NEW p \in Processes, ProcessStep(p) \/ Start(p) \/ Terminate(p) \/ Kill(p)
      PROVE [Lease!Next]_(Lease!vars)
  <2>1. \A q \in Processes : Active(q) => lock = q
      BY DEF Covered, TenureCovered, TasksCovered, Tenure, Active
  <2>2. \A q \in Processes : Active(q)' => lock' = q
      BY DEF Covered, TenureCovered, TasksCovered, Tenure, Active
  <2>3. NoOne \notin Processes /\ TypeOK /\ TypeOK'
      BY DEF TypeOK
  <2>4. ASSUME lock' = lock, store' = store, Active(p)' => Active(p),
               \A q \in Processes \ {p} : Active(q)' <=> Active(q)
        PROVE  [Lease!Next]_(Lease!vars)
    <3>1. CASE Active(p)' <=> Active(p)
      <4>1. traders' = traders
          BY <2>4, <3>1
      <4>2. QED
          BY <2>4, <4>1 DEF Lease!vars
    <3>2. CASE Active(p) /\ ~Active(p)'
      <4>1. lock = p /\ traders' = {}
          BY <2>1, <2>2, <2>4, <3>2
      <4>2. Lease!StopTrading(p)
          BY <2>4, <4>1 DEF Lease!StopTrading
      <4>3. QED
          BY <4>2 DEF Lease!Next
    <3>3. QED
        BY <2>4, <3>1, <3>2
  <2>5. ASSUME lock = p, lock' = NoOne, store' = store
        PROVE  [Lease!Next]_(Lease!vars)
    <3>1. traders' = {}
        BY <2>2, <2>3, <2>5
    <3>2. Lease!GiveUp(p)
        BY <2>5, <3>1 DEF Lease!GiveUp
    <3>3. QED
        BY <3>2 DEF Lease!Next
  <2>6. ASSUME lock' = lock, lock = p, traders' = traders
        PROVE  [Lease!Next]_(Lease!vars)
    <3>1. Lease!Record(p)
        BY <2>3, <2>6 DEF Lease!Record, TypeOK
    <3>2. QED
        BY <3>1 DEF Lease!Next
  <2>7. CASE TryAcquire(p)
    <3>1. lock = NoOne /\ lock' = p /\ store' = store /\ pc'[p] = "leader_starting"
        BY <2>3, <2>7 DEF TryAcquire, TypeOK
    <3>2. traders' = {p}
      <4>1. Active(p)'
          BY <3>1 DEF Active
      <4>2. QED
          BY <2>2, <3>1, <4>1
    <3>3. Lease!Take(p)
        BY <3>1, <3>2 DEF Lease!Take
    <3>4. QED
        BY <3>3 DEF Lease!Next
  <2>8. CASE NotifyFailure(p) \/ MonitorStops(p) \/ \E request \in Requests : Perform(p, request)
    <3>1. lock' = lock /\ tasks' = tasks
        BY <2>8 DEF NotifyFailure, MonitorStops, Perform
    <3>2. traders' = traders
        BY <2>3, <2>8 DEF NotifyFailure, MonitorStops, Perform, Active, TypeOK
    <3>3. lock = p
      <4>1. CASE NotifyFailure(p)
          BY <4>1 DEF NotifyFailure, Covered, TenureCovered, Tenure
      <4>2. CASE MonitorStops(p)
          BY <4>2 DEF MonitorStops, Covered, TasksCovered
      <4>3. CASE \E request \in Requests : Perform(p, request)
          BY <4>3 DEF Perform, Covered, RequestsCovered, TenureCovered
      <4>4. QED
          BY <2>8, <4>1, <4>2, <4>3
    <3>4. QED
        BY <2>6, <3>1, <3>2, <3>3
  <2>9. CASE ReleaseLease(p) \/ Kill(p)
    <3>1. CASE lock = p
      <4>1. lock' = NoOne /\ store' = store
          BY <2>9, <3>1 DEF ReleaseLease, Kill, Freed
      <4>2. QED
          BY <2>5, <3>1, <4>1
    <3>2. CASE lock # p
      <4>1. /\ lock' = lock /\ store' = store
            /\ \A q \in Processes \ {p} : pc'[q] = pc[q] /\ tasks'[q] = tasks[q]
          BY <2>3, <2>9, <3>2 DEF ReleaseLease, Kill, Freed, TypeOK
      <4>2. ~Active(p)'
          BY <2>2, <3>2, <4>1
      <4>3. QED
          BY <2>3, <2>4, <4>1, <4>2, TradersStep
    <3>3. QED
        BY <3>1, <3>2
  <2>10. CASE \/ RecoverOrders(p) \/ RecoveryFails(p) \/ NoticeFailure(p) \/ AcquireFails(p)
              \/ Halt(p) \/ CancelSupervisor(p) \/ Start(p) \/ Terminate(p)
              \/ \E loop \in Loops : TaskCanceled(p, loop) \/ LoopEnds(p, loop)
              \/ \E request \in Requests : Admit(p, request) \/ DropRequest(p, request)
    <3>1. /\ lock' = lock /\ store' = store
          /\ \A q \in Processes \ {p} : pc'[q] = pc[q] /\ tasks'[q] = tasks[q]
        BY <2>3, <2>10 DEF RecoverOrders, RecoveryFails, NoticeFailure, AcquireFails, Halt,
           CancelSupervisor, Start, Terminate, TaskCanceled, LoopEnds, Admit, DropRequest, TypeOK
    <3>2. Active(p)' => Active(p)
        BY <2>3, <2>10 DEF RecoverOrders, RecoveryFails, NoticeFailure, AcquireFails, Halt,
           CancelSupervisor, Start, Terminate, TaskCanceled, LoopEnds, Admit, DropRequest,
           TypeOK, Active
    <3>3. QED
        BY <2>3, <2>4, <3>1, <3>2, TradersStep
  <2>11. QED
      BY <1>2, <2>7, <2>8, <2>9, <2>10 DEF ProcessStep, SupervisorStep
<1>3. QED
    BY <1>1, <1>2 DEF Next

(* The supervisors implement the abstract lease, for any set of processes   *)
(* and of loops.                                                            *)
THEOREM SupervisorsImplementLease ==
    ASSUME EnforceLeaderWrites PROVE Spec => ImplementsLease
<1>1. Init => Lease!Init
    BY DEF Init, Lease!Init, Active
<1>2. IInv /\ IInv' /\ [Next]_vars => [Lease!Next]_(Lease!vars)
    BY LeaseRefined
<1>3. QED
    BY <1>1, <1>2, Inductive, PTL DEF Spec, ImplementsLease, Lease!Spec
=============================================================================
