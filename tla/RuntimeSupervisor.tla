-------------------------- MODULE RuntimeSupervisor --------------------------
(***************************************************************************)
(* The processes of one host that share the data directory: each runs the  *)
(* supervisor of web/deployment.py, which takes the flock lease of the     *)
(* directory, recovers the order intents, starts the trading loops and     *)
(* watches them; and the program switch of web/state.py (running, auto     *)
(* stopped), which every process loads from the store once, when it is     *)
(* constructed, and writes back whole.                                     *)
(*                                                                         *)
(* A step is what a process does between two awaits.  Processes start,     *)
(* stop on SIGTERM and are killed at any time.  On SIGTERM the web server  *)
(* drains the requests it admitted (Perform), or drops them when its       *)
(* shutdown timeout ends (DropRequest), before it cancels the supervisor.  *)
(* A write of the store succeeds.                                          *)
(***************************************************************************)
EXTENDS Naturals, FiniteSets

CONSTANTS
    Processes,      \* the web processes of the host
    Loops,          \* the task factories of the supervisor
    Monitor,        \* the loop that may auto-stop the program
    NoOne,          \* nobody holds the lease
    DeployGuard,    \* the flock of the activation script (see BlueGreen)
    EnforceLeaderWrites \* enforce_leader_writes: CRYPTO_ARB_ZERO_DOWNTIME is set

ASSUME SupervisorAssumption ==
    /\ Monitor \in Loops
    /\ NoOne \notin Processes /\ DeployGuard \notin Processes
    /\ NoOne # DeployGuard
    /\ EnforceLeaderWrites \in BOOLEAN

VARIABLES
    pc,         \* where each process is in RuntimeSupervisor.run
    tasks,      \* its runtime tasks that are not done
    lock,       \* the holder of the flock on runtime_leader.lock
    program,    \* its MonitorState: the program switch
    store,      \* the program switch in web_runtime_overrides.json
    requests,   \* its mutating API requests past the middleware, not performed
    stopping    \* it has received SIGTERM

vars == <<pc, tasks, lock, program, store, requests, stopping>>

(* "notifying", "canceling" and "error" are the stages of the role "error". *)
Places == {"down", "initializing", "standby", "leader_starting", "leader",
           "notifying", "canceling", "error", "unwinding"}

(* What the store may say, and what a process makes of it. *)
Stored == [running: BOOLEAN, autoStopped: BOOLEAN]
Program == {switch \in Stored : ~(switch.running /\ switch.autoStopped)}
Requests == {"pause", "resume"}

TypeOK ==
    /\ pc \in [Processes -> Places]
    /\ tasks \in [Processes -> SUBSET Loops]
    /\ lock \in Processes \cup {NoOne, DeployGuard}
    /\ program \in [Processes -> Program]
    /\ store \in Stored
    /\ requests \in [Processes -> SUBSET Requests]
    /\ stopping \in [Processes -> BOOLEAN]

(* MonitorState.__init__ *)
Loaded(saved) == [saved EXCEPT !.running = @ /\ ~saved.autoStopped]

Init ==
    /\ pc = [p \in Processes |-> "down"]
    /\ tasks = [p \in Processes |-> {}]
    /\ lock = NoOne
    /\ store \in Stored
    /\ program = [p \in Processes |-> Loaded(store)]
    /\ requests = [p \in Processes |-> {}]
    /\ stopping = [p \in Processes |-> FALSE]

-----------------------------------------------------------------------------
(* The program switch. *)

(* Every mutator ends in _save_runtime_store_unlocked, which writes the     *)
(* whole memory of the process over the store.                              *)
SaveProgram(p, switch) ==
    /\ program' = [program EXCEPT ![p] = switch]
    /\ store' = switch

(* Mutant: set_running forgets to clear the auto-stop. *)
SetRunningOnly(p, running) ==
    SaveProgram(p, [program[p] EXCEPT !.running = running])

SetRunning(p, running) ==
    SaveProgram(p, [running |-> running, autoStopped |-> FALSE])

SetAutoStopped(p) ==
    SaveProgram(p, [running |-> FALSE, autoStopped |-> TRUE])

-----------------------------------------------------------------------------
(* The life of a process. *)

Start(p) ==
    /\ pc[p] = "down"
    /\ pc' = [pc EXCEPT ![p] = "initializing"]
    /\ program' = [program EXCEPT ![p] = Loaded(store)]
    /\ UNCHANGED <<tasks, lock, store, requests, stopping>>

(* The first try_acquire that fails makes the role "standby". *)
AcquireFails(p) ==
    /\ pc[p] = "initializing"
    /\ lock # NoOne
    /\ pc' = [pc EXCEPT ![p] = "standby"]
    /\ UNCHANGED <<tasks, lock, program, store, requests, stopping>>

(* Mutant: the flock is taken with LOCK_SH. *)
TryAcquireShared(p) ==
    /\ pc[p] \in {"initializing", "standby"}
    /\ lock' = p
    /\ pc' = [pc EXCEPT ![p] = "leader_starting"]
    /\ UNCHANGED <<tasks, program, store, requests, stopping>>

(* Mutant: a standby does not poll the lease again. *)
TryAcquireOnce(p) ==
    /\ pc[p] = "initializing"
    /\ lock = NoOne
    /\ lock' = p
    /\ pc' = [pc EXCEPT ![p] = "leader_starting"]
    /\ UNCHANGED <<tasks, program, store, requests, stopping>>

TryAcquire(p) ==
    /\ pc[p] \in {"initializing", "standby"}
    /\ lock = NoOne
    /\ lock' = p
    /\ pc' = [pc EXCEPT ![p] = "leader_starting"]
    /\ UNCHANGED <<tasks, program, store, requests, stopping>>

RecoverOrders(p) ==
    /\ pc[p] = "leader_starting"
    /\ pc' = [pc EXCEPT ![p] = "leader"]
    /\ tasks' = [tasks EXCEPT ![p] = Loops]
    /\ UNCHANGED <<lock, program, store, requests, stopping>>

RecoveryFails(p) ==
    /\ pc[p] = "leader_starting"
    /\ pc' = [pc EXCEPT ![p] = "notifying"]
    /\ UNCHANGED <<tasks, lock, program, store, requests, stopping>>

(* A runtime task returns or raises. *)
LoopEnds(p, loop) ==
    /\ pc[p] \in {"leader", "notifying"}
    /\ loop \in tasks[p]
    /\ tasks' = [tasks EXCEPT ![p] = @ \ {loop}]
    /\ UNCHANGED <<pc, lock, program, store, requests, stopping>>

(* asyncio.wait returns with the first task that is done. *)
NoticeFailure(p) ==
    /\ pc[p] = "leader"
    /\ tasks[p] # Loops
    /\ pc' = [pc EXCEPT ![p] = "notifying"]
    /\ UNCHANGED <<tasks, lock, program, store, requests, stopping>>

(* Mutant: the runtime tasks are not cancelled after a failure. *)
NotifyFailureOnly(p) ==
    /\ pc[p] = "notifying"
    /\ SetAutoStopped(p)
    /\ pc' = [pc EXCEPT ![p] = "error"]
    /\ UNCHANGED <<tasks, lock, requests, stopping>>

(* handle_runtime_failure, after which the tasks are asked to cancel. *)
NotifyFailure(p) ==
    /\ pc[p] = "notifying"
    /\ SetAutoStopped(p)
    /\ pc' = [pc EXCEPT ![p] = "canceling"]
    /\ UNCHANGED <<tasks, lock, requests, stopping>>

(* A task that was asked to cancel gets there at its next await. *)
TaskCanceled(p, loop) ==
    /\ pc[p] \in {"canceling", "unwinding"}
    /\ loop \in tasks[p]
    /\ tasks' = [tasks EXCEPT ![p] = @ \ {loop}]
    /\ UNCHANGED <<pc, lock, program, store, requests, stopping>>

(* Mutant: a leader whose tasks have ended starts them again. *)
RestartLoops(p) ==
    /\ pc[p] = "canceling"
    /\ tasks[p] = {}
    /\ pc' = [pc EXCEPT ![p] = "leader"]
    /\ tasks' = [tasks EXCEPT ![p] = Loops]
    /\ UNCHANGED <<lock, program, store, requests, stopping>>

(* The failed leader waits for ever, with the lease. *)
Halt(p) ==
    /\ pc[p] = "canceling"
    /\ tasks[p] = {}
    /\ pc' = [pc EXCEPT ![p] = "error"]
    /\ UNCHANGED <<tasks, lock, program, store, requests, stopping>>

(* A cycle of the monitor ends in set_auto_stopped.  It looked at the switch *)
(* before the alerts and reports it awaits, and does not look again.        *)
MonitorStops(p) ==
    /\ Monitor \in tasks[p]
    /\ SetAutoStopped(p)
    /\ UNCHANGED <<pc, tasks, lock, requests, stopping>>

-----------------------------------------------------------------------------
(* The control API. *)

(* Mutant: the middleware lets every mutation pass. *)
AlwaysAllowed(p) == TRUE

MutationAllowed(p) == EnforceLeaderWrites => pc[p] = "leader"

Admit(p, request) ==
    /\ pc[p] \notin {"down", "unwinding"}
    /\ ~stopping[p]
    /\ MutationAllowed(p)
    /\ requests' = [requests EXCEPT ![p] = @ \cup {request}]
    /\ UNCHANGED <<pc, tasks, lock, program, store, stopping>>

(* The handler runs after the middleware looked, maybe much later. *)
Perform(p, request) ==
    /\ request \in requests[p]
    /\ SetRunning(p, request = "resume")
    /\ requests' = [requests EXCEPT ![p] = @ \ {request}]
    /\ UNCHANGED <<pc, tasks, lock, stopping>>

-----------------------------------------------------------------------------
(* Shutdown and crash. *)

Terminate(p) ==
    /\ pc[p] # "down"
    /\ ~stopping[p]
    /\ stopping' = [stopping EXCEPT ![p] = TRUE]
    /\ UNCHANGED <<pc, tasks, lock, program, store, requests>>

DropRequest(p, request) ==
    /\ stopping[p]
    /\ request \in requests[p]
    /\ requests' = [requests EXCEPT ![p] = @ \ {request}]
    /\ UNCHANGED <<pc, tasks, lock, program, store, stopping>>

(* The cleanup of monitor_context cancels run wherever it waits; its        *)
(* finally clause cancels the tasks.                                        *)
CancelSupervisor(p) ==
    /\ stopping[p]
    /\ requests[p] = {}
    /\ pc[p] \notin {"down", "unwinding"}
    /\ pc' = [pc EXCEPT ![p] = "unwinding"]
    /\ UNCHANGED <<tasks, lock, program, store, requests, stopping>>

Freed(p) == IF lock = p THEN NoOne ELSE lock

(* Mutant: the finally clause of run forgets the lease. *)
ReleaseForgotten(p) ==
    /\ pc[p] = "unwinding"
    /\ tasks[p] = {}
    /\ pc' = [pc EXCEPT ![p] = "down"]
    /\ stopping' = [stopping EXCEPT ![p] = FALSE]
    /\ UNCHANGED <<lock, tasks, program, store, requests>>

ReleaseLease(p) ==
    /\ pc[p] = "unwinding"
    /\ tasks[p] = {}
    /\ lock' = Freed(p)
    /\ pc' = [pc EXCEPT ![p] = "down"]
    /\ stopping' = [stopping EXCEPT ![p] = FALSE]
    /\ UNCHANGED <<tasks, program, store, requests>>

(* SIGKILL or a crash: the kernel drops the flock with the process. *)
Kill(p) ==
    /\ pc[p] # "down"
    /\ pc' = [pc EXCEPT ![p] = "down"]
    /\ tasks' = [tasks EXCEPT ![p] = {}]
    /\ lock' = Freed(p)
    /\ requests' = [requests EXCEPT ![p] = {}]
    /\ stopping' = [stopping EXCEPT ![p] = FALSE]
    /\ UNCHANGED <<program, store>>

-----------------------------------------------------------------------------
(* What a process does by itself, once it was started. *)
SupervisorStep(p) ==
    \/ AcquireFails(p) \/ TryAcquire(p)
    \/ RecoverOrders(p) \/ RecoveryFails(p)
    \/ NoticeFailure(p) \/ NotifyFailure(p) \/ Halt(p)
    \/ CancelSupervisor(p) \/ ReleaseLease(p)
    \/ \E loop \in Loops : TaskCanceled(p, loop)

ProcessStep(p) ==
    \/ SupervisorStep(p)
    \/ MonitorStops(p)
    \/ \E loop \in Loops : LoopEnds(p, loop)
    \/ \E request \in Requests :
          Admit(p, request) \/ Perform(p, request) \/ DropRequest(p, request)

Next == \E p \in Processes : ProcessStep(p) \/ Start(p) \/ Terminate(p) \/ Kill(p)

Spec == Init /\ [][Next]_vars

(* asyncio runs every ready coroutine and a cancelled task ends; the web    *)
(* server performs or drops what it admitted.  Nothing makes a process      *)
(* start, stop or fail.                                                     *)
Fairness ==
    \A p \in Processes :
        /\ WF_vars(SupervisorStep(p))
        /\ \A request \in Requests :
              WF_vars(Perform(p, request) \/ DropRequest(p, request))

FairSpec == Spec /\ Fairness

-----------------------------------------------------------------------------
(* A process that runs trading loops or resolves order intents. *)
Active(p) == tasks[p] # {} \/ pc[p] = "leader_starting"

(* Two processes never trade, or trade and recover order intents, at the    *)
(* same time, whatever starts, stops, fails or is killed: "a shared flock   *)
(* leader lease ensures only one release can run trading loops"             *)
(* (README.md:731); the lease outlives the loops it protects.               *)
OneTrader == \A p, q \in Processes : Active(p) /\ Active(q) => p = q

(* With enforce_leader_writes the store is written by the holder of the     *)
(* lease only, although a request is checked by the middleware and          *)
(* performed later, when the role may have changed or the process may be    *)
(* shutting down.                                                           *)
OnlyHolderWrites ==
    [][store' # store => \E p \in Processes : lock = p /\ program'[p] = store']_vars

(* When one runtime task ends, every task of the process ends: a leader     *)
(* never goes on with some of its loops dead (deployment.py:188-200).       *)
FailureStopsEveryLoop ==
    \A p \in Processes : pc[p] = "leader" /\ tasks[p] # Loops ~> tasks[p] = {}

(* A standby does not wait at a lease that nobody holds: a leader that is   *)
(* stopped or killed has a successor.                                       *)
StandbyTakesOver ==
    \A p \in Processes :
        pc[p] = "standby" /\ lock = NoOne ~> lock # NoOne \/ pc[p] # "standby"

(* A stop the store records holds for every process that trades: "Auto-stop *)
(* pauses the program" (README.md:999).  The code breaks it: a standby      *)
(* loaded the store before the leader stopped.                              *)
StopHolds ==
    \A p \in Processes : store.autoStopped /\ tasks[p] # {} => ~program[p].running

(* The supervisors implement the lease: who trades took the lease before    *)
(* and still has it, a leader whose loops ended stays with the lease and    *)
(* does not trade again, and the store is written by the holder.            *)
Lease == INSTANCE LeaderLease
            WITH Members <- Processes, Traders <- Processes,
                 Nobody <- NoOne, Switches <- Stored,
                 holder <- lock, trading <- {p \in Processes : Active(p)}, switch <- store

ImplementsLease == Lease!Spec
=============================================================================
