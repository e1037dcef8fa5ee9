--------------------------- MODULE BlueGreenProofs ---------------------------
(***************************************************************************)
(* Proofs about BlueGreen.  The lease argument of RuntimeSupervisorProofs  *)
(* carries over to an activation.  On the first migration the argument     *)
(* follows the script: the candidate runs only after the guard took the    *)
(* lease and is stopped before the guard lets it go, unless the legacy     *)
(* service is stopped by then, or a signal made the trap forget it.        *)
(***************************************************************************)
EXTENDS BlueGreen, RuntimeSupervisorProofs

(* A process that is down holds no lease. *)
DownFree == \A p \in Processes : pc[p] = "down" => lock # p

(* Nobody but the candidate is ever started on the first migration. *)
OnlyCandidateRuns ==
    /\ active \subseteq {old, Candidate}
    /\ \A p \in Processes : p # Candidate => pc[p] = "down"

BeforeStart == {"check", "stop_candidate", "lock_guard", "record_guard", "start_candidate"}
UnderGuard == {"start_candidate", "record_candidate", "wait_standby", "switch_nginx",
               "record_nginx", "reload_nginx", "stop_old"}
AfterStart == {"wait_standby", "switch_nginx", "record_nginx", "reload_nginx", "stop_old",
               "stop_guard", "wait_leader", "stabilize", "write_slot", "enable_units"}
AfterOld == {"stop_guard", "wait_leader", "stabilize", "write_slot", "enable_units",
             "succeeded"}
InTrap == {"restore_nginx", "undo_candidate"}
AfterUndo == {"undo_guard", "restart_old", "rolled_back"}

(* What each stretch of the script knows. *)
Placed == script \in BeforeStart \cup UnderGuard \cup AfterStart \cup AfterOld
                    \cup InTrap \cup AfterUndo
NotStarted == script \in BeforeStart => Stopped(Candidate)
Guarded == script \in UnderGuard => lock = DeployGuard
Recorded ==
    /\ script \in AfterStart => "candidate" \in done
    /\ script = "record_candidate" => Candidate \in active
OldGone == script \in AfterOld => old \notin active
Undoable ==
    script \in InTrap =>
        /\ Stopped(Candidate) \/ "candidate" \in done \/ CandidateForgotten
        /\ Stopped(Candidate) \/ old \notin active \/ lock = DeployGuard
Undone == script \in AfterUndo => Stopped(Candidate) \/ CandidateForgotten

Stretches == Placed /\ NotStarted /\ Guarded /\ Recorded /\ OldGone /\ Undoable /\ Undone

ActivationInv == IInv /\ DownFree /\ OnlyCandidateRuns /\ Stretches

USE ActivationAssumption, SupervisorAssumption

ProcessesRun(p) == ProcessRuns(p) \/ Crash(p) \/ SystemdStarts(p) \/ SystemdStops(p)

(* What the processes do is a step of RuntimeSupervisor. *)
LEMMA ProcessesStep ==
    ASSUME NEW p \in Processes, ProcessesRun(p)
    PROVE  Next /\ UNCHANGED scriptVars
BY DEF ProcessesRun, ProcessRuns, Crash, SystemdStarts, SystemdStops, Next

(* The script and its guard do not touch what the lease covers. *)
LEMMA GuardStep ==
    ASSUME IInv, lock' \in {NoOne, DeployGuard} \/ lock' = lock,
           lock \in {NoOne, DeployGuard} \/ lock' = lock,
           UNCHANGED <<pc, tasks, program, store, requests, stopping>>
    PROVE  IInv'
BY DEF IInv, TypeOK, Covered, TenureCovered, TasksCovered, RequestsCovered

(* A step of the script moves the lease by ending the guard only. *)
LEMMA ScriptLock ==
    ASSUME ScriptStep \/ GuardLocks
    PROVE  /\ UNCHANGED <<pc, tasks, program, store, requests, stopping, crashes, old>>
           /\ lock' \in {NoOne, DeployGuard} \/ lock' = lock
           /\ lock \in {NoOne, DeployGuard} \/ lock' = lock
<1> USE DEF vars
<1>1. CASE CheckCurrent
    BY <1>1 DEF CheckCurrent
<1>2. CASE StopCandidate
    BY <1>2 DEF StopCandidate
<1>3. CASE StartGuard
    BY <1>3 DEF StartGuard
<1>4. CASE RecordGuard
    BY <1>4 DEF RecordGuard, RecordedBy
<1>5. CASE GuardFails
    BY <1>5 DEF GuardFails, RecordedBy
<1>6. CASE LeaseIsHeld
    BY <1>6 DEF LeaseIsHeld
<1>7. CASE StartCandidate
    BY <1>7 DEF StartCandidate
<1>8. CASE RecordedBy("record_candidate", "candidate", "wait_standby")
    BY <1>8 DEF RecordedBy
<1>9. CASE WaitStandby
    BY <1>9 DEF WaitStandby
<1>10. CASE SwitchNginx
    BY <1>10 DEF SwitchNginx
<1>11. CASE RecordedBy("record_nginx", "nginx", "reload_nginx")
    BY <1>11 DEF RecordedBy
<1>12. CASE ReloadNginx
    BY <1>12 DEF ReloadNginx, RecordedBy
<1>13. CASE StopOld
    BY <1>13 DEF StopOld
<1>14. CASE StopGuard
    BY <1>14 DEF StopGuard, StopGuardUnit, GuardReleased
<1>15. CASE WaitLeader("wait_leader", "stabilize")
    BY <1>15 DEF WaitLeader
<1>16. CASE WaitLeader("stabilize", "write_slot")
    BY <1>16 DEF WaitLeader
<1>17. CASE WriteSlot
    BY <1>17 DEF WriteSlot
<1>18. CASE EnableUnits
    BY <1>18 DEF EnableUnits
<1>19. CASE CommandFails
    BY <1>19 DEF CommandFails, Forward
<1>20. CASE Interrupted
    BY <1>20 DEF Interrupted
<1>21. CASE RestoreNginx
    BY <1>21 DEF RestoreNginx
<1>22. CASE UndoCandidate
    BY <1>22 DEF UndoCandidate
<1>23. CASE UndoGuard
    BY <1>23 DEF UndoGuard, StopGuardUnit, GuardReleased
<1>24. CASE RestartOld
    BY <1>24 DEF RestartOld
<1>25. CASE GuardLocks
    BY <1>25 DEF GuardLocks
<1>26. QED
    BY <1>1, <1>2, <1>3, <1>4, <1>5, <1>6, <1>7, <1>8, <1>9, <1>10, <1>11, <1>12, <1>13, <1>14, <1>15, <1>16, <1>17, <1>18, <1>19, <1>20, <1>21, <1>22, <1>23, <1>24, <1>25 DEF ScriptStep

(* The lease argument holds during an activation. *)
LEMMA LeaseStep == IInv /\ [ActivationNext]_allVars => IInv'
<1> SUFFICES ASSUME IInv, [ActivationNext]_allVars PROVE IInv'
    OBVIOUS
<1>1. CASE UNCHANGED allVars
  <2>1. UNCHANGED vars
      BY <1>1 DEF allVars
  <2>2. QED
      BY <2>1, TypeStep, CoveredStep DEF IInv
<1>2. CASE ScriptStep \/ GuardLocks
    BY <1>2, ScriptLock, GuardStep
<1>3. ASSUME NEW p \in Processes, ProcessesRun(p) PROVE IInv'
    BY <1>3, ProcessesStep, TypeStep, CoveredStep DEF IInv
<1>4. QED
    BY <1>1, <1>2, <1>3 DEF ActivationNext, ProcessesRun

(* The lease invariant of RuntimeSupervisor holds in every activation. *)
THEOREM ActivationLease == ActivationSpec => []IInv
<1>1. ActivationInit => IInv
    BY TypeInit, CoveredInit DEF ActivationInit, IInv
<1>2. QED
    BY <1>1, LeaseStep, PTL DEF ActivationSpec

(* No two processes trade at the same time during an activation, whatever   *)
(* fails, crashes or is interrupted.                                        *)
THEOREM ActivationMutualExclusion == ActivationSpec => []OneTrader
<1>1. IInv => OneTrader
    BY DEF IInv, Covered, TenureCovered, TasksCovered, Tenure, OneTrader, Active
<1>2. QED
    BY <1>1, ActivationLease, PTL

(* A step of the lease among the processes is one with the guard as well.   *)
LEMMA LeaseWithGuard ==
    ASSUME [Lease!Next]_(Lease!vars) PROVE [GuardedLease!Next]_(GuardedLease!vars)
BY DEF Lease!Next, Lease!vars, Lease!Take, Lease!StopTrading, Lease!GiveUp, Lease!Record,
       GuardedLease!Next, GuardedLease!vars, GuardedLease!Take, GuardedLease!StopTrading,
       GuardedLease!GiveUp, GuardedLease!Record

(* The guard takes the lease and gives it up without trading.               *)
LEMMA GuardRefined ==
    ASSUME IInv, ScriptStep \/ GuardLocks
    PROVE  [GuardedLease!Next]_(GuardedLease!vars)
<1> DEFINE traders == {q \in Processes : Active(q)}
<1>1. UNCHANGED <<pc, tasks, store>> /\ traders' = traders
    BY ScriptLock DEF Active
<1>2. CASE lock' = lock
    BY <1>1, <1>2 DEF GuardedLease!vars
<1>3. CASE lock' # lock
  <2>1. \/ lock = NoOne /\ lock' = DeployGuard
        \/ lock = DeployGuard /\ lock' = NoOne
      BY <1>3, ScriptLock
  <2>2. \A q \in Processes : Active(q) => lock = q
      BY DEF IInv, Covered, TenureCovered, TasksCovered, Tenure, Active
  <2>3. traders = {} /\ {DeployGuard} \cap Processes = {}
      BY <2>1, <2>2
  <2>4. GuardedLease!Take(DeployGuard) \/ GuardedLease!GiveUp(DeployGuard)
      BY <1>1, <2>1, <2>3 DEF GuardedLease!Take, GuardedLease!GiveUp
  <2>5. QED
      BY <2>4 DEF GuardedLease!Next
<1>4. QED
    BY <1>2, <1>3

(* An activation implements the abstract lease, for any set of processes    *)
(* and whichever command fails or is interrupted: the guard is one more     *)
(* holder, and the releases take the steps they take without the script.    *)
THEOREM ActivationImplementsLease ==
    ASSUME EnforceLeaderWrites PROVE ActivationSpec => ActivationKeepsLease
<1>1. ActivationInit => GuardedLease!Init
    BY DEF ActivationInit, Init, GuardedLease!Init, Active
<1>2. ASSUME IInv, IInv', [ActivationNext]_allVars
      PROVE  [GuardedLease!Next]_(GuardedLease!vars)
  <2>1. CASE UNCHANGED allVars
    <3>1. [Next]_vars
        BY <2>1 DEF allVars
    <3>2. QED
        BY <1>2, <3>1, LeaseRefined, LeaseWithGuard
  <2>2. CASE ScriptStep \/ GuardLocks
      BY <1>2, <2>2, GuardRefined
  <2>3. ASSUME NEW p \in Processes, ProcessesRun(p)
        PROVE  [GuardedLease!Next]_(GuardedLease!vars)
      BY <1>2, <2>3, ProcessesStep, LeaseRefined, LeaseWithGuard
  <2>4. QED
      BY <1>2, <2>1, <2>2, <2>3 DEF ActivationNext, ProcessesRun
<1>3. QED
    BY <1>1, <1>2, ActivationLease, PTL DEF ActivationSpec, ActivationKeepsLease,
       GuardedLease!Spec

(* What belongs to the activation keeps its type. *)
ScriptTyped ==
    /\ old \in Olds
    /\ script \in Forward \cup Recording \cup Trap \cup Ended
    /\ done \subseteq Flags
    /\ expected \in BOOLEAN
    /\ active \subseteq Units
    /\ guard \in {"off", "waiting", "holding"}
    /\ nginx \in {old, Candidate} /\ slot \in {old, Candidate}

LEMMA ScriptKeepsTypes ==
    ASSUME TypeOK, ScriptTyped, ScriptStep \/ GuardLocks PROVE ScriptTyped'
<1> USE DEF ScriptTyped, Forward, Recording, Trap, Ended, Flags, Units
<1>0. store.running \in BOOLEAN
    BY DEF TypeOK, Stored
<1>1. CASE CheckCurrent
    BY <1>0, <1>1 DEF CheckCurrent, At
<1>2. CASE StopCandidate
    BY <1>2 DEF StopCandidate, At
<1>3. CASE StartGuard
    BY <1>3 DEF StartGuard, At
<1>4. CASE RecordGuard
    BY <1>4 DEF RecordGuard, RecordedBy, At
<1>5. CASE GuardFails
    BY <1>5 DEF GuardFails, RecordedBy, At
<1>6. CASE LeaseIsHeld
    BY <1>6 DEF LeaseIsHeld, At
<1>7. CASE StartCandidate
    BY <1>7 DEF StartCandidate, At
<1>8. CASE RecordedBy("record_candidate", "candidate", "wait_standby")
    BY <1>8 DEF RecordedBy, At
<1>9. CASE WaitStandby
    BY <1>9 DEF WaitStandby, At
<1>10. CASE SwitchNginx
    BY <1>10 DEF SwitchNginx, At
<1>11. CASE RecordedBy("record_nginx", "nginx", "reload_nginx")
    BY <1>11 DEF RecordedBy, At
<1>12. CASE ReloadNginx
    BY <1>12 DEF ReloadNginx, RecordedBy, At
<1>13. CASE StopOld
    BY <1>13 DEF StopOld
<1>14. CASE StopGuard
    BY <1>14 DEF StopGuard, At, StopGuardUnit
<1>15. CASE WaitLeader("wait_leader", "stabilize")
    BY <1>15 DEF WaitLeader, At
<1>16. CASE WaitLeader("stabilize", "write_slot")
    BY <1>16 DEF WaitLeader, At
<1>17. CASE WriteSlot
    BY <1>17 DEF WriteSlot, At
<1>18. CASE EnableUnits
    BY <1>18 DEF EnableUnits, At
<1>19. CASE CommandFails
    BY <1>19 DEF CommandFails
<1>20. CASE Interrupted
    BY <1>20 DEF Interrupted
<1>21. CASE RestoreNginx
    BY <1>21 DEF RestoreNginx, At
<1>22. CASE UndoCandidate
    BY <1>22 DEF UndoCandidate
<1>23. CASE UndoGuard
    BY <1>23 DEF UndoGuard, At, StopGuardUnit
<1>24. CASE RestartOld
    BY <1>24 DEF RestartOld, At
<1>25. CASE GuardLocks
    BY <1>25 DEF GuardLocks
<1>26. QED
    BY <1>1, <1>2, <1>3, <1>4, <1>5, <1>6, <1>7, <1>8, <1>9, <1>10, <1>11, <1>12, <1>13, <1>14, <1>15, <1>16, <1>17, <1>18, <1>19, <1>20, <1>21, <1>22, <1>23, <1>24, <1>25 DEF ScriptStep

(* Everything an activation and its processes keep has its type. *)
THEOREM ActivationTypeCorrect == ActivationSpec => []ActivationTypeOK
<1> DEFINE Typed == IInv /\ ScriptTyped /\ crashes \in 0..MaxCrashes
<1>1. ActivationInit => Typed
  <2>1. ActivationInit => IInv
      BY TypeInit, CoveredInit DEF ActivationInit, IInv
  <2>2. ActivationInit /\ TypeOK => ScriptTyped /\ crashes \in 0..MaxCrashes
      BY DEF ActivationInit, TypeOK, Stored, ScriptTyped, Forward, Units
  <2>3. QED
      BY <2>1, <2>2 DEF IInv
<1>2. Typed /\ [ActivationNext]_allVars => Typed'
  <2> SUFFICES ASSUME Typed, [ActivationNext]_allVars PROVE ScriptTyped' /\ crashes' \in 0..MaxCrashes
      BY LeaseStep
  <2>1. CASE ScriptStep \/ GuardLocks
    <3>1. ScriptTyped'
        BY <2>1, ScriptKeepsTypes DEF IInv
    <3>2. crashes' = crashes
        BY <2>1, ScriptLock
    <3>3. QED
        BY <3>1, <3>2
  <2>2. ASSUME NEW p \in Processes, ProcessesRun(p)
        PROVE  ScriptTyped' /\ crashes' \in 0..MaxCrashes
    <3>1. UNCHANGED scriptVars
        BY <2>2, ProcessesStep
    <3>2. crashes' = crashes \/ (crashes < MaxCrashes /\ crashes' = crashes + 1)
        BY <2>2 DEF ProcessesRun, ProcessRuns, Crash, SystemdStarts, SystemdStops
    <3>3. QED
        BY <3>1, <3>2 DEF ScriptTyped, Units, scriptVars
  <2>3. CASE UNCHANGED allVars
      BY <2>3 DEF allVars, scriptVars, ScriptTyped, Units
  <2>4. QED
      BY <2>1, <2>2, <2>3 DEF ActivationNext, ProcessesRun
<1>3. Typed => ActivationTypeOK
    BY DEF IInv, ScriptTyped, ActivationTypeOK
<1>4. QED
    BY <1>1, <1>2, <1>3, PTL DEF ActivationSpec

-----------------------------------------------------------------------------
(* The first migration. *)

(* What a step of the processes can do to the lease and to who is active. *)
LEMMA LeaseMoves ==
    ASSUME IInv, NEW p \in Processes,
           ProcessStep(p) \/ Start(p) \/ Terminate(p) \/ Kill(p)
    PROVE  /\ \/ lock' = lock
              \/ lock = NoOne /\ lock' = p /\ pc'[p] # "down"
              \/ (lock = p /\ lock' = NoOne)
           /\ pc' = [pc EXCEPT ![p] = pc'[p]]
           /\ pc'[p] = "down" => lock' # p \/ (pc[p] = "down" /\ lock' = lock)
           /\ pc[p] = "down" => pc'[p] = "down" \/ Start(p)
<1> USE DEF IInv, TypeOK, Places
<1>1. CASE AcquireFails(p)
    BY <1>1 DEF AcquireFails
<1>2. CASE TryAcquire(p)
    BY <1>2 DEF TryAcquire
<1>3. CASE RecoverOrders(p)
    BY <1>3 DEF RecoverOrders
<1>4. CASE RecoveryFails(p)
    BY <1>4 DEF RecoveryFails
<1>5. CASE NoticeFailure(p)
    BY <1>5 DEF NoticeFailure
<1>6. CASE NotifyFailure(p)
    BY <1>6 DEF NotifyFailure
<1>7. CASE Halt(p)
    BY <1>7 DEF Halt
<1>8. CASE CancelSupervisor(p)
    BY <1>8 DEF CancelSupervisor
<1>9. CASE ReleaseLease(p)
  <2>1. pc[p] # "down" /\ pc' = [pc EXCEPT ![p] = "down"] /\ lock' = Freed(p)
      BY <1>9 DEF ReleaseLease
  <2>2. pc'[p] = "down"
      BY <2>1
  <2>3. /\ lock' # p
        /\ lock' = lock \/ (lock = p /\ lock' = NoOne)
      BY <2>1 DEF Freed
  <2>4. QED
      BY <2>1, <2>2, <2>3
<1>10. CASE \E loop \in Loops : TaskCanceled(p, loop)
    BY <1>10 DEF TaskCanceled
<1>11. CASE MonitorStops(p)
    BY <1>11 DEF MonitorStops
<1>12. CASE \E loop \in Loops : LoopEnds(p, loop)
    BY <1>12 DEF LoopEnds
<1>13. CASE \E request \in Requests : Admit(p, request)
    BY <1>13 DEF Admit
<1>14. CASE \E request \in Requests : Perform(p, request)
    BY <1>14 DEF Perform
<1>15. CASE \E request \in Requests : DropRequest(p, request)
    BY <1>15 DEF DropRequest
<1>16. CASE Start(p)
    BY <1>16 DEF Start
<1>17. CASE Terminate(p)
    BY <1>17 DEF Terminate
<1>18. CASE Kill(p)
  <2>1. pc[p] # "down" /\ pc' = [pc EXCEPT ![p] = "down"] /\ lock' = Freed(p)
      BY <1>18 DEF Kill
  <2>2. pc'[p] = "down"
      BY <2>1
  <2>3. /\ lock' # p
        /\ lock' = lock \/ (lock = p /\ lock' = NoOne)
      BY <2>1 DEF Freed
  <2>4. QED
      BY <2>1, <2>2, <2>3
<1>19. QED
    BY <1>1, <1>2, <1>3, <1>4, <1>5, <1>6, <1>7, <1>8, <1>9, <1>10, <1>11, <1>12, <1>13, <1>14, <1>15, <1>16, <1>17, <1>18 DEF ProcessStep, SupervisorStep

(* The first migration starts with the legacy service alone. *)
LEMMA ActivationInvInit == ActivationInit /\ Legacy => ActivationInv
<1> SUFFICES ASSUME ActivationInit, Legacy PROVE ActivationInv
    OBVIOUS
<1>1. IInv
    BY TypeInit, CoveredInit DEF ActivationInit, IInv
<1>2. DownFree /\ OnlyCandidateRuns
    BY DEF ActivationInit, Init, DownFree, OnlyCandidateRuns
<1>3. Stretches
    BY DEF ActivationInit, Init, Stretches, Placed, NotStarted, Guarded, Recorded, OldGone, Undoable,
           Undone, BeforeStart, UnderGuard, AfterStart, AfterOld, InTrap, AfterUndo, Stopped
<1>4. QED
    BY <1>1, <1>2, <1>3 DEF ActivationInv

(* A step of a process: it takes a free lease only, and systemd starts      *)
(* active units only.                                                       *)
LEMMA InvProcessStep ==
    ASSUME Legacy, ActivationInv, NEW p \in Processes, ProcessesRun(p)
    PROVE  (DownFree /\ OnlyCandidateRuns /\ Stretches)'
<1> DEFINE Step == ProcessStep(p) \/ Start(p) \/ Terminate(p) \/ Kill(p)
<1>1. Step /\ UNCHANGED scriptVars
    BY DEF ProcessesRun, ProcessRuns, Crash, SystemdStarts, SystemdStops
<1>2. IInv /\ pc \in [Processes -> Places]
    BY DEF ActivationInv, IInv, TypeOK
<1>3. /\ \/ lock' = lock
         \/ lock = NoOne /\ lock' = p /\ pc'[p] # "down"
         \/ (lock = p /\ lock' = NoOne)
      /\ pc' = [pc EXCEPT ![p] = pc'[p]]
      /\ pc'[p] = "down" => lock' # p \/ (pc[p] = "down" /\ lock' = lock)
      /\ pc[p] = "down" => pc'[p] = "down" \/ Start(p)
    BY <1>1, <1>2, LeaseMoves
<1>4. pc[p] = "down" => pc'[p] = "down" \/ p \in active
    BY <1>3 DEF ProcessesRun, ProcessRuns, Crash, SystemdStarts, SystemdStops, Terminate,
                Kill, Start, ProcessStep, SupervisorStep, AcquireFails, TryAcquire,
                RecoverOrders, RecoveryFails, NoticeFailure, NotifyFailure, Halt,
                CancelSupervisor, ReleaseLease, TaskCanceled, MonitorStops, LoopEnds,
                Admit, Perform, DropRequest, TypeOK
<1>5. DownFree'
    BY <1>2, <1>3 DEF ActivationInv, DownFree
<1>6. OnlyCandidateRuns'
    BY <1>1, <1>2, <1>3, <1>4 DEF ActivationInv, OnlyCandidateRuns, Legacy, scriptVars
<1>7. Stopped(Candidate) => Stopped(Candidate)'
    BY <1>1, <1>2, <1>3, <1>4 DEF Stopped, scriptVars
<1>8. lock = DeployGuard => lock' = DeployGuard
    BY <1>3
<1>9. Stretches'
    BY <1>1, <1>7, <1>8 DEF ActivationInv, Stretches, Placed, NotStarted, Guarded, Recorded, OldGone,
                            Undoable, Undone, CandidateForgotten, scriptVars
<1>10. QED
    BY <1>5, <1>6, <1>9

(* A step of the script or of the guard. *)
LEMMA InvScriptStep ==
    ASSUME Legacy, ActivationInv, ScriptStep \/ GuardLocks
    PROVE  (DownFree /\ OnlyCandidateRuns /\ Stretches)'
<1>1. /\ UNCHANGED <<pc, old>>
      /\ lock' \in {NoOne, DeployGuard} \/ lock' = lock
      /\ lock \in {NoOne, DeployGuard} \/ lock' = lock
    BY ScriptLock
<1>2. DownFree'
    BY <1>1 DEF ActivationInv, DownFree
<1>3. OnlyCandidateRuns'
  <2>1. active' \subseteq active \cup {old, Candidate}
    <3> USE DEF vars
    <3>1. CASE CheckCurrent
        BY <3>1 DEF CheckCurrent
    <3>2. CASE StopCandidate
        BY <3>2 DEF StopCandidate
    <3>3. CASE StartGuard
        BY <3>3 DEF StartGuard
    <3>4. CASE RecordGuard
        BY <3>4 DEF RecordGuard, RecordedBy
    <3>5. CASE GuardFails
        BY <3>5 DEF GuardFails, RecordedBy
    <3>6. CASE LeaseIsHeld
        BY <3>6 DEF LeaseIsHeld
    <3>7. CASE StartCandidate
        BY <3>7 DEF StartCandidate
    <3>8. CASE RecordedBy("record_candidate", "candidate", "wait_standby")
        BY <3>8 DEF RecordedBy
    <3>9. CASE WaitStandby
        BY <3>9 DEF WaitStandby
    <3>10. CASE SwitchNginx
        BY <3>10 DEF SwitchNginx
    <3>11. CASE RecordedBy("record_nginx", "nginx", "reload_nginx")
        BY <3>11 DEF RecordedBy
    <3>12. CASE ReloadNginx
        BY <3>12 DEF ReloadNginx, RecordedBy
    <3>13. CASE StopOld
        BY <3>13 DEF StopOld
    <3>14. CASE StopGuard
        BY <3>14 DEF StopGuard, StopGuardUnit, GuardReleased
    <3>15. CASE WaitLeader("wait_leader", "stabilize")
        BY <3>15 DEF WaitLeader
    <3>16. CASE WaitLeader("stabilize", "write_slot")
        BY <3>16 DEF WaitLeader
    <3>17. CASE WriteSlot
        BY <3>17 DEF WriteSlot
    <3>18. CASE EnableUnits
        BY <3>18 DEF EnableUnits
    <3>19. CASE CommandFails
        BY <3>19 DEF CommandFails, Forward
    <3>20. CASE Interrupted
        BY <3>20 DEF Interrupted
    <3>21. CASE RestoreNginx
        BY <3>21 DEF RestoreNginx
    <3>22. CASE UndoCandidate
        BY <3>22 DEF UndoCandidate
    <3>23. CASE UndoGuard
        BY <3>23 DEF UndoGuard, StopGuardUnit, GuardReleased
    <3>24. CASE RestartOld
        BY <3>24 DEF RestartOld
    <3>25. CASE GuardLocks
        BY <3>25 DEF GuardLocks
    <3>26. QED
        BY <3>1, <3>2, <3>3, <3>4, <3>5, <3>6, <3>7, <3>8, <3>9, <3>10, <3>11, <3>12, <3>13, <3>14, <3>15, <3>16, <3>17, <3>18, <3>19, <3>20, <3>21, <3>22, <3>23, <3>24, <3>25 DEF ScriptStep
  <2>2. QED
      BY <2>1, <1>1 DEF ActivationInv, OnlyCandidateRuns
<1>4. Stopped(Candidate) /\ lock # NoOne => lock = DeployGuard
  <2>1. lock \in Processes \cup {NoOne, DeployGuard}
      BY DEF ActivationInv, IInv, TypeOK
  <2>2. \A p \in Processes : Stopped(Candidate) => pc[p] = "down"
      BY DEF ActivationInv, OnlyCandidateRuns, Stopped
  <2>3. QED
      BY <2>1, <2>2 DEF ActivationInv, DownFree
<1>5. Stretches'
  <2> USE DEF ActivationInv, Stretches, Placed, NotStarted, Guarded, Recorded, OldGone, Undoable,
              Undone, BeforeStart, UnderGuard, AfterStart, AfterOld, InTrap, AfterUndo,
              Stopped, CandidateForgotten, Legacy, At, vars
  <2>1. CASE CheckCurrent
      BY <2>1, <1>1, <1>4 DEF CheckCurrent
  <2>2. CASE StopCandidate
      BY <2>2, <1>1, <1>4 DEF StopCandidate
  <2>3. CASE StartGuard
      BY <2>3, <1>1, <1>4 DEF StartGuard
  <2>4. CASE RecordGuard
      BY <2>4, <1>1, <1>4 DEF RecordGuard, RecordedBy
  <2>5. CASE GuardFails
      BY <2>5, <1>1, <1>4 DEF GuardFails, RecordedBy
  <2>6. CASE LeaseIsHeld
      BY <2>6, <1>1, <1>4 DEF LeaseIsHeld
  <2>7. CASE StartCandidate
      BY <2>7, <1>1, <1>4 DEF StartCandidate
  <2>8. CASE RecordedBy("record_candidate", "candidate", "wait_standby")
      BY <2>8, <1>1, <1>4 DEF RecordedBy
  <2>9. CASE WaitStandby
      BY <2>9, <1>1, <1>4 DEF WaitStandby
  <2>10. CASE SwitchNginx
      BY <2>10, <1>1, <1>4 DEF SwitchNginx
  <2>11. CASE RecordedBy("record_nginx", "nginx", "reload_nginx")
      BY <2>11, <1>1, <1>4 DEF RecordedBy
  <2>12. CASE ReloadNginx
      BY <2>12, <1>1, <1>4 DEF ReloadNginx, RecordedBy
  <2>13. CASE StopOld
      BY <2>13, <1>1, <1>4 DEF StopOld
  <2>14. CASE StopGuard
      BY <2>14, <1>1, <1>4 DEF StopGuard, StopGuardUnit, GuardReleased
  <2>15. CASE WaitLeader("wait_leader", "stabilize")
      BY <2>15, <1>1, <1>4 DEF WaitLeader
  <2>16. CASE WaitLeader("stabilize", "write_slot")
      BY <2>16, <1>1, <1>4 DEF WaitLeader
  <2>17. CASE WriteSlot
      BY <2>17, <1>1, <1>4 DEF WriteSlot
  <2>18. CASE EnableUnits
      BY <2>18, <1>1, <1>4 DEF EnableUnits
  <2>19. CASE CommandFails
      BY <2>19, <1>1, <1>4 DEF CommandFails, Forward
  <2>20. CASE Interrupted
      BY <2>20, <1>1, <1>4 DEF Interrupted, Forward, Recording
  <2>21. CASE RestoreNginx
      BY <2>21, <1>1, <1>4 DEF RestoreNginx
  <2>22. CASE UndoCandidate
      BY <2>22, <1>1, <1>4 DEF UndoCandidate
  <2>23. CASE UndoGuard
      BY <2>23, <1>1, <1>4 DEF UndoGuard, StopGuardUnit, GuardReleased
  <2>24. CASE RestartOld
      BY <2>24, <1>1, <1>4 DEF RestartOld
  <2>25. CASE GuardLocks
      BY <2>25, <1>1, <1>4 DEF GuardLocks
  <2>26. QED
      BY <2>1, <2>2, <2>3, <2>4, <2>5, <2>6, <2>7, <2>8, <2>9, <2>10, <2>11, <2>12, <2>13, <2>14, <2>15, <2>16, <2>17, <2>18, <2>19, <2>20, <2>21, <2>22, <2>23, <2>24, <2>25 DEF ScriptStep
<1>6. QED
    BY <1>2, <1>3, <1>5

(* Every step of a first migration keeps the guard argument. *)
LEMMA ActivationInvStep ==
    ASSUME Legacy, ActivationInv, [ActivationNext]_allVars
    PROVE  ActivationInv'
<1>1. IInv'
    BY LeaseStep DEF ActivationInv
<1>2. (DownFree /\ OnlyCandidateRuns /\ Stretches)'
  <2>1. CASE UNCHANGED allVars
      BY <2>1 DEF allVars, vars, scriptVars, ActivationInv, DownFree, OnlyCandidateRuns,
                  Stretches, Placed, NotStarted, Guarded, Recorded, OldGone, Undoable, Undone, Stopped,
                  CandidateForgotten
  <2>2. CASE ScriptStep \/ GuardLocks
      BY <2>2, InvScriptStep
  <2>3. ASSUME NEW p \in Processes, ProcessesRun(p)
        PROVE  (DownFree /\ OnlyCandidateRuns /\ Stretches)'
      BY <2>3, InvProcessStep
  <2>4. QED
      BY <2>1, <2>2, <2>3 DEF ActivationNext, ProcessesRun
<1>3. QED
    BY <1>1, <1>2 DEF ActivationInv

(* The slot file is not read again. *)
LEMMA OldFixed == [ActivationNext]_allVars => old' = old
<1> SUFFICES ASSUME [ActivationNext]_allVars PROVE old' = old
    OBVIOUS
<1>1. CASE UNCHANGED allVars
    BY <1>1 DEF allVars, scriptVars
<1>2. CASE ScriptStep \/ GuardLocks
    BY <1>2, ScriptLock
<1>3. ASSUME NEW p \in Processes, ProcessesRun(p) PROVE old' = old
    BY <1>3, ProcessesStep DEF scriptVars
<1>4. QED
    BY <1>1, <1>2, <1>3 DEF ActivationNext, ProcessesRun

(* While the legacy service runs no process is active, wherever the         *)
(* activation fails, crashes or is interrupted, unless the trap forgot that *)
(* it started the candidate.                                                *)
THEOREM FirstMigration == ActivationSpec => []LegacyTradesAlone
<1> DEFINE Inv == IInv /\ (Legacy => ActivationInv)
<1>1. Inv => LegacyTradesAlone
  <2> SUFFICES ASSUME ActivationInv, old \in active, ~CandidateForgotten,
                      NEW p \in Processes
               PROVE  ~Active(p)
      BY DEF LegacyTradesAlone
  <2>1. Active(p) => lock = p
      BY DEF ActivationInv, IInv, Covered, TenureCovered, TasksCovered, Tenure, Active
  <2>2. pc[p] = "down" => ~Active(p)
      BY <2>1 DEF ActivationInv, DownFree
  <2>3. CASE p # Candidate
      BY <2>2, <2>3 DEF ActivationInv, OnlyCandidateRuns
  <2>4. CASE p = Candidate
    <3>1. Stopped(Candidate) \/ lock = DeployGuard
        BY DEF ActivationInv, Stretches, Placed, NotStarted, Guarded, OldGone, Undoable,
               Undone, BeforeStart, UnderGuard, AfterStart, AfterOld, InTrap, AfterUndo
    <3>2. QED
        BY <2>1, <2>2, <2>4, <3>1 DEF Stopped
  <2>5. QED
      BY <2>3, <2>4
<1>2. ActivationInit => Inv
  <2>1. ActivationInit => IInv
      BY TypeInit, CoveredInit DEF ActivationInit, IInv
  <2>2. QED
      BY <2>1, ActivationInvInit
<1>3. Inv /\ [ActivationNext]_allVars => Inv'
  <2> SUFFICES ASSUME Inv, [ActivationNext]_allVars, Legacy' PROVE ActivationInv'
      BY LeaseStep
  <2>1. Legacy
      BY OldFixed DEF Legacy
  <2>2. QED
      BY <2>1, ActivationInvStep
<1>4. QED
    BY <1>1, <1>2, <1>3, PTL DEF ActivationSpec

-----------------------------------------------------------------------------
(* The unit behind nginx, for either kind of old release. *)

BeforeSwitch == {"check", "stop_candidate", "lock_guard", "record_guard", "start_candidate",
                 "record_candidate", "wait_standby", "switch_nginx"}
BeforeStopOld == BeforeSwitch \cup {"record_nginx", "reload_nginx"}
AfterSwitch == {"reload_nginx", "stop_old", "stop_guard", "wait_leader", "stabilize",
                "write_slot", "enable_units"}
AfterRestore == {"undo_candidate", "undo_guard", "restart_old", "rolled_back"}

Switching ==
    /\ script \in BeforeSwitch => nginx = old
    /\ script \in AfterRestore => nginx = old \/ SwitchForgotten
    /\ script \in AfterSwitch => "nginx" \in done /\ nginx = Candidate
    /\ script = "record_nginx" => nginx = Candidate
    /\ script = "restore_nginx" => nginx = old \/ "nginx" \in done \/ SwitchForgotten
    /\ script = "succeeded" => nginx = Candidate
CandidateKept ==
    script \in AfterStart \cup {"record_candidate", "succeeded"} => Candidate \in active
OldKept ==
    /\ script \in BeforeStopOld => old \in active
    /\ "old" \notin done => old \in active
    /\ script = "stop_old" => "old" \in done
    /\ script = "rolled_back" => old \in active

ServiceInv == old # Candidate /\ Switching /\ CandidateKept /\ OldKept

(* Before the activation nginx points to the old unit, which runs. *)
LEMMA ServiceInit == ActivationInit => ServiceInv
BY DEF ActivationInit, ServiceInv, Switching, CandidateKept, OldKept, BeforeSwitch,
       BeforeStopOld, AfterSwitch, AfterRestore, AfterStart, SwitchForgotten

(* A step of the script keeps what nginx, the units and the flags say of each other. *)
LEMMA ServiceScriptStep ==
    ASSUME ServiceInv, ScriptStep \/ GuardLocks
    PROVE  ServiceInv'
<1> USE DEF ServiceInv, Switching, CandidateKept, OldKept, BeforeSwitch, BeforeStopOld,
            AfterSwitch, AfterRestore, AfterStart, SwitchForgotten, At
<1>1. CASE CheckCurrent
    BY <1>1 DEF CheckCurrent
<1>2. CASE StopCandidate
    BY <1>2 DEF StopCandidate
<1>3. CASE StartGuard
    BY <1>3 DEF StartGuard
<1>4. CASE RecordGuard
    BY <1>4 DEF RecordGuard, RecordedBy
<1>5. CASE GuardFails
    BY <1>5 DEF GuardFails, RecordedBy
<1>6. CASE LeaseIsHeld
    BY <1>6 DEF LeaseIsHeld
<1>7. CASE StartCandidate
    BY <1>7 DEF StartCandidate
<1>8. CASE RecordedBy("record_candidate", "candidate", "wait_standby")
    BY <1>8 DEF RecordedBy
<1>9. CASE WaitStandby
    BY <1>9 DEF WaitStandby
<1>10. CASE SwitchNginx
    BY <1>10 DEF SwitchNginx
<1>11. CASE RecordedBy("record_nginx", "nginx", "reload_nginx")
    BY <1>11 DEF RecordedBy
<1>12. CASE ReloadNginx
    BY <1>12 DEF ReloadNginx, RecordedBy
<1>13. CASE StopOld
    BY <1>13 DEF StopOld
<1>14. CASE StopGuard
    BY <1>14 DEF StopGuard, StopGuardUnit
<1>15. CASE WaitLeader("wait_leader", "stabilize")
    BY <1>15 DEF WaitLeader
<1>16. CASE WaitLeader("stabilize", "write_slot")
    BY <1>16 DEF WaitLeader
<1>17. CASE WriteSlot
    BY <1>17 DEF WriteSlot
<1>18. CASE EnableUnits
    BY <1>18 DEF EnableUnits
<1>19. CASE CommandFails
    BY <1>19 DEF CommandFails, Forward
<1>20. CASE Interrupted
    BY <1>20 DEF Interrupted, Forward, Recording
<1>21. CASE RestoreNginx
    BY <1>21 DEF RestoreNginx
<1>22. CASE UndoCandidate
    BY <1>22 DEF UndoCandidate
<1>23. CASE UndoGuard
    BY <1>23 DEF UndoGuard, StopGuardUnit
<1>24. CASE RestartOld
    BY <1>24 DEF RestartOld
<1>25. CASE GuardLocks
    BY <1>25 DEF GuardLocks
<1>26. QED
    BY <1>1, <1>2, <1>3, <1>4, <1>5, <1>6, <1>7, <1>8, <1>9, <1>10, <1>11, <1>12, <1>13, <1>14, <1>15, <1>16, <1>17, <1>18, <1>19, <1>20, <1>21, <1>22, <1>23, <1>24, <1>25 DEF ScriptStep

(* So does every other step: the processes change none of it. *)
LEMMA ServiceStep == ServiceInv /\ [ActivationNext]_allVars => ServiceInv'
<1> SUFFICES ASSUME ServiceInv, [ActivationNext]_allVars PROVE ServiceInv'
    OBVIOUS
<1>1. CASE UNCHANGED scriptVars
    BY <1>1 DEF scriptVars, ServiceInv, Switching, CandidateKept, OldKept, SwitchForgotten
<1>2. CASE ScriptStep \/ GuardLocks
    BY <1>2, ServiceScriptStep
<1>3. ASSUME NEW p \in Processes, ProcessesRun(p) PROVE UNCHANGED scriptVars
    BY <1>3, ProcessesStep
<1>4. QED
    BY <1>1, <1>2, <1>3 DEF ActivationNext, ProcessesRun, allVars

(* However an activation ends, nginx points at a unit that systemd runs,    *)
(* unless a signal made the trap forget that it was switched.               *)
THEOREM ServiceRestored == ActivationSpec => []ServedReleaseRuns
<1>1. ServiceInv => ServedReleaseRuns
    BY DEF ServiceInv, Switching, CandidateKept, OldKept, AfterStart, AfterRestore,
           ServedReleaseRuns, Ended
<1>2. QED
    BY <1>1, ServiceInit, ServiceStep, PTL DEF ActivationSpec
=============================================================================
