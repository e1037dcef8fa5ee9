------------------------------ MODULE BlueGreen ------------------------------
(***************************************************************************)
(* One activation of a release by scripts/activate_blue_green.sh (set -e   *)
(* with an EXIT trap that rolls back) over the processes of                *)
(* RuntimeSupervisor, which systemd starts, restarts and stops             *)
(* (crypto-arb-web@.service).  The release it replaces is the other slot,  *)
(* or, on the first migration, a legacy service that trades without a      *)
(* lease; then the script holds the lease itself by a guard unit.          *)
(*                                                                         *)
(* Any command of the script may fail, any wait may time out, and a signal *)
(* may interrupt the script between a command and the assignment that      *)
(* records it for the trap.  The guard's sleep of 600 seconds outlasts the *)
(* script, and the commands of the trap succeed.                           *)
(***************************************************************************)
EXTENDS RuntimeSupervisor

CONSTANTS
    Olds,       \* what OLD_SERVICE may be: processes, or the legacy service
    Candidate,  \* CANDIDATE_SERVICE, a process
    MaxCrashes  \* bound on crashes, for model checking

ASSUME ActivationAssumption ==
    /\ Candidate \in Processes
    /\ Olds \intersect {Candidate, NoOne, DeployGuard} = {}
    /\ MaxCrashes \in Nat

VARIABLES
    old,        \* OLD_SERVICE, which OLD_SLOT names
    script,     \* the next command of the script or of its trap
    done,       \* the flags NGINX_SWITCHED, CANDIDATE_STARTED, ...
    expected,   \* EXPECTED_PROGRAM_RUNNING
    active,     \* the units systemd keeps running
    guard,      \* the guard unit, "flock LOCK sleep 600"
    nginx,      \* the unit that the configuration of nginx points to
    slot,       \* data/active_release_slot
    crashes

scriptVars == <<old, script, done, expected, active, guard, nginx, slot>>
allVars == <<vars, scriptVars, crashes>>

Legacy == old \notin Processes      \* OLD_SLOT is empty
Units == Processes \cup {old}

Forward == {"check", "stop_candidate", "lock_guard", "start_candidate",
            "wait_standby", "switch_nginx", "reload_nginx", "stop_old", "stop_guard",
            "wait_leader", "stabilize", "write_slot", "enable_units"}
Recording == {"record_guard", "record_candidate", "record_nginx"}
Trap == {"restore_nginx", "undo_candidate", "undo_guard", "restart_old"}
Ended == {"succeeded", "rolled_back"}
Flags == {"guard", "candidate", "nginx", "old"}

ActivationTypeOK ==
    /\ TypeOK
    /\ old \in Olds
    /\ script \in Forward \cup Recording \cup Trap \cup Ended
    /\ done \subseteq Flags
    /\ expected \in BOOLEAN
    /\ active \subseteq Units
    /\ guard \in {"off", "waiting", "holding"}
    /\ nginx \in {old, Candidate} /\ slot \in {old, Candidate}
    /\ crashes \in 0..MaxCrashes

ActivationInit ==
    /\ Init
    /\ old \in Olds
    /\ script = "check"
    /\ done = {}
    /\ expected = store.running
    /\ active = {old}
    /\ guard = "off"
    /\ nginx = old /\ slot = old
    /\ crashes = 0

-----------------------------------------------------------------------------
(* systemd. *)

Stopped(unit) == unit \notin active /\ (unit \in Processes => pc[unit] = "down")

SystemdStarts(p) ==
    /\ p \in active
    /\ Start(p)
    /\ UNCHANGED <<scriptVars, crashes>>

SystemdStops(p) ==
    /\ p \notin active
    /\ Terminate(p)
    /\ UNCHANGED <<scriptVars, crashes>>

ProcessRuns(p) ==
    /\ ProcessStep(p)
    /\ UNCHANGED <<scriptVars, crashes>>

(* A crash, or SIGKILL when TimeoutStopSec is over. *)
Crash(p) ==
    /\ crashes < MaxCrashes
    /\ Kill(p)
    /\ crashes' = crashes + 1
    /\ UNCHANGED scriptVars

(* The flock of the guard unit waits for the lease. *)
GuardLocks ==
    /\ guard = "waiting"
    /\ lock = NoOne
    /\ lock' = DeployGuard
    /\ guard' = "holding"
    /\ UNCHANGED <<pc, tasks, program, store, requests, stopping>>
    /\ UNCHANGED <<script, done, expected, active, nginx, slot, crashes, old>>

-----------------------------------------------------------------------------
(* The commands of the script, in their order. *)

At(place, next) == script = place /\ script' = next

RecordedBy(place, flag, next) ==
    /\ At(place, next)
    /\ done' = done \cup {flag}
    /\ UNCHANGED <<vars, expected, active, guard, nginx, slot, crashes, old>>

(* is-active, the health of the old release, inspect_order_intents.  The    *)
(* program switch was read when the script started, before it waits here.   *)
CheckCurrent ==
    /\ At("check", "stop_candidate")
    /\ ~Legacy => pc[old] \in {"standby", "leader"}
    /\ UNCHANGED <<vars, done, expected, active, guard, nginx, slot, crashes, old>>

StopCandidate ==
    /\ At("stop_candidate", "lock_guard")
    /\ Stopped(Candidate)
    /\ UNCHANGED <<vars, done, expected, active, guard, nginx, slot, crashes, old>>

StartGuard ==
    /\ Legacy
    /\ At("lock_guard", "record_guard")
    /\ guard' = "waiting"
    /\ UNCHANGED <<vars, done, expected, active, nginx, slot, crashes, old>>

LeaseIsHeld ==
    /\ ~Legacy
    /\ lock # NoOne
    /\ At("lock_guard", "start_candidate")
    /\ UNCHANGED <<vars, done, expected, active, guard, nginx, slot, crashes, old>>

(* The loop of flock -n: the script goes on when the lease is held. *)
RecordGuard ==
    /\ lock # NoOne
    /\ RecordedBy("record_guard", "guard", "start_candidate")

StartCandidate ==
    /\ At("start_candidate", "record_candidate")
    /\ active' = active \cup {Candidate}
    /\ UNCHANGED <<vars, done, expected, guard, nginx, slot, crashes, old>>

WaitStandby ==
    /\ At("wait_standby", "switch_nginx")
    /\ pc[Candidate] = "standby"
    /\ UNCHANGED <<vars, done, expected, active, guard, nginx, slot, crashes, old>>

SwitchNginx ==
    /\ At("switch_nginx", "record_nginx")
    /\ nginx' = Candidate
    /\ UNCHANGED <<vars, done, expected, active, guard, slot, crashes, old>>

(* OLD_STOPPED is set before the stop. *)
ReloadNginx == RecordedBy("reload_nginx", "old", "stop_old")

StopOld ==
    /\ script = "stop_old"
    /\ IF old \in active
          THEN active' = active \ {old} /\ UNCHANGED script
          ELSE Stopped(old) /\ script' = "stop_guard" /\ UNCHANGED active
    /\ UNCHANGED <<vars, done, expected, guard, nginx, slot, crashes, old>>

(* Mutant: the guard passes its lock to the candidate, who is not asked. *)
GuardHandedOver == IF lock = DeployGuard THEN Candidate ELSE lock

GuardReleased == IF lock = DeployGuard THEN NoOne ELSE lock

StopGuardUnit ==
    /\ guard' = "off"
    /\ lock' = GuardReleased
    /\ done' = done \ {"guard"}
    /\ UNCHANGED <<pc, tasks, program, store, requests, stopping>>

StopGuard ==
    /\ At("stop_guard", "wait_leader")
    /\ IF "guard" \in done THEN StopGuardUnit ELSE UNCHANGED <<vars, done, guard>>
    /\ UNCHANGED <<expected, active, nginx, slot, crashes, old>>

(* wait_for_health leader; safe_to_replace is left out. *)
Healthy == pc[Candidate] = "leader" /\ (expected => program[Candidate].running)

WaitLeader(place, next) ==
    /\ At(place, next)
    /\ Healthy
    /\ UNCHANGED <<vars, done, expected, active, guard, nginx, slot, crashes, old>>

WriteSlot ==
    /\ At("write_slot", "enable_units")
    /\ slot' = Candidate
    /\ UNCHANGED <<vars, done, expected, active, guard, nginx, crashes, old>>

(* systemctl enable and disable, the log timer, the account workers. *)
EnableUnits ==
    /\ At("enable_units", "succeeded")
    /\ UNCHANGED <<vars, done, expected, active, guard, nginx, slot, crashes, old>>

-----------------------------------------------------------------------------
(* The EXIT trap. *)

(* A command fails under set -e, or a wait times out. *)
CommandFails ==
    /\ script \in Forward
    /\ script' = "restore_nginx"
    /\ UNCHANGED <<vars, done, expected, active, guard, nginx, slot, crashes, old>>

(* The shell notices a signal when the foreground command has ended. *)
Interrupted ==
    /\ script \in Forward \cup Recording
    /\ script' = "restore_nginx"
    /\ UNCHANGED <<vars, done, expected, active, guard, nginx, slot, crashes, old>>

(* The guard never took the lease: the script ends with GUARD_STARTED set. *)
GuardFails ==
    /\ lock = NoOne
    /\ RecordedBy("record_guard", "guard", "restore_nginx")

RestoreNginx ==
    /\ At("restore_nginx", "undo_candidate")
    /\ nginx' = IF "nginx" \in done THEN old ELSE nginx
    /\ UNCHANGED <<vars, done, expected, active, guard, slot, crashes, old>>

(* Mutant: the trap stops the candidate with --no-block. *)
UndoCandidateNoWait ==
    /\ At("undo_candidate", "undo_guard")
    /\ active' = IF "candidate" \in done THEN active \ {Candidate} ELSE active
    /\ UNCHANGED <<vars, done, expected, guard, nginx, slot, crashes, old>>

UndoCandidate ==
    /\ script = "undo_candidate"
    /\ IF "candidate" \in done /\ Candidate \in active
          THEN active' = active \ {Candidate} /\ UNCHANGED script
          ELSE /\ "candidate" \in done => Stopped(Candidate)
               /\ script' = "undo_guard"
               /\ UNCHANGED active
    /\ UNCHANGED <<vars, done, expected, guard, nginx, slot, crashes, old>>

UndoGuard ==
    /\ At("undo_guard", "restart_old")
    /\ IF "guard" \in done THEN StopGuardUnit ELSE UNCHANGED <<vars, done, guard>>
    /\ UNCHANGED <<expected, active, nginx, slot, crashes, old>>

(* Mutant: the trap does not start the old service again. *)
LeaveOldStopped ==
    /\ At("restart_old", "rolled_back")
    /\ UNCHANGED <<vars, done, expected, active, guard, nginx, slot, crashes, old>>

RestartOld ==
    /\ At("restart_old", "rolled_back")
    /\ active' = IF "old" \in done THEN active \cup {old} ELSE active
    /\ UNCHANGED <<vars, done, expected, guard, nginx, slot, crashes, old>>

-----------------------------------------------------------------------------
ScriptStep ==
    \/ CheckCurrent \/ StopCandidate
    \/ StartGuard \/ RecordGuard \/ GuardFails \/ LeaseIsHeld
    \/ StartCandidate \/ RecordedBy("record_candidate", "candidate", "wait_standby")
    \/ WaitStandby
    \/ SwitchNginx \/ RecordedBy("record_nginx", "nginx", "reload_nginx")
    \/ ReloadNginx \/ StopOld \/ StopGuard
    \/ WaitLeader("wait_leader", "stabilize") \/ WaitLeader("stabilize", "write_slot")
    \/ WriteSlot \/ EnableUnits
    \/ CommandFails \/ Interrupted
    \/ RestoreNginx \/ UndoCandidate \/ UndoGuard \/ RestartOld

ActivationNext ==
    \/ ScriptStep
    \/ GuardLocks
    \/ \E p \in Processes :
          ProcessRuns(p) \/ Crash(p) \/ SystemdStarts(p) \/ SystemdStops(p)

ActivationSpec == ActivationInit /\ [][ActivationNext]_allVars

(* The script goes on, its waits time out, and systemd starts and stops the *)
(* units it was asked to.                                                   *)
FairActivation ==
    /\ ActivationSpec
    /\ WF_allVars(ScriptStep) /\ WF_allVars(GuardLocks)
    /\ \A p \in Processes :
          /\ WF_allVars(SystemdStarts(p)) /\ WF_allVars(SystemdStops(p))
          /\ WF_allVars(SupervisorStep(p) /\ UNCHANGED <<scriptVars, crashes>>)
          /\ \A request \in Requests :
                WF_allVars((Perform(p, request) \/ DropRequest(p, request))
                           /\ UNCHANGED <<scriptVars, crashes>>)

-----------------------------------------------------------------------------
(* A signal between a command and its assignment leaves the trap without    *)
(* the flag: it does not know that it started the candidate, or that it     *)
(* switched nginx.                                                          *)
CandidateForgotten ==
    /\ Candidate \in active
    /\ "candidate" \notin done /\ script # "record_candidate"

SwitchForgotten ==
    /\ nginx = Candidate
    /\ "nginx" \notin done /\ script # "record_nginx"

(* On the first migration the old release trades without a lease: no other  *)
(* process is active while it runs, also when the activation fails half     *)
(* way and it is started again: the guard keeps the candidate from trading  *)
(* "before the legacy service stops" (README.md:733-735).  A signal is      *)
(* no exception, but when it makes the trap forget the candidate.           *)
LegacyTradesAlone ==
    Legacy /\ old \in active /\ ~CandidateForgotten
        => \A p \in Processes : ~Active(p)

(* However the activation ends, nginx sends requests to a unit that runs:   *)
(* "nginx and the previous service are restored automatically"              *)
(* (README.md:732), unless the trap does not know of the switch.            *)
ServedReleaseRuns ==
    script \in Ended => nginx \in active \/ SwitchForgotten

(* The activation ends, and after a rollback the previous release gets its  *)
(* lease back, also when it or the candidate crashes meanwhile: the         *)
(* candidate does not keep it, unless the trap does not know of it.         *)
RollbackResumesOld ==
    /\ <>(script \in Ended)
    /\ script = "rolled_back" ~>
          (Legacy /\ old \in active) \/ lock = old \/ CandidateForgotten

(* The handover keeps what the lease promises: whatever fails, crashes or   *)
(* is interrupted, the releases and the guard unit of the script are the    *)
(* members of one abstract lease, in which the guard never trades.          *)
GuardedLease == INSTANCE LeaderLease
                   WITH Members <- Processes \cup {DeployGuard}, Traders <- Processes,
                        Nobody <- NoOne, Switches <- Stored,
                        holder <- lock, trading <- {p \in Processes : Active(p)},
                        switch <- store

ActivationKeepsLease == GuardedLease!Spec
=============================================================================
