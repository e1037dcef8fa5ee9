--------------------------- MODULE ConfigVersions ---------------------------
(***************************************************************************)
(* The durable configuration of the web process: its copy in memory        *)
(* (MonitorState), the runtime store that a restart loads, the history in  *)
(* config_versions.sqlite3 with its known-good marks, the operators'       *)
(* edits, and the two guards that mark a configuration known-good or roll  *)
(* it back: one for each started strategy and one for every start of the   *)
(* process (web/routes/control.py).                                        *)
(*                                                                         *)
(* A configuration is the setting of every market maker instance and one   *)
(* value for all that is edited in a single step (risk limits, pauses,     *)
(* markets, the other strategies).  A setting is "off", or live and such   *)
(* that the loop of the instance works ("sound") or ends blocked or in     *)
(* error ("faulty").                                                       *)
(*                                                                         *)
(* A step is what a coroutine does between two suspensions.  No section    *)
(* under the lock of MonitorState awaits, so the lock is always free and   *)
(* taking it suspends nobody: a poll of a guard and what it decides are    *)
(* one step.  A deadline may pass at any poll: nothing bounds how long a   *)
(* cycle of a strategy takes.                                              *)
(***************************************************************************)
EXTENDS Integers

CONSTANTS
    Instances,      \* market maker instances
    NoInstance,
    Limits,         \* values of the settings that are edited in one step
    LiveLimits,     \* those with allow_live_trading or another live strategy
    Requests,       \* concurrent starts of a live instance
    Guards,         \* concurrent guards of started instances (bound)
    HistoryLimit,   \* history_limit
    MaxVersions,    \* bound on versions
    MaxEdits,       \* bound on the operators' edits
    MaxRestarts,    \* bound on restarts
    MaxFaults       \* bound on failed writes

ASSUME ConfigAssumption ==
    /\ NoInstance \notin Instances
    /\ Limits # {} /\ LiveLimits \subseteq Limits
    /\ HistoryLimit \in Nat \ {0}
    /\ MaxVersions \in Nat \ {0}
    /\ MaxEdits \in Nat /\ MaxRestarts \in Nat /\ MaxFaults \in Nat

Live == {"sound", "faulty"}
Settings == {"off"} \cup Live
Makers == [Instances -> Settings]
Config == [makers: Makers, limits: Limits]

Ids == 1..MaxVersions
Row == [kept: {TRUE}, config: Config, good: BOOLEAN]
NoRow == [kept |-> FALSE, good |-> FALSE]

VARIABLES
    up,         \* the process runs and leads
    memory,     \* the configuration in force
    saved,      \* the runtime store
    history,    \* config_versions, by id
    latest,     \* the highest id
    storeError, \* _runtime_store_error is set
    running,    \* the program switch
    cycle,      \* the cycle of each instance's loop
    healthy,    \* the instances whose last report is "running"
    request,    \* handlers of api_market_maker that wait for the cleanup
    guard,      \* _watch_started_config
    startup,    \* _watch_startup_configuration
    edits, restarts, faults

stores == <<saved, history, latest, storeError, faults>>
loops == <<running, cycle, healthy>>
vars == <<up, memory, stores, loops, request, guard, startup, edits, restarts>>

Request == [pc: {"idle", "cleanup"}, makers: Makers, instance: Instances \cup {NoInstance},
            baseline: 0..MaxVersions]
Guard == [pc: {"off", "due", "watching"}, expected: Config, target: 0..MaxVersions,
          instance: Instances \cup {NoInstance}, fresh: SUBSET Instances, polls: 0..1]

AllOff == [i \in Instances |-> "off"]
BaseConfig == [makers |-> AllOff, limits |-> CHOOSE l \in Limits : TRUE]
IdleRequest == [pc |-> "idle", makers |-> AllOff, instance |-> NoInstance, baseline |-> 0]
NoGuard == [pc |-> "off", expected |-> BaseConfig, target |-> 0, instance |-> NoInstance,
            fresh |-> {}, polls |-> 0]

TypeOK ==
    /\ up \in BOOLEAN
    /\ memory \in Config /\ saved \in Config
    /\ history \in [Ids -> Row \cup {NoRow}]
    /\ latest \in 0..MaxVersions
    /\ storeError \in BOOLEAN
    /\ running \in BOOLEAN
    /\ cycle \in [Instances -> {"none", "works", "fails"}]
    /\ healthy \subseteq Instances
    /\ request \in [Requests -> Request]
    /\ guard \in [Guards -> Guard]
    /\ startup \in Guard
    /\ edits \in 0..MaxEdits /\ restarts \in 0..MaxRestarts /\ faults \in 0..MaxFaults

(* After the first start of the service, whose version is known-good.       *)
Init ==
    /\ up = TRUE
    /\ memory = BaseConfig /\ saved = BaseConfig
    /\ history = [v \in Ids |-> IF v = 1
                  THEN [kept |-> TRUE, config |-> BaseConfig, good |-> TRUE] ELSE NoRow]
    /\ latest = 1
    /\ storeError = FALSE
    /\ running = TRUE
    /\ cycle = [i \in Instances |-> "none"]
    /\ healthy = {}
    /\ request = [r \in Requests |-> IdleRequest]
    /\ guard = [g \in Guards |-> NoGuard]
    /\ startup = NoGuard
    /\ edits = 0 /\ restarts = 0 /\ faults = 0

-----------------------------------------------------------------------------
(* The history. *)

GoodIds(rows) == {v \in Ids : rows[v].kept /\ rows[v].good}
Newest(S) == CHOOSE v \in S : \A w \in S : w <= v

(* Mutant: pruning keeps the newest versions only. *)
PrunedByAge(rows, last) == [v \in Ids |-> IF v + HistoryLimit > last THEN rows[v] ELSE NoRow]

(* The DELETE of record: the newest versions and the newest good one stay.  *)
Pruned(rows, last) ==
    [v \in Ids |-> IF \/ v + HistoryLimit > last
                      \/ v \in GoodIds(rows) /\ v = Newest(GoodIds(rows))
                   THEN rows[v] ELSE NoRow]

(* record: the newest version again, or a new one.                          *)
Record(config, good) ==
    IF latest # 0 /\ history[latest].config = config
    THEN /\ history' = [history EXCEPT ![latest] = [kept |-> TRUE, config |-> config,
                                                    good |-> @.good \/ good]]
         /\ UNCHANGED latest
    ELSE /\ latest < MaxVersions
         /\ latest' = latest + 1
         /\ history' = Pruned([history EXCEPT ![latest + 1] =
                                  [kept |-> TRUE, config |-> config, good |-> good]],
                              latest + 1)

(* Failing to write the store or the history is reported in the status, and *)
(* the program goes on with what it has in memory.  A failure followed by   *)
(* Kill is also a crash between the writes.                                 *)
WriteFails(config) ==
    /\ faults < MaxFaults
    /\ faults' = faults + 1
    /\ storeError' = TRUE
    /\ saved' \in {saved, config}
    /\ UNCHANGED <<history, latest>>

(* _save_runtime_store_unlocked *)
Save(config, good) ==
    /\ memory' = config
    /\ \/ /\ saved' = config
          /\ Record(config, good)
          /\ storeError' = FALSE
          /\ UNCHANGED faults
       \/ WriteFails(config)

MarkKnownGood ==
    /\ Record(memory, TRUE)
    /\ UNCHANGED <<memory, saved, storeError, faults>>

(* target_live_enabled: the risk settings allow it, or a strategy is live.   *)
LiveEnabled(config) ==
    \/ config.limits \in LiveLimits
    \/ \E i \in Instances : config.makers[i] \in Live

(* rollback_config_version refuses a version that has gone, and an          *)
(* unverified one that may trade.                                           *)
Restorable(v) == history[v].kept /\ (LiveEnabled(history[v].config) => history[v].good)

Rollback(v) == Save(history[v].config, history[v].good)

-----------------------------------------------------------------------------
(* The operators. *)

Editing == up /\ edits < MaxEdits /\ edits' = edits + 1

Edited(i, setting) == [memory.makers EXCEPT ![i] = setting]

(* api_market_maker: stopping an instance is written at once.               *)
StopInstance(i) ==
    /\ Editing
    /\ memory.makers[i] \in Live
    /\ Save([memory EXCEPT !.makers = Edited(i, "off")], FALSE)
    /\ UNCHANGED <<up, loops, request, guard, startup, restarts>>

(* Starting or changing a live one consumes the preflight token of exactly  *)
(* this candidate, notes the version in force, and awaits the cleanup of    *)
(* the market.  The list it is going to write is made before.               *)
StartInstance(r, i, setting) ==
    /\ Editing
    /\ request[r].pc = "idle"
    /\ setting \in Live /\ memory.makers[i] # setting
    /\ request' = [request EXCEPT ![r] = [pc |-> "cleanup", makers |-> Edited(i, setting),
                                          instance |-> i, baseline |-> latest]]
    /\ UNCHANGED <<up, memory, stores, loops, guard, startup, restarts>>

CleanupFails(r) ==
    /\ request[r].pc = "cleanup"
    /\ request' = [request EXCEPT ![r] = IdleRequest]
    /\ UNCHANGED <<up, memory, stores, loops, guard, startup, edits, restarts>>

(* A guard that begins; the one of the startup watches every instance.      *)
Watch(expected, target, instance) ==
    [pc |-> "watching", expected |-> expected, target |-> target, instance |-> instance,
     fresh |-> {}, polls |-> 0]

(* The start is guarded when it has become a new version.                   *)
Guarded(g, r) ==
    IF latest' = request[r].baseline
    THEN UNCHANGED guard
    ELSE guard' = [guard EXCEPT ![g] =
                      Watch(memory', request[r].baseline, request[r].instance)]

FinishStart(r, g) ==
    /\ request[r].pc = "cleanup"
    /\ guard[g].pc = "off"
    /\ Save([memory EXCEPT !.makers = request[r].makers], FALSE)
    /\ Guarded(g, r)
    /\ request' = [request EXCEPT ![r] = IdleRequest]
    /\ UNCHANGED <<up, loops, startup, edits, restarts>>

(* An edit that reads and writes in one step, such as set_risk_overrides.   *)
ChangeLimits(l) ==
    /\ Editing
    /\ l # memory.limits
    /\ Save([memory EXCEPT !.limits = l], FALSE)
    /\ UNCHANGED <<up, loops, request, guard, startup, restarts>>

(* api_config_versions_post, from a page that shows the current hash.       *)
RollbackByOperator(v) ==
    /\ Editing
    /\ Restorable(v)
    /\ Rollback(v)
    /\ UNCHANGED <<up, loops, request, guard, startup, restarts>>

SetRunning ==
    /\ Editing
    /\ running' = ~running
    /\ Save(memory, FALSE)
    /\ UNCHANGED <<up, cycle, healthy, request, guard, startup, restarts>>

-----------------------------------------------------------------------------
(* The loop of an instance reads the configuration, works, and reports      *)
(* "running", or another status: disabled, paused, starting, blocked, error. *)
BeginCycle(i) ==
    /\ up
    /\ cycle[i] = "none"
    /\ cycle' = [cycle EXCEPT ![i] =
                    IF running /\ memory.makers[i] = "sound" THEN "works" ELSE "fails"]
    /\ UNCHANGED <<up, memory, stores, running, healthy, request, guard, startup>>
    /\ UNCHANGED <<edits, restarts>>

Seen(watch, i) ==
    IF watch.pc = "watching" /\ watch.instance \in {i, NoInstance}
    THEN [watch EXCEPT !.fresh = @ \cup {i}] ELSE watch

EndCycle(i) ==
    /\ cycle[i] # "none"
    /\ cycle' = [cycle EXCEPT ![i] = "none"]
    /\ healthy' = IF cycle[i] = "works" THEN healthy \cup {i} ELSE healthy \ {i}
    /\ guard' = [g \in Guards |-> Seen(guard[g], i)]
    /\ startup' = Seen(startup, i)
    /\ UNCHANGED <<up, memory, stores, running, request, edits, restarts>>

(* strategy_lifecycle: the rows whose desired_state is "running".           *)
Desired == {i \in Instances : running /\ memory.makers[i] \in Live}

-----------------------------------------------------------------------------
(* The guards. *)

(* Mutant: a guard does not ask whether the configuration is still its own. *)
NeverOverruled(watch) == FALSE

(* current_hash is not the one that the guard was given.                    *)
Overruled(watch) == memory # watch.expected

GiveUp(watch) ==
    /\ Overruled(watch)
    /\ UNCHANGED <<memory, stores>>

(* Mutant: the configuration of a stopped program is left as it is. *)
UndoWhileRunning(watch) ==
    /\ ~Overruled(watch)
    /\ IF running /\ Restorable(watch.target)
       THEN Rollback(watch.target) ELSE UNCHANGED <<memory, stores>>

Undo(watch) ==
    /\ ~Overruled(watch)
    /\ IF Restorable(watch.target) THEN Rollback(watch.target) ELSE UNCHANGED <<memory, stores>>

(* The instance has reported since the guard began, and it is healthy.      *)
StartedHealthy(watch) == watch.instance \in watch.fresh \cap Desired \cap healthy

(* The poll of _watch_started_config that ends it.  The configuration is    *)
(* undone after a failure, also one that was reported before the guard      *)
(* began, and when the deadline has passed.                                 *)
GuardEnds(g) ==
    /\ guard[g].pc = "watching"
    /\ \/ GiveUp(guard[g])
       \/ ~Overruled(guard[g]) /\ StartedHealthy(guard[g]) /\ MarkKnownGood
       \/ ~StartedHealthy(guard[g]) /\ Undo(guard[g])
    /\ guard' = [guard EXCEPT ![g] = NoGuard]
    /\ UNCHANGED <<up, loops, request, startup, edits, restarts>>

(* startup_config_guard_candidate *)
StartupCandidate ==
    /\ history[latest].config = memory
    /\ ~history[latest].good
    /\ GoodIds(history) # {}

StartupBegins ==
    /\ startup.pc = "due"
    /\ startup' = IF StartupCandidate
                  THEN Watch(memory, Newest(GoodIds(history)), NoInstance)
                  ELSE NoGuard
    /\ UNCHANGED <<up, memory, stores, loops, request, guard, edits, restarts>>

(* A poll counts when the program is stopped, or when every instance that   *)
(* should run has reported since the guard began and is healthy.            *)
StartupHealthy ==
    running => Desired \subseteq startup.fresh \cap healthy

(* Mutant: the polls are counted and never compared. *)
StartupCountsOn ==
    /\ startup.pc = "watching"
    /\ ~Overruled(startup) /\ StartupHealthy
    /\ startup' = [startup EXCEPT !.polls = @ + 1]
    /\ UNCHANGED <<up, memory, stores, loops, request, guard, edits, restarts>>

StartupCounts ==
    /\ startup.pc = "watching" /\ startup.polls = 0
    /\ ~Overruled(startup) /\ StartupHealthy
    /\ startup' = [startup EXCEPT !.polls = 1]
    /\ UNCHANGED <<up, memory, stores, loops, request, guard, edits, restarts>>

(* A poll that is neither healthy nor failed: an instance has not reported  *)
(* or converged yet, or the program reports another status.                 *)
StartupStartsOver ==
    /\ startup.pc = "watching" /\ startup.polls = 1
    /\ running /\ ~Overruled(startup)
    /\ startup' = [startup EXCEPT !.polls = 0]
    /\ UNCHANGED <<up, memory, stores, loops, request, guard, edits, restarts>>

(* A failed instance or the deadline, which may follow any poll that does   *)
(* not end the guard, leads to the rollback.                                *)
StartupEnds ==
    /\ startup.pc = "watching"
    /\ \/ GiveUp(startup)
       \/ ~Overruled(startup) /\ startup.polls = 1 /\ StartupHealthy /\ MarkKnownGood
       \/ Undo(startup)
    /\ startup' = NoGuard
    /\ UNCHANGED <<up, loops, request, guard, edits, restarts>>

-----------------------------------------------------------------------------
Kill ==
    /\ up /\ restarts < MaxRestarts
    /\ restarts' = restarts + 1
    /\ up' = FALSE
    /\ cycle' = [i \in Instances |-> "none"]
    /\ healthy' = {}
    /\ request' = [r \in Requests |-> IdleRequest]
    /\ guard' = [g \in Guards |-> NoGuard]
    /\ startup' = NoGuard
    /\ UNCHANGED <<memory, stores, running, edits>>

(* Mutant: a restart does not compare the store with the history. *)
StartUnrecorded ==
    /\ ~up
    /\ up' = TRUE
    /\ memory' = saved
    /\ storeError' = FALSE
    /\ startup' = [NoGuard EXCEPT !.pc = "due"]
    /\ UNCHANGED <<saved, history, latest, faults, loops, request, guard, edits, restarts>>

(* The constructor loads the store and records what it has loaded; the      *)
(* supervisor starts the guard.                                             *)
Start ==
    /\ ~up
    /\ up' = TRUE
    /\ memory' = saved
    /\ \/ Record(saved, FALSE) /\ storeError' = FALSE /\ UNCHANGED <<saved, faults>>
       \/ WriteFails(saved)
    /\ startup' = [NoGuard EXCEPT !.pc = "due"]
    /\ UNCHANGED <<loops, request, guard, edits, restarts>>

Operators ==
    \/ \E i \in Instances : StopInstance(i)
    \/ \E r \in Requests, i \in Instances, s \in Settings : StartInstance(r, i, s)
    \/ \E l \in Limits : ChangeLimits(l)
    \/ \E v \in Ids : RollbackByOperator(v)
    \/ SetRunning

Next ==
    \/ Operators
    \/ \E r \in Requests : CleanupFails(r) \/ \E g \in Guards : FinishStart(r, g)
    \/ \E i \in Instances : BeginCycle(i) \/ EndCycle(i)
    \/ \E g \in Guards : GuardEnds(g)
    \/ StartupBegins \/ StartupCounts \/ StartupStartsOver \/ StartupEnds
    \/ Kill \/ Start

Spec == Init /\ [][Next]_vars

(* The guards poll until a deadline, and systemd restarts the process.      *)
FairSpec ==
    /\ Spec
    /\ WF_vars(Start) /\ WF_vars(StartupBegins) /\ WF_vars(StartupEnds)
    /\ \A g \in Guards : WF_vars(GuardEnds(g))

-----------------------------------------------------------------------------
(* While the status shows no storage error, the three copies agree: what is *)
(* in force is what a restart loads and the newest version of the history,  *)
(* whose id and hash the guards and the operators' rollback work with       *)
(* ("Every durable web configuration change is versioned", README.md:628).  *)
CurrentIsRecorded ==
    up /\ ~storeError => saved = memory /\ history[latest].kept /\ history[latest].config = memory

(* However the history is pruned, a version that was once verified is left  *)
(* to go back to.                                                           *)
AlwaysRestorable == GoodIds(history) # {}

(* A guard acts on the configuration it was given only: what an operator    *)
(* has saved meanwhile is neither undone nor marked known-good by it.       *)
ActsOutside(watch, next) ==
    /\ watch.pc = "watching" /\ next.pc = "off" /\ up'
    /\ <<memory, history>>' # <<memory, history>>
    /\ memory # watch.expected

GuardsActOnTheirOwn ==
    [][/\ \A g \in Guards : ~ActsOutside(guard[g], guard'[g])
       /\ ~ActsOutside(startup, startup')]_vars

(* A version whose start is guarded does not stay in force unverified: it   *)
(* is marked known-good or replaced, also when the process is restarted,    *)
(* unless a write fails or its guard has no version that it may restore.    *)
GuardedStartSettles ==
    \A v \in Ids :
        (/\ latest = v /\ ~history[v].good /\ ~storeError
         /\ \E g \in Guards : /\ guard[g].pc = "watching" /\ guard[g].expected = memory
                             /\ Restorable(guard[g].target))
        ~> (latest # v \/ history[v].good \/ storeError)

(* An instance goes live, or changes while it is live, only when its own    *)
(* start was confirmed with a preflight token, when a verified version is   *)
(* restored, or when the process loads the store ("starting or changing a   *)
(* live MM ... requires a short-lived preflight token", README.md:633).     *)
LiveIsConfirmed ==
    [][\A i \in Instances :
           up /\ memory'.makers[i] \in Live /\ memory'.makers[i] # memory.makers[i] =>
               \/ \E r \in Requests : /\ request[r].pc = "cleanup" /\ request[r].instance = i
                                      /\ request'[r].pc = "idle"
               \/ \E v \in GoodIds(history) : memory' = history[v].config]_vars
=============================================================================
