------------------------ MODULE ConfigVersionsProofs ------------------------
(***************************************************************************)
(* Proofs about ConfigVersions for every set of instances, settings,       *)
(* requests and guards, and every limit of the history.                    *)
(***************************************************************************)
EXTENDS ConfigVersions, TLAPS

USE ConfigAssumption

(* The ids grow, and the newest version is never pruned.                    *)
LatestKept ==
    /\ latest \in Ids
    /\ history[latest].kept
    /\ \A v \in Ids : history[v].kept => v <= latest

(* Pruning has a newest good version to keep.                               *)
IsNewest(v, rows) == v \in GoodIds(rows) /\ \A w \in GoodIds(rows) : w <= v
SomeNewest == \E v \in Ids : IsNewest(v, history)

(* The configuration and its three copies; the coroutines around them.      *)
StoresTyped ==
    /\ up \in BOOLEAN
    /\ memory \in Config /\ saved \in Config
    /\ history \in [Ids -> Row \cup {NoRow}]
    /\ latest \in 0..MaxVersions
    /\ storeError \in BOOLEAN
    /\ faults \in 0..MaxFaults

StoresKept == StoresTyped /\ LatestKept /\ SomeNewest /\ CurrentIsRecorded

CoroutinesTyped ==
    /\ running \in BOOLEAN
    /\ cycle \in [Instances -> {"none", "works", "fails"}]
    /\ healthy \subseteq Instances
    /\ request \in [Requests -> Request]
    /\ guard \in [Guards -> Guard]
    /\ startup \in Guard
    /\ edits \in 0..MaxEdits /\ restarts \in 0..MaxRestarts

(* Who goes back to a version has the id of one. *)
TargetsAreIds ==
    /\ \A r \in Requests : request[r].pc = "cleanup" => request[r].baseline \in Ids
    /\ \A g \in Guards : guard[g].pc = "watching" => guard[g].target \in Ids
    /\ startup.pc = "watching" => startup.target \in Ids

Coroutines == CoroutinesTyped /\ TargetsAreIds

IInv == StoresKept /\ Coroutines

-----------------------------------------------------------------------------
(* The history. *)

(* Newest finds the newest good version. *)
LEMMA NewestFinds ==
    ASSUME NEW rows, NEW v, IsNewest(v, rows), GoodIds(rows) \subseteq Int
    PROVE  Newest(GoodIds(rows)) = v
<1>1. \A w \in GoodIds(rows) : w = v \/ ~(\A u \in GoodIds(rows) : u <= w)
    BY DEF IsNewest
<1>2. \E w \in GoodIds(rows) : \A u \in GoodIds(rows) : u <= w
    BY DEF IsNewest
<1>3. Newest(GoodIds(rows)) \in GoodIds(rows)
      /\ \A u \in GoodIds(rows) : u <= Newest(GoodIds(rows))
    BY <1>2 DEF Newest
<1>4. QED
    BY <1>1, <1>3

(* Pruning keeps the newest version and the newest good one, and every row  *)
(* that it keeps is unchanged.                                              *)
LEMMA PrunedKeeps ==
    ASSUME NEW rows \in [Ids -> Row \cup {NoRow}], NEW last \in Ids, NEW v \in Ids,
           IsNewest(v, rows)
    PROVE  /\ Pruned(rows, last) \in [Ids -> Row \cup {NoRow}]
           /\ Pruned(rows, last)[last] = rows[last]
           /\ IsNewest(v, Pruned(rows, last))
           /\ \A w \in Ids : Pruned(rows, last)[w].kept => rows[w].kept
<1> DEFINE pruned == Pruned(rows, last)
<1>1. GoodIds(rows) \subseteq Ids /\ Ids \subseteq Int
    BY DEF GoodIds, Ids
<1>2. Newest(GoodIds(rows)) = v
    BY <1>1, NewestFinds
<1>3. \A w \in Ids : pruned[w] = IF w + HistoryLimit > last \/ (w \in GoodIds(rows) /\ w = v)
                                 THEN rows[w] ELSE NoRow
    BY <1>2 DEF Pruned
<1>4. pruned \in [Ids -> Row \cup {NoRow}]
    BY <1>3 DEF Pruned
<1>5. pruned[last] = rows[last]
  <2>1. last + HistoryLimit > last
      BY <1>1
  <2>2. QED
      BY <1>3, <2>1
<1>6. pruned[v] = rows[v]
    BY <1>3 DEF IsNewest
<1>7. \A w \in Ids : pruned[w] = rows[w] \/ pruned[w] = NoRow
    BY <1>3
<1>8. NoRow.kept = FALSE
    BY DEF NoRow
<1>9. \A w \in Ids : pruned[w].kept => rows[w].kept
    BY <1>7, <1>8
<1>10. GoodIds(pruned) \subseteq GoodIds(rows)
    BY <1>7, <1>8 DEF GoodIds
<1>11. IsNewest(v, pruned)
    BY <1>6, <1>10 DEF IsNewest, GoodIds
<1>12. QED
    BY <1>4, <1>5, <1>9, <1>11

(* What record leaves behind, whether or not it makes a new version.        *)
LEMMA RecordOutcome ==
    ASSUME StoresTyped, LatestKept, SomeNewest, NEW config \in Config, NEW good \in BOOLEAN,
           Record(config, good)
    PROVE  /\ history' \in [Ids -> Row \cup {NoRow}]
           /\ latest' \in 0..MaxVersions
           /\ LatestKept'
           /\ SomeNewest'
           /\ history'[latest'].config = config
<1> USE DEF Ids
<1>1. PICK v \in Ids : IsNewest(v, history)
    BY DEF SomeNewest
<1>2. CASE latest # 0 /\ history[latest].config = config
  <2>1. /\ history' = [history EXCEPT ![latest] = [kept |-> TRUE, config |-> config,
                                                   good |-> @.good \/ good]]
        /\ latest' = latest
      BY <1>2 DEF Record
  <2>2. history[latest] \in Row
    <3>1. history[latest] \in Row \cup {NoRow} /\ history[latest].kept
        BY DEF StoresTyped, LatestKept
    <3>2. history[latest] # NoRow
        BY <3>1 DEF NoRow
    <3>3. QED
        BY <3>1, <3>2
  <2>3. history[latest].good \in BOOLEAN
      BY <2>2 DEF Row
  <2>4. /\ history'[latest] = [kept |-> TRUE, config |-> config,
                               good |-> history[latest].good \/ good]
        /\ \A w \in Ids \ {latest} : history'[w] = history[w]
      BY <2>1 DEF StoresTyped, LatestKept
  <2>5. history'[latest] \in Row
      BY <2>3, <2>4 DEF Row
  <2>6. history' \in [Ids -> Row \cup {NoRow}]
      BY <2>1, <2>4, <2>5 DEF StoresTyped, LatestKept
  <2>7. LatestKept'
      BY <2>1, <2>4 DEF LatestKept
  <2>8. SomeNewest'
    <3>1. CASE history[latest].good \/ good
      <4>1. latest \in GoodIds(history')
        <5>1. history'[latest].kept /\ history'[latest].good
          <6>1. history'[latest].kept = TRUE
              BY <2>4
          <6>2. history'[latest].good = (history[latest].good \/ good)
              BY <2>4
          <6>3. QED
              BY <3>1, <6>1, <6>2, Zenon
        <5>2. QED
            BY <5>1 DEF GoodIds, LatestKept
      <4>2. IsNewest(latest, history')
          BY <2>1, <2>7, <4>1 DEF IsNewest, GoodIds, LatestKept
      <4>3. QED
          BY <4>2 DEF SomeNewest, LatestKept
    <3>2. CASE ~(history[latest].good \/ good)
      <4>1. GoodIds(history') = GoodIds(history)
          BY <2>4, <3>2 DEF GoodIds
      <4>2. QED
          BY <1>1, <4>1 DEF SomeNewest, IsNewest
    <3>3. QED
        BY <3>1, <3>2
  <2>9. QED
      BY <2>1, <2>4, <2>6, <2>7, <2>8 DEF StoresTyped
<1>3. CASE ~(latest # 0 /\ history[latest].config = config)
  <2> DEFINE row == [kept |-> TRUE, config |-> config, good |-> good]
             rows == [history EXCEPT ![latest + 1] = row]
  <2>1. latest < MaxVersions /\ latest' = latest + 1 /\ history' = Pruned(rows, latest + 1)
      BY <1>3 DEF Record
  <2>2. latest + 1 \in Ids
      BY <2>1 DEF LatestKept
  <2>3. row \in Row
      BY DEF Row
  <2>4. rows \in [Ids -> Row \cup {NoRow}]
      BY <2>2, <2>3 DEF StoresTyped
  <2>5. rows[latest + 1] = row /\ \A w \in Ids \ {latest + 1} : rows[w] = history[w]
      BY <2>2 DEF StoresTyped
  <2>6. \E w \in Ids : IsNewest(w, rows)
    <3>1. \A w \in GoodIds(rows) : w = latest + 1 \/ w \in GoodIds(history)
        BY <2>5 DEF GoodIds
    <3>2. \A w \in GoodIds(history) : w <= latest /\ w \in Ids
        BY DEF GoodIds, LatestKept
    <3>3. CASE good
      <4>1. IsNewest(latest + 1, rows)
          BY <2>2, <2>5, <3>1, <3>2, <3>3 DEF IsNewest, GoodIds, LatestKept
      <4>2. QED
          BY <2>2, <4>1
    <3>4. CASE ~good
      <4>1. latest + 1 \notin GoodIds(rows)
          BY <2>5, <3>4 DEF GoodIds
      <4>2. v \in GoodIds(rows)
        <5>1. v # latest + 1
            BY <1>1, <3>2 DEF IsNewest, LatestKept
        <5>2. QED
            BY <1>1, <2>5, <5>1 DEF IsNewest, GoodIds
      <4>3. IsNewest(v, rows)
          BY <1>1, <3>1, <4>1, <4>2 DEF IsNewest
      <4>4. QED
          BY <4>3
    <3>5. QED
        BY <3>3, <3>4
  <2>7. PICK w \in Ids : IsNewest(w, rows)
      BY <2>6
  <2>8. /\ history' \in [Ids -> Row \cup {NoRow}]
        /\ history'[latest + 1] = row
        /\ IsNewest(w, history')
        /\ \A u \in Ids : history'[u].kept => rows[u].kept
      BY <2>1, <2>2, <2>4, <2>5, <2>7, PrunedKeeps
  <2>9. LatestKept'
    <3>1. \A u \in Ids : history'[u].kept => u <= latest + 1
        BY <2>5, <2>8 DEF LatestKept
    <3>2. history'[latest + 1].kept
        BY <2>8
    <3>3. QED
        BY <2>1, <2>2, <3>1, <3>2 DEF LatestKept
  <2>10. SomeNewest'
      BY <2>8 DEF SomeNewest
  <2>11. history'[latest + 1].config = config
      BY <2>8
  <2>12. latest' \in 0..MaxVersions
      BY <2>1, <2>2
  <2>13. QED
      BY <2>1, <2>8, <2>9, <2>10, <2>11, <2>12
<1>4. QED
    BY <1>2, <1>3

LEMMA SaveKeeps ==
    ASSUME StoresKept, NEW config \in Config, NEW good \in BOOLEAN, Save(config, good),
           UNCHANGED up
    PROVE  StoresKept'
<1>1. memory' = config
    BY DEF Save
<1>2. CASE /\ saved' = config
           /\ Record(config, good)
           /\ storeError' = FALSE
           /\ UNCHANGED faults
  <2>1. /\ history' \in [Ids -> Row \cup {NoRow}]
        /\ latest' \in 0..MaxVersions
        /\ LatestKept'
        /\ SomeNewest'
        /\ history'[latest'].config = config
      BY <1>2, RecordOutcome DEF StoresKept
  <2>2. StoresTyped'
      BY <1>1, <1>2, <2>1 DEF StoresKept, StoresTyped
  <2>3. CurrentIsRecorded'
      BY <1>1, <1>2, <2>1 DEF CurrentIsRecorded, LatestKept
  <2>4. QED
      BY <2>1, <2>2, <2>3 DEF StoresKept
<1>3. CASE WriteFails(config)
  <2>1. StoresTyped'
      BY <1>1, <1>3 DEF WriteFails, StoresKept, StoresTyped
  <2>2. LatestKept' /\ SomeNewest'
      BY <1>3 DEF WriteFails, StoresKept, LatestKept, SomeNewest
  <2>3. CurrentIsRecorded'
      BY <1>3 DEF WriteFails, CurrentIsRecorded
  <2>4. QED
      BY <2>1, <2>2, <2>3 DEF StoresKept
<1>4. QED
    BY <1>2, <1>3 DEF Save

LEMMA MarkKeeps ==
    ASSUME StoresKept, MarkKnownGood, UNCHANGED up
    PROVE  StoresKept'
<1>1. /\ Record(memory, TRUE)
      /\ UNCHANGED <<memory, saved, storeError, faults>>
    BY DEF MarkKnownGood
<1>2. /\ history' \in [Ids -> Row \cup {NoRow}]
      /\ latest' \in 0..MaxVersions
      /\ LatestKept'
      /\ SomeNewest'
      /\ history'[latest'].config = memory
    BY <1>1, RecordOutcome DEF StoresKept, StoresTyped
<1>3. StoresTyped'
    BY <1>1, <1>2 DEF StoresKept, StoresTyped
<1>4. CurrentIsRecorded'
    BY <1>1, <1>2 DEF StoresKept, CurrentIsRecorded, LatestKept
<1>5. QED
    BY <1>2, <1>3, <1>4 DEF StoresKept

(* A version that is kept is a configuration with its mark. *)
LEMMA KeptRow ==
    ASSUME StoresTyped, NEW v, history[v].kept, v \in Ids
    PROVE  history[v].config \in Config /\ history[v].good \in BOOLEAN
<1>1. history[v] \in Row \cup {NoRow} /\ history[v].kept
    BY DEF StoresTyped
<1>2. history[v] # NoRow
    BY <1>1 DEF NoRow
<1>3. QED
    BY <1>1, <1>2 DEF Row

LEMMA RollbackKeeps ==
    ASSUME StoresKept, NEW v \in Ids, Restorable(v), Rollback(v), UNCHANGED up
    PROVE  StoresKept'
BY KeptRow, SaveKeeps DEF StoresKept, Restorable, Rollback

LEMMA StoresUnchanged ==
    ASSUME StoresKept, UNCHANGED <<up, memory, stores>>
    PROVE  StoresKept'
BY DEF StoresKept, StoresTyped, LatestKept, SomeNewest, CurrentIsRecorded, stores

-----------------------------------------------------------------------------
(* The steps. *)

LEMMA ConstantsTyped ==
    /\ AllOff \in Makers
    /\ BaseConfig \in Config
    /\ IdleRequest \in Request /\ IdleRequest.pc = "idle"
    /\ NoGuard \in Guard /\ NoGuard.pc = "off"
<1>1. AllOff \in Makers
    BY DEF AllOff, Makers, Settings
<1>2. BaseConfig \in Config
    BY <1>1 DEF BaseConfig, Config
<1>3. IdleRequest \in Request /\ IdleRequest.pc = "idle"
    BY <1>1 DEF IdleRequest, Request
<1>4. NoGuard \in Guard /\ NoGuard.pc = "off"
    BY <1>2 DEF NoGuard, Guard
<1>5. QED
    BY <1>1, <1>2, <1>3, <1>4

LEMMA CoroutinesUnchanged ==
    ASSUME Coroutines, UNCHANGED <<running, cycle, healthy, request, guard, startup, edits, restarts>>
    PROVE  Coroutines'
BY DEF Coroutines, CoroutinesTyped, TargetsAreIds

LEMMA EditedTyped ==
    ASSUME StoresTyped, NEW i \in Instances, NEW setting \in Settings
    PROVE  /\ Edited(i, setting) \in Makers
           /\ \A makers \in Makers : [memory EXCEPT !.makers = makers] \in Config
           /\ \A l \in Limits : [memory EXCEPT !.limits = l] \in Config
BY DEF StoresTyped, Edited, Makers, Config

LEMMA StopInstanceKeeps ==
    ASSUME IInv, NEW i \in Instances, StopInstance(i) PROVE IInv'
<1>1. /\ Save([memory EXCEPT !.makers = Edited(i, "off")], FALSE)
      /\ edits < MaxEdits /\ edits' = edits + 1
      /\ UNCHANGED <<up, loops, request, guard, startup, restarts>>
    BY DEF StopInstance, Editing
<1>2. [memory EXCEPT !.makers = Edited(i, "off")] \in Config
    BY EditedTyped DEF IInv, StoresKept, Settings
<1>3. StoresKept'
    BY <1>1, <1>2, SaveKeeps DEF IInv
<1>4. Coroutines'
    BY <1>1 DEF IInv, Coroutines, CoroutinesTyped, TargetsAreIds, loops
<1>5. QED
    BY <1>3, <1>4 DEF IInv

LEMMA StartInstanceKeeps ==
    ASSUME IInv, NEW r \in Requests, NEW i \in Instances, NEW s \in Settings,
           StartInstance(r, i, s)
    PROVE  IInv'
<1> DEFINE started == [pc |-> "cleanup", makers |-> Edited(i, s), instance |-> i,
                       baseline |-> latest]
<1>1. /\ request' = [request EXCEPT ![r] = started]
      /\ edits < MaxEdits /\ edits' = edits + 1
      /\ UNCHANGED <<up, memory, stores, loops, guard, startup, restarts>>
    BY DEF StartInstance, Editing
<1>2. started \in Request /\ started.baseline \in Ids
    BY EditedTyped DEF IInv, StoresKept, StoresTyped, LatestKept, Request
<1>3. StoresKept'
    BY <1>1, StoresUnchanged DEF IInv
<1>4. Coroutines'
    BY <1>1, <1>2 DEF IInv, Coroutines, CoroutinesTyped, TargetsAreIds, loops
<1>5. QED
    BY <1>3, <1>4 DEF IInv

LEMMA FinishStartKeeps ==
    ASSUME IInv, NEW r \in Requests, NEW g \in Guards, FinishStart(r, g)
    PROVE  IInv'
<1> DEFINE watch == Watch(memory', request[r].baseline, request[r].instance)
<1>1. /\ request[r].pc = "cleanup"
      /\ Save([memory EXCEPT !.makers = request[r].makers], FALSE)
      /\ guard' = guard \/ guard' = [guard EXCEPT ![g] = watch]
      /\ request' = [request EXCEPT ![r] = IdleRequest]
      /\ UNCHANGED <<up, loops, startup, edits, restarts>>
    BY DEF FinishStart, Guarded
<1>2. request[r] \in Request /\ request[r].baseline \in Ids
    BY <1>1 DEF IInv, Coroutines, CoroutinesTyped, TargetsAreIds
<1>3. [memory EXCEPT !.makers = request[r].makers] \in Config
    BY <1>2 DEF Request, IInv, StoresKept, StoresTyped, Config
<1>4. StoresKept'
    BY <1>1, <1>3, SaveKeeps DEF IInv
<1>5. watch \in Guard /\ watch.target \in Ids
    BY <1>2, <1>4 DEF StoresKept, StoresTyped, Request, Guard, Watch
<1>6. CoroutinesTyped'
    BY <1>1, <1>5, ConstantsTyped DEF IInv, Coroutines, CoroutinesTyped, loops
<1>7. TargetsAreIds'
    BY <1>1, <1>5, ConstantsTyped DEF IInv, Coroutines, CoroutinesTyped, TargetsAreIds
<1>8. QED
    BY <1>4, <1>6, <1>7 DEF IInv, Coroutines

LEMMA EditsKeep ==
    ASSUME IInv,
           \/ \E r \in Requests : CleanupFails(r)
           \/ \E l \in Limits : ChangeLimits(l)
           \/ \E v \in Ids : RollbackByOperator(v)
           \/ SetRunning
    PROVE  IInv'
<1>1. ASSUME NEW r \in Requests, CleanupFails(r) PROVE IInv'
  <2>1. StoresKept'
      BY <1>1, StoresUnchanged DEF IInv, CleanupFails
  <2>2. Coroutines'
      BY <1>1, ConstantsTyped DEF IInv, CleanupFails, Coroutines, CoroutinesTyped, TargetsAreIds,
         loops
  <2>3. QED
      BY <2>1, <2>2 DEF IInv
<1>2. ASSUME NEW l \in Limits, ChangeLimits(l) PROVE IInv'
  <2>1. [memory EXCEPT !.limits = l] \in Config
      BY DEF IInv, StoresKept, StoresTyped, Config
  <2>2. StoresKept'
      BY <1>2, <2>1, SaveKeeps DEF IInv, ChangeLimits
  <2>3. Coroutines'
      BY <1>2 DEF IInv, ChangeLimits, Editing, Coroutines, CoroutinesTyped, TargetsAreIds, loops
  <2>4. QED
      BY <2>2, <2>3 DEF IInv
<1>3. ASSUME NEW v \in Ids, RollbackByOperator(v) PROVE IInv'
  <2>1. StoresKept'
      BY <1>3, RollbackKeeps DEF IInv, RollbackByOperator
  <2>2. Coroutines'
      BY <1>3 DEF IInv, RollbackByOperator, Editing, Coroutines, CoroutinesTyped, TargetsAreIds,
         loops
  <2>3. QED
      BY <2>1, <2>2 DEF IInv
<1>4. ASSUME SetRunning PROVE IInv'
  <2>1. StoresKept'
      BY <1>4, SaveKeeps DEF IInv, StoresKept, StoresTyped, SetRunning
  <2>2. Coroutines'
      BY <1>4 DEF IInv, SetRunning, Editing, Coroutines, CoroutinesTyped, TargetsAreIds
  <2>3. QED
      BY <2>1, <2>2 DEF IInv
<1>5. QED
    BY <1>1, <1>2, <1>3, <1>4

LEMMA SeenTyped ==
    ASSUME NEW watch \in Guard, NEW i \in Instances
    PROVE  /\ Seen(watch, i) \in Guard
           /\ Seen(watch, i).pc = watch.pc /\ Seen(watch, i).target = watch.target
BY DEF Seen, Guard

LEMMA LoopsKeep ==
    ASSUME IInv, NEW i \in Instances, BeginCycle(i) \/ EndCycle(i)
    PROVE  IInv'
<1>1. StoresKept'
    BY StoresUnchanged DEF IInv, BeginCycle, EndCycle
<1>2. CASE BeginCycle(i)
    BY <1>1, <1>2 DEF IInv, BeginCycle, Coroutines, CoroutinesTyped, TargetsAreIds
<1>3. CASE EndCycle(i)
  <2>1. CoroutinesTyped'
      BY <1>3, SeenTyped DEF IInv, EndCycle, Coroutines, CoroutinesTyped
  <2>2. TargetsAreIds'
    <3>1. ASSUME NEW g \in Guards, guard'[g].pc = "watching" PROVE guard'[g].target \in Ids
      <4>1. guard'[g] = Seen(guard[g], i) /\ guard[g] \in Guard
          BY <1>3 DEF EndCycle, IInv, Coroutines, CoroutinesTyped
      <4>2. QED
          BY <3>1, <4>1, SeenTyped DEF IInv, Coroutines, TargetsAreIds
    <3>2. ASSUME startup'.pc = "watching" PROVE startup'.target \in Ids
        BY <1>3, <3>2, SeenTyped DEF EndCycle, IInv, Coroutines, CoroutinesTyped, TargetsAreIds
    <3>3. request' = request
        BY <1>3 DEF EndCycle
    <3>4. QED
        BY <3>1, <3>2, <3>3 DEF IInv, Coroutines, TargetsAreIds
  <2>3. QED
      BY <1>1, <2>1, <2>2 DEF IInv, Coroutines
<1>4. QED
    BY <1>2, <1>3

(* What a guard may do at its end. *)
LEMMA EndKeeps ==
    ASSUME StoresKept, NEW watch, watch.target \in Ids,
           GiveUp(watch) \/ MarkKnownGood \/ Undo(watch), UNCHANGED up
    PROVE  StoresKept'
<1>1. CASE GiveUp(watch)
    BY <1>1, StoresUnchanged DEF GiveUp
<1>2. CASE MarkKnownGood
    BY <1>2, MarkKeeps
<1>3. CASE Undo(watch)
  <2>1. CASE Restorable(watch.target)
      BY <1>3, <2>1, RollbackKeeps DEF Undo
  <2>2. CASE ~Restorable(watch.target)
      BY <1>3, <2>2, StoresUnchanged DEF Undo
  <2>3. QED
      BY <2>1, <2>2
<1>4. QED
    BY <1>1, <1>2, <1>3

LEMMA GuardEndsKeeps ==
    ASSUME IInv, NEW g \in Guards, GuardEnds(g) PROVE IInv'
<1>1. /\ guard[g].pc = "watching"
      /\ GiveUp(guard[g]) \/ MarkKnownGood \/ Undo(guard[g])
      /\ guard' = [guard EXCEPT ![g] = NoGuard]
      /\ UNCHANGED <<up, loops, request, startup, edits, restarts>>
    BY DEF GuardEnds
<1>2. guard[g].target \in Ids
    BY <1>1 DEF IInv, Coroutines, TargetsAreIds
<1>3. StoresKept'
    BY <1>1, <1>2, EndKeeps DEF IInv
<1>4. Coroutines'
    BY <1>1, ConstantsTyped DEF IInv, Coroutines, CoroutinesTyped, TargetsAreIds, loops
<1>5. QED
    BY <1>3, <1>4 DEF IInv

LEMMA StartupKeeps ==
    ASSUME IInv, StartupBegins \/ StartupCounts \/ StartupStartsOver \/ StartupEnds
    PROVE  IInv'
<1>1. CASE StartupBegins
  <2> DEFINE watch == Watch(memory, Newest(GoodIds(history)), NoInstance)
  <2>1. PICK v \in Ids : IsNewest(v, history)
      BY DEF IInv, StoresKept, SomeNewest
  <2>2. Newest(GoodIds(history)) = v
      BY <2>1, NewestFinds DEF GoodIds, Ids
  <2>3. watch \in Guard /\ watch.target \in Ids
    <3>1. memory \in Config /\ v \in Ids /\ v \in 0..MaxVersions
        BY DEF IInv, StoresKept, StoresTyped, Ids
    <3>2. QED
        BY <2>2, <3>1 DEF Guard, Watch
  <2>4. startup' \in {watch, NoGuard}
      BY <1>1 DEF StartupBegins
  <2>5. StoresKept'
      BY <1>1, StoresUnchanged DEF IInv, StartupBegins
  <2>6. Coroutines'
      BY <1>1, <2>3, <2>4, ConstantsTyped DEF IInv, StartupBegins, Coroutines, CoroutinesTyped,
         TargetsAreIds, loops
  <2>7. QED
      BY <2>5, <2>6 DEF IInv
<1>2. CASE StartupCounts \/ StartupStartsOver
  <2>1. StoresKept'
      BY <1>2, StoresUnchanged DEF IInv, StartupCounts, StartupStartsOver
  <2>2. startup' \in Guard /\ startup'.pc = startup.pc /\ startup'.target = startup.target
      BY <1>2 DEF IInv, Coroutines, CoroutinesTyped, StartupCounts, StartupStartsOver, Guard
  <2>3. Coroutines'
      BY <1>2, <2>2 DEF IInv, StartupCounts, StartupStartsOver, Coroutines, CoroutinesTyped,
         TargetsAreIds, loops
  <2>4. QED
      BY <2>1, <2>3 DEF IInv
<1>3. CASE StartupEnds
  <2>1. /\ startup.pc = "watching"
        /\ GiveUp(startup) \/ MarkKnownGood \/ Undo(startup)
        /\ startup' = NoGuard
        /\ UNCHANGED <<up, loops, request, guard, edits, restarts>>
      BY <1>3 DEF StartupEnds
  <2>2. StoresKept'
      BY <2>1, EndKeeps DEF IInv, Coroutines, TargetsAreIds
  <2>3. Coroutines'
      BY <2>1, ConstantsTyped DEF IInv, Coroutines, CoroutinesTyped, TargetsAreIds, loops
  <2>4. QED
      BY <2>2, <2>3 DEF IInv
<1>4. QED
    BY <1>1, <1>2, <1>3

LEMMA KillKeeps == ASSUME IInv, Kill PROVE IInv'
<1>1. StoresKept'
    BY DEF IInv, Kill, StoresKept, StoresTyped, LatestKept, SomeNewest, CurrentIsRecorded, stores
<1>2. CoroutinesTyped'
    BY ConstantsTyped DEF IInv, Kill, Coroutines, CoroutinesTyped
<1>3. TargetsAreIds'
    BY ConstantsTyped DEF Kill, TargetsAreIds
<1>4. QED
    BY <1>1, <1>2, <1>3 DEF IInv, Coroutines

LEMMA StartKeeps == ASSUME IInv, Start PROVE IInv'
<1>1. memory' = saved /\ up' = TRUE /\ saved \in Config
    BY DEF Start, IInv, StoresKept, StoresTyped
<1>2. ASSUME Record(saved, FALSE), storeError' = FALSE, UNCHANGED <<saved, faults>>
      PROVE  StoresKept'
  <2>1. /\ history' \in [Ids -> Row \cup {NoRow}]
        /\ latest' \in 0..MaxVersions
        /\ LatestKept'
        /\ SomeNewest'
        /\ history'[latest'].config = saved
      BY <1>1, <1>2, RecordOutcome DEF IInv, StoresKept
  <2>2. StoresTyped'
      BY <1>1, <1>2, <2>1 DEF IInv, StoresKept, StoresTyped
  <2>3. CurrentIsRecorded'
      BY <1>1, <1>2, <2>1 DEF CurrentIsRecorded, LatestKept
  <2>4. QED
      BY <2>1, <2>2, <2>3 DEF StoresKept
<1>3. ASSUME WriteFails(saved) PROVE StoresKept'
  <2>1. StoresTyped'
      BY <1>1, <1>3 DEF WriteFails, IInv, StoresKept, StoresTyped
  <2>2. LatestKept' /\ SomeNewest'
      BY <1>3 DEF WriteFails, IInv, StoresKept, LatestKept, SomeNewest
  <2>3. CurrentIsRecorded'
      BY <1>3 DEF WriteFails, CurrentIsRecorded
  <2>4. QED
      BY <2>1, <2>2, <2>3 DEF StoresKept
<1>4. StoresKept'
    BY <1>2, <1>3 DEF Start
<1>5. [NoGuard EXCEPT !.pc = "due"] \in Guard /\ [NoGuard EXCEPT !.pc = "due"].pc = "due"
    BY ConstantsTyped DEF Guard
<1>6. Coroutines'
    BY <1>5 DEF Start, IInv, Coroutines, CoroutinesTyped, TargetsAreIds, loops
<1>7. QED
    BY <1>4, <1>6 DEF IInv

-----------------------------------------------------------------------------
LEMMA IInvInit == Init => IInv
<1> SUFFICES ASSUME Init PROVE IInv
    OBVIOUS
<1> DEFINE first == [kept |-> TRUE, config |-> BaseConfig, good |-> TRUE]
<1>1. /\ 1 \in Ids /\ latest = 1
      /\ history[1] = first
      /\ \A v \in Ids \ {1} : history[v] = NoRow
    BY DEF Init, Ids
<1>2. first \in Row
    BY ConstantsTyped DEF Row
<1>3. NoRow.kept = FALSE
    BY DEF NoRow
<1>4. StoresTyped
  <2>1. history \in [Ids -> Row \cup {NoRow}]
      BY <1>2 DEF Init
  <2>2. memory \in Config /\ saved \in Config
      BY ConstantsTyped DEF Init
  <2>3. /\ up \in BOOLEAN /\ storeError \in BOOLEAN
        /\ latest \in 0..MaxVersions /\ faults \in 0..MaxFaults
    <3>1. /\ up = TRUE /\ storeError = FALSE
          /\ latest = 1 /\ faults = 0
        BY DEF Init
    <3>2. 1 \in 0..MaxVersions /\ 0 \in 0..MaxFaults
        BY ConfigAssumption
    <3>3. QED
        BY <3>1, <3>2
  <2>4. QED
      BY <2>1, <2>2, <2>3 DEF StoresTyped
<1>5. history[1].kept = TRUE /\ history[1].good = TRUE
    BY <1>1
<1>6. LatestKept
    BY <1>1, <1>3, <1>5 DEF LatestKept, Ids
<1>7. IsNewest(1, history)
    BY <1>1, <1>3, <1>5 DEF IsNewest, GoodIds, Ids
<1>8. CurrentIsRecorded
    BY <1>1, <1>5 DEF Init, CurrentIsRecorded
<1>9. Coroutines
    BY ConstantsTyped DEF Init, Coroutines, CoroutinesTyped, TargetsAreIds
<1>10. QED
    BY <1>1, <1>4, <1>6, <1>7, <1>8, <1>9 DEF IInv, StoresKept, SomeNewest

LEMMA IInvNext == IInv /\ [Next]_vars => IInv'
<1> SUFFICES ASSUME IInv, [Next]_vars PROVE IInv'
    OBVIOUS
<1>1. CASE UNCHANGED vars
    BY <1>1, StoresUnchanged, CoroutinesUnchanged DEF IInv, vars, loops
<1>2. CASE Operators
    BY <1>2, StopInstanceKeeps, StartInstanceKeeps, EditsKeep DEF Operators
<1>3. CASE \E r \in Requests : CleanupFails(r) \/ \E g \in Guards : FinishStart(r, g)
    BY <1>3, EditsKeep, FinishStartKeeps
<1>4. CASE \E i \in Instances : BeginCycle(i) \/ EndCycle(i)
    BY <1>4, LoopsKeep
<1>5. CASE \E g \in Guards : GuardEnds(g)
    BY <1>5, GuardEndsKeeps
<1>6. CASE StartupBegins \/ StartupCounts \/ StartupStartsOver \/ StartupEnds
    BY <1>6, StartupKeeps
<1>7. CASE Kill \/ Start
    BY <1>7, KillKeeps, StartKeeps
<1>8. QED
    BY <1>1, <1>2, <1>3, <1>4, <1>5, <1>6, <1>7 DEF Next

LEMMA Invariant == Spec => []IInv
BY IInvInit, IInvNext, PTL DEF Spec

-----------------------------------------------------------------------------
(* The configuration, its copies and the coroutines keep their types.       *)
THEOREM TypeCorrect == Spec => []TypeOK
<1>1. IInv => TypeOK
    BY DEF IInv, StoresKept, StoresTyped, Coroutines, CoroutinesTyped, TypeOK
<1>2. QED
    BY <1>1, Invariant, PTL

(* Without a storage error memory, store and history agree, through edits,  *)
(* rollbacks, guards, pruning, failed writes and restarts.                  *)
THEOREM CopiesAgree == Spec => []CurrentIsRecorded
<1>1. IInv => CurrentIsRecorded
    BY DEF IInv, StoresKept
<1>2. QED
    BY <1>1, Invariant, PTL

(* Pruning always leaves a verified version.                                *)
THEOREM VerifiedVersionLeft == Spec => []AlwaysRestorable
<1>1. IInv => AlwaysRestorable
    BY DEF IInv, StoresKept, SomeNewest, IsNewest, AlwaysRestorable
<1>2. QED
    BY <1>1, Invariant, PTL

(* No guard touches a configuration that is not the one it was given.       *)
THEOREM GuardsKeepToTheirOwn == Spec => GuardsActOnTheirOwn
<1> DEFINE Inside == /\ \A g \in Guards : ~ActsOutside(guard[g], guard'[g])
                     /\ ~ActsOutside(startup, startup')
<1>1. IInv /\ [Next]_vars => [Inside]_vars
  <2> SUFFICES ASSUME IInv, Next PROVE Inside
      OBVIOUS
  <2>1. ASSUME NEW watch, NEW next, watch.pc = "watching",
               GiveUp(watch) \/ (~Overruled(watch) /\ MarkKnownGood) \/ Undo(watch)
        PROVE  ~ActsOutside(watch, next)
      BY <2>1 DEF ActsOutside, GiveUp, Overruled, Undo, stores
  <2>2. ASSUME NEW watch, NEW next, UNCHANGED <<memory, history>>
        PROVE  ~ActsOutside(watch, next)
      BY <2>2 DEF ActsOutside
  <2>3. ASSUME NEW g \in Guards PROVE ~ActsOutside(guard[g], guard'[g])
    <3> SUFFICES ASSUME guard[g].pc = "watching", guard'[g].pc = "off", up'
                 PROVE  ~ActsOutside(guard[g], guard'[g])
        BY DEF ActsOutside
    <3>1. CASE \E h \in Guards : GuardEnds(h)
      <4>1. PICK h \in Guards : GuardEnds(h)
          BY <3>1
      <4>2. h = g
          BY <4>1 DEF GuardEnds, IInv, Coroutines, CoroutinesTyped
      <4>3. GiveUp(guard[g]) \/ (~Overruled(guard[g]) /\ MarkKnownGood) \/ Undo(guard[g])
          BY <4>1, <4>2 DEF GuardEnds
      <4>4. QED
          BY <2>1, <4>3
    <3>2. CASE Operators
        BY <3>2 DEF Operators, StopInstance, StartInstance, ChangeLimits, RollbackByOperator,
           SetRunning
    <3>3. CASE \E r \in Requests : CleanupFails(r) \/ \E h \in Guards : FinishStart(r, h)
      <4>1. ASSUME NEW r \in Requests, CleanupFails(r) PROVE FALSE
          BY <4>1 DEF CleanupFails
      <4>2. ASSUME NEW r \in Requests, NEW h \in Guards, FinishStart(r, h) PROVE FALSE
          BY <4>2 DEF FinishStart, Guarded, IInv, Coroutines, CoroutinesTyped
      <4>3. QED
          BY <3>3, <4>1, <4>2
    <3>4. CASE \E i \in Instances : BeginCycle(i) \/ EndCycle(i)
        BY <3>4, <2>2 DEF BeginCycle, EndCycle, stores
    <3>5. CASE StartupBegins \/ StartupCounts \/ StartupStartsOver \/ StartupEnds
        BY <3>5 DEF StartupBegins, StartupCounts, StartupStartsOver, StartupEnds
    <3>6. CASE Kill \/ Start
        BY <3>6 DEF Kill, Start
    <3>7. QED
        BY <3>1, <3>2, <3>3, <3>4, <3>5, <3>6 DEF Next
  <2>4. ~ActsOutside(startup, startup')
    <3> SUFFICES ASSUME startup.pc = "watching", startup'.pc = "off", up'
                 PROVE  ~ActsOutside(startup, startup')
        BY DEF ActsOutside
    <3>1. CASE StartupEnds
        BY <3>1, <2>1 DEF StartupEnds
    <3>2. CASE Operators
        BY <3>2 DEF Operators, StopInstance, StartInstance, ChangeLimits, RollbackByOperator,
           SetRunning
    <3>3. CASE \E r \in Requests : CleanupFails(r) \/ \E h \in Guards : FinishStart(r, h)
        BY <3>3 DEF CleanupFails, FinishStart
    <3>4. CASE \E i \in Instances : BeginCycle(i) \/ EndCycle(i)
        BY <3>4, <2>2 DEF BeginCycle, EndCycle, stores
    <3>5. CASE \E g \in Guards : GuardEnds(g)
        BY <3>5 DEF GuardEnds
    <3>6. CASE StartupBegins \/ StartupCounts \/ StartupStartsOver
        BY <3>6, <2>2 DEF StartupBegins, StartupCounts, StartupStartsOver, stores
    <3>7. CASE Kill
        BY <3>7 DEF Kill
    <3>8. CASE Start
        BY <3>8 DEF Start, NoGuard
    <3>9. QED
        BY <3>1, <3>2, <3>3, <3>4, <3>5, <3>6, <3>7, <3>8 DEF Next
  <2>5. QED
      BY <2>3, <2>4
<1>2. QED
    BY <1>1, Invariant, PTL DEF Spec, GuardsActOnTheirOwn

(* LiveIsConfirmed has one exception: an instance that goes live without a  *)
(* confirmed start, or comes back to a live setting, does so because the    *)
(* list that the start of another instance made before its cleanup still    *)
(* had that setting.  No edit, guard, rollback or restart does it.          *)
OfStaleList(i) ==
    \E r \in Requests :
        /\ request[r].pc = "cleanup" /\ request'[r].pc = "idle"
        /\ request[r].instance # i
        /\ request[r].makers[i] = memory'.makers[i]

GoesLive(i) == up /\ memory'.makers[i] \in Live /\ memory'.makers[i] # memory.makers[i]

Confirmed(i) ==
    \E r \in Requests : /\ request[r].pc = "cleanup" /\ request[r].instance = i
                        /\ request'[r].pc = "idle"

Verified == \E v \in GoodIds(history) : memory' = history[v].config

LiveUnlessStale ==
    [][\A i \in Instances : GoesLive(i) => Confirmed(i) \/ Verified \/ OfStaleList(i)]_vars

(* What a rollback makes live was verified. *)
LEMMA RestoredIsVerified ==
    ASSUME NEW v \in Ids, Restorable(v), Rollback(v), NEW i \in Instances,
           memory'.makers[i] \in Live
    PROVE  Verified
<1>1. memory' = history[v].config
    BY DEF Rollback, Save
<1>2. QED
    BY <1>1 DEF Restorable, LiveEnabled, Verified, GoodIds

THEOREM StaleListsOnly == Spec => LiveUnlessStale
<1> DEFINE Allowed == \A i \in Instances : GoesLive(i) => Confirmed(i) \/ Verified \/ OfStaleList(i)
<1>1. IInv /\ [Next]_vars => [Allowed]_vars
  <2> SUFFICES ASSUME IInv, Next, NEW i \in Instances, GoesLive(i)
               PROVE  Confirmed(i) \/ Verified \/ OfStaleList(i)
      OBVIOUS
  <2>1. memory' # memory /\ up
      BY DEF GoesLive
  <2>2. ASSUME NEW v \in Ids, Restorable(v), Rollback(v) PROVE Verified
      BY <2>2, RestoredIsVerified DEF GoesLive
  <2>3. CASE Operators
    <3>1. CASE \E j \in Instances : StopInstance(j)
        BY <3>1 DEF StopInstance, Edited, Save, GoesLive, IInv, StoresKept, StoresTyped, Config, Makers,
           Live
    <3>2. CASE \E v \in Ids : RollbackByOperator(v)
        BY <3>2, <2>2 DEF RollbackByOperator
    <3>3. CASE (\E l \in Limits : ChangeLimits(l)) \/ SetRunning
        BY <3>3 DEF GoesLive, ChangeLimits, SetRunning, Save, IInv, StoresKept, StoresTyped, Config
    <3>4. QED
        BY <2>1, <2>3, <3>1, <3>2, <3>3 DEF Operators, StartInstance
  <2>4. CASE \E r \in Requests, g \in Guards : FinishStart(r, g)
    <3>1. PICK r \in Requests, g \in Guards : FinishStart(r, g)
        BY <2>4
    <3>2. request[r].pc = "cleanup" /\ request'[r].pc = "idle"
        BY <3>1 DEF FinishStart, IdleRequest, IInv, Coroutines, CoroutinesTyped
    <3>3. memory'.makers = request[r].makers
        BY <3>1 DEF FinishStart, Save, IInv, StoresKept, StoresTyped, Config
    <3>4. QED
        BY <3>2, <3>3 DEF Confirmed, OfStaleList
  <2>5. CASE \E g \in Guards : GuardEnds(g)
    <3>1. PICK g \in Guards : GuardEnds(g)
        BY <2>5
    <3>2. guard[g].target \in Ids
        BY <3>1 DEF GuardEnds, IInv, Coroutines, TargetsAreIds
    <3>3. QED
        BY <2>1, <2>2, <3>1, <3>2 DEF GuardEnds, GiveUp, MarkKnownGood, Undo
  <2>6. CASE StartupEnds
    <3>1. startup.target \in Ids
        BY <2>6 DEF StartupEnds, IInv, Coroutines, TargetsAreIds
    <3>2. QED
        BY <2>1, <2>2, <2>6, <3>1 DEF StartupEnds, GiveUp, MarkKnownGood, Undo
  <2>7. QED
      BY <2>1, <2>3, <2>4, <2>5, <2>6 DEF Next, CleanupFails, BeginCycle, EndCycle,
         StartupBegins, StartupCounts, StartupStartsOver, Kill, Start
<1>2. QED
    BY <1>1, Invariant, PTL DEF Spec, LiveUnlessStale
=============================================================================
