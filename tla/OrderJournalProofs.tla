------------------------- MODULE OrderJournalProofs -------------------------
(***************************************************************************)
(* Proofs about OrderJournal, for any numbers of client ids, coroutines,   *)
(* attempts and markets.                                                   *)
(***************************************************************************)
EXTENDS OrderJournal, FiniteSetTheorems, TLAPS

Closed == {"failed", "reconciled_absent"}

(* The coroutine s holds attempt call[s].attempt of c. *)
Holds(s, c) == call[s].pc \in {"pacing", "awaiting"} /\ call[s].cid = c

(* Nothing of c has left for the exchange and no coroutine holds it. *)
Untouched(c) ==
    /\ \A s \in Submitters : ~Holds(s, c)
    /\ \A q \in net : q.cid # c
    /\ \A p \in replies : p.cid # c
    /\ \A k \in Attempts : orders[c][k] = "none"

(* Rows are numbered from the first attempt; without a row there is none. *)
RowShape(c) ==
    /\ journal[c].status = "none" => Untouched(c)
    /\ journal[c].status \in Missing <=> journal[c].attempts = 0

(* All there is of an intent that was attempted once belongs to that        *)
(* attempt, which one coroutine holds, and is in one place at a time: with  *)
(* the pacer, on the wire, or at the exchange.                              *)
OneAttempt(c) ==
    /\ \A s \in Submitters : Holds(s, c) => call[s].attempt = 1
    /\ \A s, t \in Submitters : Holds(s, c) /\ Holds(t, c) => s = t
    /\ \A q \in net : q.cid = c =>
          /\ q.attempt = 1
          /\ orders[c][1] = "none"
          /\ \A p \in replies : p.cid # c
          /\ \A p \in net : p.cid = c => p = q
    /\ \A p \in replies : p.cid = c =>
          p.attempt = 1 /\ (p.kind = "refused" => orders[c][1] = "none")
    /\ \A k \in Attempts : k # 1 => orders[c][k] = "none"
    /\ \A s \in Submitters : call[s].pc = "pacing" /\ call[s].cid = c =>
          /\ \A q \in net : q.cid # c
          /\ \A p \in replies : p.cid # c
          /\ orders[c][1] = "none"

(* Where a request of a first attempt can be, by the clock. *)
OnTime(c) ==
    /\ \A s \in Submitters : call[s].pc = "pacing" /\ call[s].cid = c =>
          call[s].since <= journal[c].createdAt
    /\ \A q \in net : q.cid = c =>
          /\ now <= q.sentAt + FlightTime
          /\ \/ c \in unaccounted
             \/ q.sentAt + FlightTime + SearchTime < journal[c].createdAt + AbsentMinAge

(* A search that can be old enough to confirm absence and found no open     *)
(* order is right for good, unless the request left late.                   *)
SearchSound(c) ==
    \A r \in Recoverers :
        /\ rec[r].pc = "searching" /\ rec[r].cid = c
        /\ "open_orders" \in rec[r].sources
        /\ journal[c].createdAt + AbsentMinAge <= rec[r].since + SearchTime
        => orders[c][1] # "open" \/ c \in unaccounted

(* No order of c is live, but for what FirstAttemptAccounted excepts. *)
Accounted(c) == NoLiveOrder(c) \/ c \in unaccounted \/ WaitsTooLong(c)

Once(c) ==
    /\ OneAttempt(c)
    /\ OnTime(c)
    /\ SearchSound(c)
    /\ journal[c].rejected => Untouched(c)
    /\ journal[c].status \in Closed => Accounted(c)

PerIntent(c) == RowShape(c) /\ (journal[c].attempts = 1 => Once(c))

SearchesOnTime ==
    \A r \in Recoverers : rec[r].pc = "searching" =>
        rec[r].since <= now /\ now <= rec[r].since + SearchTime

(* A coroutine that is at work is at work on an intent. *)
Busy ==
    /\ \A s \in Submitters :
          /\ call[s].pc # "idle" => call[s].cid \in ClientIds
          /\ call[s].pc \in {"pacing", "awaiting"} => call[s].attempt \in Attempts
    /\ \A r \in Recoverers : rec[r].pc = "searching" => rec[r].cid \in ClientIds
    /\ \A x \in Cancelers : cancel[x].pc # "idle" =>
          cancel[x].cid \in ClientIds /\ cancel[x].attempt \in Attempts

(* Only orders that exist are cancelled. *)
CancelsOrders ==
    \A x \in Cancelers : cancel[x].pc # "idle" => orders[cancel[x].cid][cancel[x].attempt] # "none"

(* The inductive invariant. *)
IInv ==
    /\ TypeOK
    /\ Busy
    /\ SearchesOnTime
    /\ CancelsOrders
    /\ \A c \in ClientIds : PerIntent(c)
-----------------------------------------------------------------------------
(* The operations of the store.                                             *)

CompactedRow == [EmptyRow EXCEPT !.status = "compacted"]

(* The rows that operations build are rows. *)
LEMMA EmptyRowType == EmptyRow \in Row /\ CompactedRow \in Row /\ LegacyRejection \in Row
<1>1. 0 \in 0..MaxAttempts /\ 1 \in 0..MaxAttempts
  BY StoreAssumption
<1>2. EmptyRow \in Row
  BY <1>1 DEF EmptyRow, Row, Statuses, Missing
<1>3. CompactedRow \in Row
  BY <1>1 DEF CompactedRow, EmptyRow, Row, Statuses, Missing
<1>4. LegacyRejection \in Row
  BY <1>1 DEF LegacyRejection, EmptyRow, Row, Statuses, Pending
<1> QED BY <1>2, <1>3, <1>4

(* Every operation that updates rows in place yields a journal.             *)
LEMMA MarkSubmittedType ==
    ASSUME NEW J \in [ClientIds -> Row], NEW c \in ClientIds, NEW k \in Attempts,
           NEW recovered \in BOOLEAN, NEW t \in Nat
    PROVE  MarkSubmitted(J, c, k, recovered, t) \in [ClientIds -> Row]
<1>1. k \in 0..MaxAttempts /\ 0 \in Nat
  BY StoreAssumption DEF Attempts
<1>2. \A s \in {"submitted", "recovered"} :
        [J[c] EXCEPT !.status = s, !.orderId = k, !.rejected = FALSE,
                     !.updatedAt = t, !.retryAfter = 0] \in Row
  BY <1>1 DEF Row, Statuses, Terminal
<1> QED BY <1>2 DEF MarkSubmitted, Update

(* mark_unknown yields a journal. *)
LEMMA MarkUnknownType ==
    ASSUME NEW J \in [ClientIds -> Row], NEW c \in ClientIds, NEW t \in Nat
    PROVE  MarkUnknown(J, c, t) \in [ClientIds -> Row]
<1>1. t + RecoveryWait \in Nat
  BY StoreAssumption
<1>2. [J[c] EXCEPT !.status = "unknown", !.rejected = FALSE,
                   !.updatedAt = t, !.retryAfter = t + RecoveryWait] \in Row
  BY <1>1 DEF Row, Statuses, Pending
<1> QED BY <1>2 DEF MarkUnknown, Update

(* A row that is marked failed is a row. *)
LEMMA FailedRowType ==
    ASSUME NEW row \in Row, NEW t \in Nat
    PROVE  [row EXCEPT !.status = "failed", !.updatedAt = t, !.retryAfter = 0] \in Row
<1>1. 0 \in Nat
  OBVIOUS
<1> QED BY <1>1 DEF Row, Statuses, Terminal

(* mark_failed yields a journal. *)
LEMMA MarkFailedType ==
    ASSUME NEW J \in [ClientIds -> Row], NEW c \in ClientIds, NEW t \in Nat
    PROVE  MarkFailed(J, c, t) \in [ClientIds -> Row]
BY FailedRowType DEF MarkFailed, Update

(* The reclassification yields a journal. *)
LEMMA ReclassifyType ==
    ASSUME NEW J \in [ClientIds -> Row], NEW rows, NEW t \in Nat
    PROVE  ReclassifyConfirmedRejections(J, rows, t) \in [ClientIds -> Row]
BY FailedRowType DEF ReclassifyConfirmedRejections

(* mark_reconciled_absent yields a journal. *)
LEMMA MarkAbsentType ==
    ASSUME NEW J \in [ClientIds -> Row], NEW c \in ClientIds, NEW t \in Nat
    PROVE  MarkReconciledAbsent(J, c, t) \in [ClientIds -> Row]
<1>1. 0 \in 0..MaxAttempts /\ 0 \in Nat
  BY StoreAssumption
<1>2. [J[c] EXCEPT !.status = "reconciled_absent", !.orderId = 0,
                   !.rejected = FALSE, !.updatedAt = t, !.retryAfter = 0] \in Row
  BY <1>1 DEF Row, Statuses, Terminal
<1> QED BY <1>2 DEF MarkReconciledAbsent

(* mark_canceled_by_order_id yields a journal. *)
LEMMA MarkCanceledType ==
    ASSUME NEW J \in [ClientIds -> Row], NEW c \in ClientIds, NEW k, NEW t \in Nat
    PROVE  MarkCanceledByOrderId(J, c, k, t) \in [ClientIds -> Row]
<1>1. 0 \in Nat
  OBVIOUS
<1>2. [J[c] EXCEPT !.status = "canceled", !.updatedAt = t, !.retryAfter = 0] \in Row
  BY <1>1 DEF Row, Statuses, Terminal
<1> QED BY <1>2 DEF MarkCanceledByOrderId

(* reserve yields a row while attempts are left. *)
LEMMA ReserveType ==
    ASSUME NEW row \in Row, NEW t \in Nat, row.attempts < MaxAttempts
    PROVE  Reserve(row, t) \in Row
<1>1. /\ t + RecoveryWait \in Nat /\ 0 \in 0..MaxAttempts /\ 1 \in 0..MaxAttempts
      /\ row.attempts + 1 \in 0..MaxAttempts
  BY StoreAssumption DEF Row
<1> QED BY <1>1 DEF Reserve, EmptyRow, Row, Statuses, Pending

(* compact removes terminal rows and leaves every other row as it is.       *)
LEMMA CompactionEffect ==
    ASSUME NEW J \in [ClientIds -> Row], NEW t \in Nat, NEW K \in Compactions(J, t)
    PROVE  /\ K \in [ClientIds -> Row]
           /\ \A c \in ClientIds : \/ K[c] = J[c]
                                   \/ J[c].status \in Terminal /\ K[c] = CompactedRow
<1>1. PICK D \in Overflows(J, TerminalRows(J) \ Expired(J, t)) :
          K = Remove(J, Expired(J, t) \cup D)
  BY DEF Compactions
<1>2. Expired(J, t) \cup D \subseteq TerminalRows(J)
  BY DEF Overflows, Expired
<1>3. K = [c \in ClientIds |-> IF c \in Expired(J, t) \cup D THEN CompactedRow ELSE J[c]]
  BY <1>1 DEF Remove, CompactedRow
<1> QED BY <1>2, <1>3, EmptyRowType DEF TerminalRows
(* What an operation that does not reserve leaves of a row. *)
Keeps(row, new) ==
    /\ new.attempts = row.attempts
    /\ new.createdAt = row.createdAt
    /\ new.status = "none" => row.status = "none"
    /\ new.status \in Missing <=> row.status \in Missing
    /\ new.rejected => row.rejected

(* Only mark_failed and mark_reconciled_absent close an intent as failed or  *)
(* absent.                                                                   *)
StaysOpen(row, new) == new.status \notin Closed \/ new.status = row.status

(* mark_submitted keeps what the attempts say and closes nothing. *)
LEMMA MarkSubmittedKeeps ==
    ASSUME NEW J \in [ClientIds -> Row], NEW c \in ClientIds, NEW d \in ClientIds,
           NEW k, NEW recovered, NEW t
    PROVE  /\ Keeps(J[d], MarkSubmitted(J, c, k, recovered, t)[d])
           /\ StaysOpen(J[d], MarkSubmitted(J, c, k, recovered, t)[d])
BY DEF MarkSubmitted, Keeps, StaysOpen, Closed, Row, Exists, Missing, Update

(* So does mark_unknown. *)
LEMMA MarkUnknownKeeps ==
    ASSUME NEW J \in [ClientIds -> Row], NEW c \in ClientIds, NEW d \in ClientIds, NEW t
    PROVE  /\ Keeps(J[d], MarkUnknown(J, c, t)[d])
           /\ StaysOpen(J[d], MarkUnknown(J, c, t)[d])
BY DEF MarkUnknown, Keeps, StaysOpen, Closed, Row, Exists, Missing, Update

(* So does mark_canceled_by_order_id. *)
LEMMA MarkCanceledKeeps ==
    ASSUME NEW J \in [ClientIds -> Row], NEW c \in ClientIds, NEW d \in ClientIds, NEW k, NEW t
    PROVE  /\ Keeps(J[d], MarkCanceledByOrderId(J, c, k, t)[d])
           /\ StaysOpen(J[d], MarkCanceledByOrderId(J, c, k, t)[d])
BY DEF MarkCanceledByOrderId, Keeps, StaysOpen, Closed, Row, Exists, Missing

(* mark_failed closes the one intent it names. *)
LEMMA MarkFailedKeeps ==
    ASSUME NEW J \in [ClientIds -> Row], NEW c \in ClientIds, NEW d \in ClientIds, NEW t
    PROVE  /\ Keeps(J[d], MarkFailed(J, c, t)[d])
           /\ d # c => MarkFailed(J, c, t)[d] = J[d]
BY DEF MarkFailed, Keeps, Row, Exists, Missing, Update

(* mark_reconciled_absent closes the one intent it names. *)
LEMMA MarkAbsentKeeps ==
    ASSUME NEW J \in [ClientIds -> Row], NEW c \in ClientIds, NEW d \in ClientIds, NEW t
    PROVE  /\ Keeps(J[d], MarkReconciledAbsent(J, c, t)[d])
           /\ d # c => MarkReconciledAbsent(J, c, t)[d] = J[d]
BY DEF MarkReconciledAbsent, Keeps, Row, Missing, Pending

(* The reclassification touches rejected rows only. *)
LEMMA ReclassifyKeepsRows ==
    ASSUME NEW J \in [ClientIds -> Row], NEW rows, NEW t \in Nat, NEW d \in ClientIds
    PROVE  LET K == ReclassifyConfirmedRejections(J, rows, t)
           IN  Keeps(J[d], K[d]) /\ (K[d] = J[d] \/ J[d].rejected)
BY DEF ReclassifyConfirmedRejections, Keeps, Row, Missing
-----------------------------------------------------------------------------
(* The two searches.                                                        *)

(* What a source shows was placed. *)
LEMMA ShownAttempts ==
    ASSUME TypeOK, NEW c \in ClientIds, NEW stage \in Sources
    PROVE  /\ Shown(c, stage) \subseteq Attempts
           /\ \A k \in Shown(c, stage) : orders[c][k] # "none"
BY DEF Shown, OrdersIn, Sources

(* A query of a call's search finds an order or changes no row. *)
LEMMA CallSearchEffect ==
    ASSUME NEW s \in Submitters, CallSearch(s)
    PROVE  /\ call[s].pc = "recovering"
           /\ \/ \E k \in Shown(call[s].cid, call[s].stage) :
                     journal' = MarkSubmitted(journal, call[s].cid, k, TRUE, now)
              \/ journal' = journal
           /\ call' \in {[call EXCEPT ![s] = IdleCall],
                        [call EXCEPT ![s] = [call[s] EXCEPT !.stage = NextStage(call[s].stage)]]}
           /\ UNCHANGED <<orders, net, replies, rec, cancel, booting, reservations, now, unaccounted>>
BY DEF CallSearch

(* A query of recovery finds an order, confirms absence, gives up, or goes   *)
(* on to the next source.                                                    *)
LEMMA RecoverySearchEffect ==
    ASSUME NEW r \in Recoverers, RecoverySearch(r)
    PROVE  /\ rec[r].pc = "searching"
           /\ \/ /\ rec' = [rec EXCEPT ![r] = Settled(r)]
                 /\ \/ \E k \in Shown(rec[r].cid, rec[r].stage) :
                           journal' = MarkSubmitted(journal, rec[r].cid, k, TRUE, now)
                    \/ /\ journal' = MarkReconciledAbsent(journal, rec[r].cid, now)
                       /\ journal[rec[r].cid].createdAt + AbsentMinAge <= now
                       /\ "open_orders" \in rec[r].sources
                    \/ journal' = journal
              \/ /\ journal' = journal
                 /\ \E sources \in {rec[r].sources, rec[r].sources \cup {rec[r].stage}} :
                       /\ rec' = [rec EXCEPT ![r] = [@ EXCEPT !.stage = NextStage(rec[r].stage),
                                                              !.sources = sources]]
                       /\ \/ "open_orders" \in sources => "open_orders" \in rec[r].sources
                          \/ OrdersIn(rec[r].cid, {"open"}) = {}
           /\ UNCHANGED <<orders, net, replies, call, cancel, booting, reservations, now, unaccounted>>
<1> DEFINE c == rec[r].cid
           stage == rec[r].stage
<1>1. CASE \E k \in Shown(c, stage) : /\ journal' = MarkSubmitted(journal, c, k, TRUE, now)
                                      /\ rec' = [rec EXCEPT ![r] = Settled(r)]
  BY <1>1 DEF RecoverySearch
<1>2. ASSUME NEW ok \in BOOLEAN, NEW sources,
             sources = IF ok THEN rec[r].sources \cup {stage} ELSE rec[r].sources,
             Misses(c, stage, ok), stage = "closed_orders",
             journal' = IF AbsenceConfirmed(c, sources)
                        THEN MarkReconciledAbsent(journal, c, now) ELSE journal,
             rec' = [rec EXCEPT ![r] = Settled(r)]
      PROVE  \/ /\ journal' = MarkReconciledAbsent(journal, c, now)
                /\ journal[c].createdAt + AbsentMinAge <= now
                /\ "open_orders" \in rec[r].sources
             \/ journal' = journal
  BY <1>2 DEF AbsenceConfirmed
<1>3. ASSUME NEW ok \in BOOLEAN, NEW sources,
             sources = IF ok THEN rec[r].sources \cup {stage} ELSE rec[r].sources,
             Misses(c, stage, ok), stage # "closed_orders"
      PROVE  /\ sources \in {rec[r].sources, rec[r].sources \cup {stage}}
             /\ \/ "open_orders" \in sources => "open_orders" \in rec[r].sources
                \/ OrdersIn(c, {"open"}) = {}
  BY <1>3 DEF Misses, Shown
<1> QED BY <1>1, <1>2, <1>3 DEF RecoverySearch
-----------------------------------------------------------------------------
(* Type correctness.                                                        *)

(* An idle coroutine is typed. *)
LEMMA IdleTypes ==
    /\ IdleCall \in CallState
    /\ IdleRec \in RecState
    /\ IdleCancel \in CancelState
<1>1. 0 \in 0..MaxAttempts /\ 0 \in 0..CancelTries
  BY StoreAssumption, JournalAssumption
<1> QED BY <1>1 DEF IdleCall, IdleRec, IdleCancel, CallState, RecState, CancelState, Sources

(* The initial state is typed. *)
LEMMA TypeInit == Init => TypeOK /\ Busy
<1> SUFFICES ASSUME Init PROVE TypeOK /\ Busy
  OBVIOUS
<1>1. journal \in [ClientIds -> Row]
  BY EmptyRowType DEF Init
<1>2. reservations \in 0..(CompactEvery - 1)
  BY JournalAssumption DEF Init
<1>3. TypeOK
  BY <1>1, <1>2, IdleTypes DEF Init, TypeOK, OrderStates
<1>4. Busy
  BY DEF Init, Busy, IdleCall, IdleRec, IdleCancel
<1> QED BY <1>3, <1>4

(* Every step keeps the types. *)
LEMMA TypeStep == TypeOK /\ Busy /\ [Next]_vars => TypeOK' /\ Busy'
<1> SUFFICES ASSUME TypeOK, Busy, [Next]_vars PROVE TypeOK' /\ Busy'
  OBVIOUS
<1> USE DEF TypeOK, Busy
<1>1. ASSUME NEW q \in net, Arrive(q) PROVE TypeOK' /\ Busy'
  BY <1>1 DEF Arrive, Request, Reply, OrderStates
<1>2. ASSUME NEW q \in net, Lose(q) PROVE TypeOK' /\ Busy'
  BY <1>2 DEF Lose
<1>3. ASSUME NEW c \in ClientIds, NEW k \in Attempts, CloseOrder(c, k) PROVE TypeOK' /\ Busy'
  BY <1>3 DEF CloseOrder, OrderStates
<1>4. ASSUME Tick PROVE TypeOK' /\ Busy'
  BY <1>4 DEF Tick
<1>5. ASSUME NEW s \in Submitters, NEW c \in ClientIds, BeginCall(s, c) PROVE TypeOK' /\ Busy'
  <2>1. journal' \in [ClientIds -> Row]
    <3>1. CASE journal' = journal
      BY <3>1
    <3>2. CASE /\ journal[c].attempts < MaxAttempts
               /\ LET J == [journal EXCEPT ![c] = Reserve(journal[c], now)]
                  IN  journal' = J \/ journal' \in Compactions(J, now)
      <4>1. [journal EXCEPT ![c] = Reserve(journal[c], now)] \in [ClientIds -> Row]
        BY <3>2, ReserveType
      <4> QED BY <3>2, <4>1, CompactionEffect
    <3> QED BY <1>5, <3>1, <3>2 DEF BeginCall
  <2>2. reservations' \in 0..(CompactEvery - 1)
    BY <1>5, JournalAssumption DEF BeginCall
  <2>3. /\ call' \in [Submitters -> CallState]
        /\ \A t \in Submitters : call'[t] = call[t] \/ call'[t].cid = c
        /\ \A t \in Submitters : \/ call'[t] = call[t]
                                \/ call'[t].pc = "recovering"
                                \/ call'[t].attempt \in Attempts
    <3>1. CASE /\ journal[c].attempts < MaxAttempts
               /\ call' = [call EXCEPT ![s] = [pc |-> "pacing", cid |-> c,
                                               attempt |-> journal[c].attempts + 1,
                                               since |-> now, stage |-> "direct"]]
      <4>1. journal[c].attempts + 1 \in Attempts /\ journal[c].attempts + 1 \in 0..MaxAttempts
        BY <3>1, StoreAssumption DEF Row, Attempts
      <4> QED BY <3>1, <4>1 DEF CallState, Sources
    <3>2. CASE call' = [call EXCEPT ![s] = [IdleCall EXCEPT !.pc = "recovering", !.cid = c]]
      BY <3>2, IdleTypes DEF CallState, IdleCall
    <3> QED BY <1>5, <3>1, <3>2 DEF BeginCall
  <2> QED BY <1>5, <2>1, <2>2, <2>3 DEF BeginCall
<1>6. ASSUME NEW s \in Submitters, SendRequest(s) PROVE TypeOK' /\ Busy'
  <2>1. [cid |-> call[s].cid, attempt |-> call[s].attempt, sentAt |-> now] \in Request
    BY <1>6 DEF SendRequest, Request
  <2>2. call' \in [Submitters -> CallState]
    <3>1. [call[s] EXCEPT !.pc = "awaiting", !.since = 0] \in CallState
      BY DEF CallState
    <3> QED BY <1>6, <3>1 DEF SendRequest
  <2>3. \A t \in Submitters : /\ call'[t].cid = call[t].cid
                              /\ call'[t].attempt = call[t].attempt
                              /\ call'[t].pc # call[t].pc => t = s
    BY <1>6 DEF SendRequest, CallState
  <2>4. unaccounted' \subseteq ClientIds
    BY <1>6 DEF SendRequest, MissedIf
  <2> QED BY <1>6, <2>1, <2>2, <2>3, <2>4 DEF SendRequest
<1>7. ASSUME NEW s \in Submitters, ReceiveReply(s) PROVE TypeOK' /\ Busy'
  <2>1. PICK p \in replies :
          /\ p.cid = call[s].cid /\ p.attempt = call[s].attempt
          /\ replies' = replies \ {p}
          /\ journal' \in {MarkSubmitted(journal, p.cid, p.attempt, FALSE, now),
                          MarkFailed(journal, p.cid, now), MarkUnknown(journal, p.cid, now)}
          /\ call' \in {[call EXCEPT ![s] = IdleCall],
                       [call EXCEPT ![s] = [IdleCall EXCEPT !.pc = "recovering", !.cid = p.cid]]}
    BY <1>7 DEF ReceiveReply
  <2>2. p.cid \in ClientIds /\ p.attempt \in Attempts
    BY <2>1 DEF Reply
  <2>3. journal' \in [ClientIds -> Row]
    <3>1. /\ MarkSubmitted(journal, p.cid, p.attempt, FALSE, now) \in [ClientIds -> Row]
          /\ MarkFailed(journal, p.cid, now) \in [ClientIds -> Row]
          /\ MarkUnknown(journal, p.cid, now) \in [ClientIds -> Row]
      BY <2>2, MarkSubmittedType, MarkFailedType, MarkUnknownType
    <3> QED BY <2>1, <3>1
  <2>4. /\ [IdleCall EXCEPT !.pc = "recovering", !.cid = p.cid] \in CallState
        /\ unaccounted' \subseteq ClientIds
    BY <1>7, <2>1, <2>2, IdleTypes DEF CallState, ReceiveReply, MissedIf
  <2>5. call' \in [Submitters -> CallState]
    BY <2>1, <2>4, IdleTypes
  <2>6. \A t \in Submitters : \/ call'[t] = call[t]
                              \/ call'[t].pc = "idle"
                              \/ call'[t].pc = "recovering" /\ call'[t].cid = p.cid
    <3>1. CASE call' = [call EXCEPT ![s] = IdleCall]
      BY <3>1 DEF IdleCall
    <3>2. CASE call' = [call EXCEPT ![s] = [IdleCall EXCEPT !.pc = "recovering", !.cid = p.cid]]
      BY <3>2 DEF IdleCall
    <3> QED BY <2>1, <3>1, <3>2
  <2> QED BY <1>7, <2>1, <2>2, <2>3, <2>4, <2>5, <2>6 DEF ReceiveReply
<1>8. ASSUME NEW s \in Submitters, RequestError(s) PROVE TypeOK' /\ Busy'
  <2>1. MarkUnknown(journal, call[s].cid, now) \in [ClientIds -> Row]
    BY <1>8, MarkUnknownType DEF RequestError
  <2>2. [IdleCall EXCEPT !.pc = "recovering", !.cid = call[s].cid] \in CallState
    BY <1>8, IdleTypes DEF RequestError, CallState
  <2> QED BY <1>8, <2>1, <2>2 DEF RequestError, IdleCall
<1>9. ASSUME NEW s \in Submitters, CallSearch(s) PROVE TypeOK' /\ Busy'
  <2>1. call[s].cid \in ClientIds /\ call[s].stage \in Sources
    BY <1>9, CallSearchEffect DEF CallState
  <2>2. journal' \in [ClientIds -> Row]
    <3>1. \A k \in Shown(call[s].cid, call[s].stage) :
            MarkSubmitted(journal, call[s].cid, k, TRUE, now) \in [ClientIds -> Row]
      BY <2>1, ShownAttempts, MarkSubmittedType
    <3> QED BY <1>9, <3>1, CallSearchEffect
  <2>3. [call[s] EXCEPT !.stage = NextStage(call[s].stage)] \in CallState
    BY DEF CallState, NextStage, Sources
  <2>4. call' \in [Submitters -> CallState]
    BY <1>9, <2>3, CallSearchEffect, IdleTypes
  <2>5. \A t \in Submitters : \/ call'[t].pc = "idle"
                              \/ /\ call'[t].pc = call[t].pc
                                 /\ call'[t].cid = call[t].cid
                                 /\ call'[t].attempt = call[t].attempt
    <3>1. CASE call' = [call EXCEPT ![s] = IdleCall]
      BY <3>1 DEF IdleCall
    <3>2. CASE call' = [call EXCEPT ![s] = [call[s] EXCEPT !.stage = NextStage(call[s].stage)]]
      BY <3>2 DEF CallState
    <3> QED BY <1>9, <3>1, <3>2, CallSearchEffect
  <2> QED BY <1>9, <2>2, <2>4, <2>5, CallSearchEffect
<1>10. ASSUME NEW s \in Submitters, CancelCall(s) PROVE TypeOK' /\ Busy'
  BY <1>10, IdleTypes DEF CancelCall, IdleCall
<1>11. ASSUME NEW r \in Recoverers, NEW scope \in Scopes, BeginRecovery(r, scope)
       PROVE TypeOK' /\ Busy'
  <2>1. journal' \in [ClientIds -> Row]
    BY <1>11, ReclassifyType DEF BeginRecovery
  <2>2. PICK todo : /\ todo \subseteq ClientIds
                    /\ rec' = [rec EXCEPT ![r] = [IdleRec EXCEPT !.pc = "next", !.todo = todo,
                                                                 !.startup = booting]]
    <3>1. \A J : \A T \in Listed(J, scope) : T \subseteq ClientIds
      BY DEF Listed, PendingForMarket, InMarkets
    <3> QED BY <1>11, <3>1 DEF BeginRecovery
  <2>3. [IdleRec EXCEPT !.pc = "next", !.todo = todo, !.startup = booting] \in RecState
    BY <2>2, IdleTypes DEF RecState
  <2>4. rec' \in [Recoverers -> RecState] /\ rec'[r].pc = "next"
    BY <2>2, <2>3 DEF IdleRec
  <2>5. \A t \in Recoverers \ {r} : rec'[t] = rec[t]
    BY <2>2
  <2> QED BY <1>11, <2>1, <2>4, <2>5 DEF BeginRecovery
<1>12. ASSUME NEW r \in Recoverers, NEW c \in ClientIds, NextIntent(r, c) PROVE TypeOK' /\ Busy'
  <2>1. CASE rec' = [rec EXCEPT ![r].pc = "searching", ![r].todo = @ \ {c}, ![r].cid = c,
                                ![r].since = now, ![r].stage = "direct", ![r].sources = {}]
    BY <1>12, <2>1 DEF NextIntent, RecState, Sources
  <2>2. CASE rec' = [rec EXCEPT ![r].todo = @ \ {c}]
    <3>1. [rec[r] EXCEPT !.todo = @ \ {c}] \in RecState /\ rec[r].pc = "next"
      BY <1>12 DEF NextIntent, RecState
    <3>2. rec' \in [Recoverers -> RecState] /\ rec'[r].pc = "next"
      BY <2>2, <3>1 DEF RecState
    <3>3. \A t \in Recoverers \ {r} : rec'[t] = rec[t]
      BY <2>2
    <3> QED BY <1>12, <3>2, <3>3 DEF NextIntent
  <2> QED BY <1>12, <2>1, <2>2 DEF NextIntent
<1>13. ASSUME NEW r \in Recoverers, EndRecovery(r) PROVE TypeOK' /\ Busy'
  BY <1>13, IdleTypes DEF EndRecovery, IdleRec
<1>14. ASSUME NEW r \in Recoverers, RecoverySearch(r) PROVE TypeOK' /\ Busy'
  <2>1. rec[r].cid \in ClientIds /\ rec[r].stage \in Sources
    BY <1>14, RecoverySearchEffect DEF RecState
  <2>2. \A k \in Shown(rec[r].cid, rec[r].stage) :
          MarkSubmitted(journal, rec[r].cid, k, TRUE, now) \in [ClientIds -> Row]
    BY <2>1, ShownAttempts, MarkSubmittedType
  <2>3. journal' \in [ClientIds -> Row]
    <3>1. MarkReconciledAbsent(journal, rec[r].cid, now) \in [ClientIds -> Row]
      BY <2>1, MarkAbsentType
    <3>2. \/ \E k \in Shown(rec[r].cid, rec[r].stage) :
                journal' = MarkSubmitted(journal, rec[r].cid, k, TRUE, now)
          \/ journal' = MarkReconciledAbsent(journal, rec[r].cid, now)
          \/ journal' = journal
      BY <1>14, RecoverySearchEffect
    <3> QED BY <2>2, <3>1, <3>2
  <2>4. Settled(r) \in RecState /\ Settled(r).pc = "next"
    BY IdleTypes DEF Settled, RecState, IdleRec
  <2>5. NextStage(rec[r].stage) \in Sources
    BY <2>1 DEF NextStage, Sources
  <2>6. /\ rec' \in [Recoverers -> RecState]
        /\ \A t \in Recoverers : rec'[t].pc = "searching" => rec'[t].cid = rec[t].cid
                                                            /\ rec[t].pc = "searching"
    <3>1. CASE rec' = [rec EXCEPT ![r] = Settled(r)]
      BY <2>4, <3>1
    <3>2. ASSUME NEW sources \in {rec[r].sources, rec[r].sources \cup {rec[r].stage}},
                 rec' = [rec EXCEPT ![r] = [@ EXCEPT !.stage = NextStage(rec[r].stage), !.sources = sources]]
          PROVE  <2>6!1 /\ <2>6!2
      <4>1. sources \in SUBSET Sources
        BY <2>1, <3>2 DEF RecState
      <4>2. rec'[r] \in RecState /\ rec'[r].pc = rec[r].pc /\ rec'[r].cid = rec[r].cid
        <5>1. [rec[r] EXCEPT !.stage = NextStage(rec[r].stage), !.sources = sources] \in RecState
          BY <2>5, <4>1 DEF RecState
        <5> QED BY <3>2, <5>1 DEF RecState
      <4> QED BY <3>2, <4>2
    <3> QED BY <1>14, <3>1, <3>2, RecoverySearchEffect
  <2> QED BY <1>14, <2>3, <2>6, RecoverySearchEffect
<1>15. ASSUME NEW x \in Cancelers, NEW c \in ClientIds, NEW k \in Attempts, BeginCancel(x, c, k)
       PROVE TypeOK' /\ Busy'
  BY <1>15, JournalAssumption DEF BeginCancel, CancelState, Attempts
<1>16. ASSUME NEW x \in Cancelers, CancelRequest(x) PROVE TypeOK' /\ Busy'
  <2>1. orders' \in [ClientIds -> [Attempts -> OrderStates]]
    BY <1>16 DEF CancelRequest, OrderStates
  <2>2. PICK pc \in {"confirm", "recheck"} : cancel' = [cancel EXCEPT ![x].pc = pc]
    BY <1>16 DEF CancelRequest
  <2>3. [cancel[x] EXCEPT !.pc = pc] \in CancelState
    BY <2>2 DEF CancelState
  <2>4. /\ cancel' \in [Cancelers -> CancelState]
        /\ \A y \in Cancelers : /\ cancel'[y].cid = cancel[y].cid
                               /\ cancel'[y].attempt = cancel[y].attempt
                               /\ cancel'[y].pc # "idle" => cancel[y].pc # "idle"
    BY <1>16, <2>2, <2>3 DEF CancelRequest, CancelState
  <2> QED BY <1>16, <2>1, <2>4 DEF CancelRequest
<1>17. ASSUME NEW x \in Cancelers, ConfirmCanceled(x) PROVE TypeOK' /\ Busy'
  BY <1>17, MarkCanceledType, IdleTypes DEF ConfirmCanceled, IdleCancel
<1>18. ASSUME NEW x \in Cancelers, CancelUnconfirmed(x) PROVE TypeOK' /\ Busy'
  <2>1. cancel'[x] \in CancelState /\ (cancel'[x].pc # "idle" =>
            cancel'[x].cid = cancel[x].cid /\ cancel'[x].attempt = cancel[x].attempt)
    <3>1. CASE cancel'[x] = [cancel[x] EXCEPT !.pc = "recheck"]
      BY <3>1 DEF CancelState
    <3>2. CASE /\ cancel[x].tries < CancelTries
               /\ cancel'[x] = [cancel[x] EXCEPT !.pc = "request", !.tries = cancel[x].tries + 1]
      <4>1. cancel[x].tries + 1 \in 0..CancelTries
        BY <3>2, JournalAssumption DEF CancelState
      <4>2. [cancel[x] EXCEPT !.pc = "request", !.tries = cancel[x].tries + 1] \in CancelState
        BY <4>1 DEF CancelState
      <4> QED BY <3>2, <4>2 DEF CancelState
    <3>3. CASE cancel'[x] = IdleCancel
      BY <3>3, IdleTypes DEF IdleCancel
    <3>4. cancel'[x] = IF cancel[x].pc = "confirm" THEN [cancel[x] EXCEPT !.pc = "recheck"]
                       ELSE IF cancel[x].tries < CancelTries
                            THEN [cancel[x] EXCEPT !.pc = "request", !.tries = cancel[x].tries + 1]
                            ELSE IdleCancel
      BY <1>18 DEF CancelUnconfirmed
    <3> QED BY <3>1, <3>2, <3>3, <3>4
  <2> QED BY <1>18, <2>1 DEF CancelUnconfirmed
<1>19. ASSUME Maintenance PROVE TypeOK' /\ Busy'
  BY <1>19, CompactionEffect DEF Maintenance, Compact
<1>20. ASSUME Crash PROVE TypeOK' /\ Busy'
  BY <1>20, IdleTypes, JournalAssumption DEF Crash, IdleCall, IdleRec, IdleCancel
<1>21. ASSUME UNCHANGED vars PROVE TypeOK' /\ Busy'
  BY <1>21 DEF vars
<1> QED
  BY <1>1, <1>2, <1>3, <1>4, <1>5, <1>6, <1>7, <1>8, <1>9, <1>10, <1>11, <1>12, <1>13, <1>14,
     <1>15, <1>16, <1>17, <1>18, <1>19, <1>20, <1>21 DEF Next

(* Every reachable state is of the declared types, however the coroutines,  *)
(* the exchange and crashes interleave.                                     *)
THEOREM TypeCorrect == Spec => []TypeOK
<1> QED BY TypeInit, TypeStep, PTL DEF Spec
-----------------------------------------------------------------------------
(* First attempts.                                                          *)

(* The steps that add nothing to what an intent has with the pacer, on the   *)
(* wire, at the exchange or in a search, and keep its attempt.               *)
Shrinks(c) ==
    /\ now' = now
    /\ c \in unaccounted => c \in unaccounted'
    /\ Keeps(journal[c], journal'[c])
    /\ \/ journal'[c].status \notin Closed
       \/ journal'[c].status = journal[c].status
       \/ journal[c].attempts = 1 => Accounted(c) \/ c \in unaccounted'
    /\ \A k \in Attempts : /\ orders'[c][k] = "none" <=> orders[c][k] = "none"
                           /\ orders'[c][k] = "open" => orders[c][k] = "open"
    /\ \A q \in net' : q.cid = c => q \in net
    /\ \A p \in replies' : p.cid = c => p \in replies
    /\ \A s \in Submitters : call'[s].pc \in {"pacing", "awaiting"} /\ call'[s].cid = c
          => call'[s] = call[s]
    /\ \A r \in Recoverers :
          \/ rec'[r].pc = "searching" /\ rec'[r].cid = c /\ "open_orders" \in rec'[r].sources
             => /\ rec[r].pc = "searching" /\ rec[r].cid = c /\ "open_orders" \in rec[r].sources
                /\ rec'[r].since = rec[r].since
          \/ orders[c][1] # "open"

(* A step that adds no request, order or reply of an intent keeps its invariant. *)
LEMMA ShrinkingStep ==
    ASSUME TypeOK, TypeOK', NEW c \in ClientIds, PerIntent(c), Shrinks(c)
    PROVE  PerIntent(c)'
<1>1. 1 \in Attempts
  BY StoreAssumption DEF Attempts
<1>2. RowShape(c)'
  <2>1. journal[c].status = "none" => Untouched(c)
    BY DEF PerIntent, RowShape
  <2>2. Untouched(c) => Untouched(c)'
    BY DEF Untouched, Shrinks, Keeps, Holds
  <2>3. journal[c].status \in Missing <=> journal[c].attempts = 0
    BY DEF PerIntent, RowShape
  <2> QED BY <2>1, <2>2, <2>3 DEF RowShape, Shrinks, Keeps
<1>3. ASSUME journal'[c].attempts = 1 PROVE Once(c)'
  <2>1. Once(c) /\ journal[c].attempts = 1
    BY <1>3 DEF PerIntent, Shrinks, Keeps
  <2>2. OneAttempt(c)'
    BY <1>1, <2>1 DEF Once, OneAttempt, Shrinks, Keeps, Holds
  <2>3. OnTime(c)'
    BY <2>1 DEF Once, OnTime, Shrinks, Keeps
  <2>4. SearchSound(c)'
    BY <1>1, <2>1 DEF Once, SearchSound, Shrinks, Keeps
  <2>5. (journal[c].rejected => Untouched(c))'
    BY <2>1 DEF Once, Untouched, Shrinks, Keeps, Holds
  <2>6. Accounted(c) \/ c \in unaccounted' => Accounted(c)'
    <3>1. NoLiveOrder(c) => NoLiveOrder(c)'
      BY DEF NoLiveOrder, OrdersIn, MayStillArrive, Shrinks, Keeps
    <3>2. ASSUME NEW s \in Submitters, call[s].pc = "pacing", call[s].cid = c, Late(s)
          PROVE  NoLiveOrder(c)' \/ WaitsTooLong(c)'
      <4>1. /\ \A q \in net : q.cid # c
            /\ \A k \in Attempts : orders[c][k] = "none"
            /\ \A t \in Submitters : Holds(t, c) => t = s
        BY <2>1, <3>2 DEF Once, OneAttempt, Holds
      <4>2. CASE call'[s] = call[s]
        BY <3>2, <4>2 DEF WaitsTooLong, Late, Shrinks
      <4>3. CASE call'[s] # call[s]
        <5>1. \A t \in Submitters : ~(call'[t].pc = "pacing" /\ call'[t].cid = c)
          BY <4>1, <4>3 DEF Shrinks, Holds
        <5>2. \A k \in Attempts : orders'[c][k] = "none"
          BY <4>1 DEF Shrinks
        <5> QED BY <4>1, <5>1, <5>2 DEF NoLiveOrder, OrdersIn, MayStillArrive, Shrinks
      <4> QED BY <4>2, <4>3
    <3> QED BY <3>1, <3>2 DEF Accounted, WaitsTooLong, Shrinks
  <2>7. (journal[c].status \in Closed => Accounted(c))'
    BY <2>1, <2>6 DEF Once, Shrinks, Keeps
  <2> QED BY <2>2, <2>3, <2>4, <2>5, <2>7 DEF Once
<1> QED BY <1>2, <1>3 DEF PerIntent

(* A request that arrives is the only trace of its attempt until then, and   *)
(* no search that counts can have begun.                                     *)
LEMMA ArriveStep ==
    ASSUME IInv, TypeOK', NEW q \in net, Arrive(q), NEW c \in ClientIds
    PROVE  PerIntent(c)'
<1>1. PerIntent(c) /\ 1 \in Attempts /\ q.cid \in ClientIds /\ q.attempt \in Attempts
  BY StoreAssumption DEF IInv, TypeOK, Attempts, Request
<1>2. CASE c # q.cid
  <2>1. Shrinks(c)
    BY <1>1, <1>2 DEF Arrive, Shrinks, Keeps, IInv, TypeOK
  <2> QED BY <1>1, <2>1, ShrinkingStep DEF IInv
<1>3. CASE c = q.cid
  <2>1. /\ journal[c].status # "none" /\ journal' = journal /\ call' = call
        /\ rec' = rec /\ now' = now /\ unaccounted' = unaccounted
    BY <1>1, <1>3 DEF PerIntent, RowShape, Untouched, Arrive
  <2>2. RowShape(c)'
    BY <1>1, <2>1 DEF PerIntent, RowShape
  <2>3. ASSUME journal[c].attempts = 1 PROVE Once(c)'
    <3>1. Once(c)
      BY <1>1, <2>3 DEF PerIntent
    <3>2. /\ q.attempt = 1 /\ orders[c][1] = "none"
          /\ \A p \in replies : p.cid # c
          /\ \A p \in net : p.cid = c => p = q
          /\ \A k \in Attempts : orders[c][k] = "none"
          /\ \A s \in Submitters : ~(call[s].pc = "pacing" /\ call[s].cid = c)
      BY <1>3, <3>1 DEF Once, OneAttempt
    <3>3. /\ \A p \in net' : p.cid # c
          /\ \A k \in Attempts : k # 1 => orders'[c][k] = "none"
          /\ \A p \in replies' : p.cid = c =>
                p.attempt = 1 /\ (p.kind = "refused" => orders'[c][1] = "none")
      BY <1>1, <1>3, <3>2 DEF Arrive, IInv, TypeOK
    <3>4. OneAttempt(c)'
      BY <2>1, <3>1, <3>2, <3>3 DEF Once, OneAttempt, Holds
    <3>5. OnTime(c)'
      BY <2>1, <3>2, <3>3 DEF OnTime
    <3>6. SearchSound(c)'
      <4>1. /\ now <= q.sentAt + FlightTime
            /\ \/ c \in unaccounted
               \/ q.sentAt + FlightTime + SearchTime < journal[c].createdAt + AbsentMinAge
        BY <1>3, <3>1 DEF Once, OnTime
      <4>2. \A r \in Recoverers : rec[r].pc = "searching" => rec[r].since <= now
        BY DEF IInv, SearchesOnTime
      <4>3. /\ journal[c].createdAt \in Nat /\ now \in Nat /\ q.sentAt \in Nat
            /\ SearchTime \in Nat /\ FlightTime \in Nat /\ AbsentMinAge \in Nat
            /\ \A r \in Recoverers : rec[r].since \in Nat
        BY JournalAssumption DEF IInv, TypeOK, Row, Request, RecState
      <4>4. \A r \in Recoverers : rec[r].pc = "searching" =>
               \/ c \in unaccounted
               \/ ~(journal[c].createdAt + AbsentMinAge <= rec[r].since + SearchTime)
        BY <4>1, <4>2, <4>3
      <4> QED BY <2>1, <4>4 DEF SearchSound
    <3>7. ~journal[c].rejected /\ (journal[c].status \in Closed => c \in unaccounted)
      BY <1>3, <3>1, <3>2 DEF Once, Untouched, Accounted, NoLiveOrder, MayStillArrive, WaitsTooLong
    <3> QED BY <2>1, <3>4, <3>5, <3>6, <3>7 DEF Once, Accounted
  <2> QED BY <2>1, <2>2, <2>3 DEF PerIntent
<1> QED BY <1>2, <1>3

(* The passing of time keeps deadlines that the model enforces. *)
LEMMA TickStep ==
    ASSUME IInv, TypeOK', Tick, NEW c \in ClientIds
    PROVE  PerIntent(c)' /\ SearchesOnTime'
<1>1. PerIntent(c)
  BY DEF IInv
<1>2. /\ now \in Nat /\ FlightTime \in Nat /\ SearchTime \in Nat /\ AbsentMinAge \in Nat
      /\ \A s \in Submitters : call[s].since \in Nat
      /\ \A q \in net : q.sentAt \in Nat
      /\ \A r \in Recoverers : rec[r].since \in Nat
  BY JournalAssumption DEF IInv, TypeOK, CallState, Request, RecState
<1>3. SearchesOnTime'
  BY <1>2 DEF Tick, IInv, SearchesOnTime
<1>4. Once(c) => OnTime(c)'
  BY <1>2 DEF Tick, Once, OnTime
<1>5. Accounted(c) => Accounted(c)'
  <2>1. NoLiveOrder(c) => NoLiveOrder(c)'
    BY DEF Tick, NoLiveOrder, MayStillArrive, OrdersIn
  <2>2. WaitsTooLong(c) => WaitsTooLong(c)'
    BY <1>2 DEF Tick, WaitsTooLong, Late
  <2> QED BY <2>1, <2>2 DEF Accounted, Tick
<1>7. Once(c) => Once(c)'
  BY <1>4, <1>5 DEF Tick, Once, OneAttempt, SearchSound, Untouched, Holds
<1>6. RowShape(c) => RowShape(c)'
  BY DEF Tick, RowShape, Untouched, Holds
<1> QED BY <1>1, <1>3, <1>6, <1>7 DEF PerIntent, Tick

(* A compacted row says nothing. *)
LEMMA CompactedIntent ==
    ASSUME NEW c \in ClientIds, journal'[c] = CompactedRow
    PROVE  PerIntent(c)'
BY DEF PerIntent, RowShape, CompactedRow, EmptyRow, Missing

(* A reservation starts the first attempt of an intent nothing is known of,  *)
(* or one that is not the first.                                             *)
LEMMA BeginCallStep ==
    ASSUME IInv, TypeOK', NEW s \in Submitters, NEW d \in ClientIds, BeginCall(s, d),
           NEW c \in ClientIds
    PROVE  PerIntent(c)'
<1>1. PerIntent(c) /\ journal \in [ClientIds -> Row] /\ journal[c] \in Row /\ now \in Nat
      /\ call \in [Submitters -> CallState]
  BY DEF IInv, TypeOK
<1>2. CASE journal' = journal /\ call' = [call EXCEPT ![s] = [IdleCall EXCEPT !.pc = "recovering", !.cid = d]]
  <2>1. \A t \in Submitters : call'[t].pc \in {"pacing", "awaiting"} => call'[t] = call[t]
    BY <1>1, <1>2 DEF IdleCall
  <2>2. Shrinks(c)
    BY <1>2, <2>1 DEF BeginCall, Shrinks, Keeps
  <2> QED BY <1>1, <2>2, ShrinkingStep DEF IInv
<1>3. CASE /\ ReserveAction(journal[d], now) = "submit"
           /\ journal[d].attempts < MaxAttempts
           /\ call' = [call EXCEPT ![s] = [pc |-> "pacing", cid |-> d,
                                           attempt |-> journal[d].attempts + 1,
                                           since |-> now, stage |-> "direct"]]
           /\ LET J == [journal EXCEPT ![d] = Reserve(journal[d], now)]
              IN  journal' = J \/ journal' \in Compactions(J, now)
  <2> DEFINE J == [journal EXCEPT ![d] = Reserve(journal[d], now)]
  <2>1. J \in [ClientIds -> Row]
    BY <1>1, <1>3, ReserveType
  <2>2. Reserve(journal[d], now).status = "reserved"
    BY <1>1 DEF Reserve, EmptyRow, Row
  <2>3. journal'[c] = J[c] \/ (J[c].status \in Terminal /\ journal'[c] = CompactedRow)
    BY <1>1, <1>3, <2>1, CompactionEffect
  <2>4. CASE c # d
    <3>1. J[c] = journal[c]
      BY <1>1, <2>4
    <3>2. CASE journal'[c] = CompactedRow
      BY <3>2, CompactedIntent
    <3>3. CASE journal'[c] = journal[c]
      <4>1. \A t \in Submitters : call'[t].pc \in {"pacing", "awaiting"} /\ call'[t].cid = c
                                   => call'[t] = call[t]
        BY <1>1, <1>3, <2>4
      <4>2. Shrinks(c)
        BY <3>3, <4>1 DEF BeginCall, Shrinks, Keeps
      <4> QED BY <1>1, <4>2, ShrinkingStep DEF IInv
    <3> QED BY <2>3, <3>1, <3>2, <3>3
  <2>5. CASE c = d
    <3>1. journal'[c] = Reserve(journal[c], now)
      <4>1. J[c] = Reserve(journal[c], now)
        BY <1>1, <2>5
      <4> QED BY <2>2, <2>3, <2>5, <4>1 DEF Terminal
    <3>2. CASE journal[c].status = "none"
      <4>1. /\ Untouched(c) /\ journal[c].attempts = 0
        BY <1>1, <3>2 DEF PerIntent, RowShape, Missing
      <4>2. /\ journal'[c].status = "reserved" /\ journal'[c].attempts = 1
            /\ journal'[c].createdAt = now /\ ~journal'[c].rejected
        BY <3>1, <3>2 DEF Reserve, EmptyRow, Exists, Missing
      <4>3. /\ net' = net /\ replies' = replies /\ orders' = orders /\ now' = now
        BY DEF BeginCall
      <4>4. /\ \A t \in Submitters : t # s => ~Holds(t, c)'
            /\ call'[s] = [pc |-> "pacing", cid |-> c, attempt |-> 1,
                           since |-> now, stage |-> "direct"]
        BY <1>1, <1>3, <2>5, <4>1 DEF Untouched, Holds
      <4>5. 1 \in Attempts
        BY StoreAssumption DEF Attempts
      <4>6. OneAttempt(c)'
        BY <4>1, <4>3, <4>4, <4>5 DEF OneAttempt, Holds, Untouched
      <4>7. OnTime(c)'
        BY <1>1, <4>1, <4>2, <4>3, <4>4, <4>5 DEF OnTime, Holds, Untouched
      <4>8. SearchSound(c)'
        BY <4>1, <4>3, <4>5 DEF SearchSound, Untouched
      <4>9. RowShape(c)'
        BY <4>2 DEF RowShape, Missing
      <4> QED BY <4>2, <4>6, <4>7, <4>8, <4>9 DEF PerIntent, Once, Closed
    <3>3. CASE journal[c].status # "none"
      <4>1. journal[c].status \notin Missing
        BY <2>5, <3>3 DEF BeginCall, Missing
      <4>2. journal[c].attempts # 0 /\ journal[c].attempts \in Nat
        BY <1>1, <4>1, StoreAssumption DEF PerIntent, RowShape, Row
      <4>3. /\ journal'[c].status = "reserved"
            /\ journal'[c].attempts = journal[c].attempts + 1
        BY <1>1, <3>1, <4>1 DEF Reserve, Exists, Row
      <4>4. journal'[c].attempts # 0 /\ journal'[c].attempts # 1
        BY <4>2, <4>3
      <4> QED BY <4>3, <4>4 DEF PerIntent, RowShape, Missing
    <3> QED BY <3>2, <3>3
  <2> QED BY <2>4, <2>5
<1> QED BY <1>2, <1>3 DEF BeginCall

(* The pacer lets a request go: its order may now arrive. *)
LEMMA SendRequestStep ==
    ASSUME IInv, TypeOK', NEW s \in Submitters, SendRequest(s), NEW c \in ClientIds
    PROVE  PerIntent(c)'
<1>1. PerIntent(c) /\ call \in [Submitters -> CallState]
  BY DEF IInv, TypeOK
<1>2. /\ call[s].pc = "pacing" /\ call[s].cid \in ClientIds
      /\ \A t \in Submitters : t # s => call'[t] = call[t]
      /\ call'[s].pc = "awaiting" /\ call'[s].cid = call[s].cid
      /\ call'[s].attempt = call[s].attempt
      /\ journal' = journal /\ orders' = orders /\ replies' = replies /\ rec' = rec /\ now' = now
      /\ unaccounted \subseteq unaccounted'
      /\ Late(s) /\ call[s].attempt = 1 => call[s].cid \in unaccounted'
  BY <1>1 DEF SendRequest, MissedIf, IInv, Busy, CallState
<1> DEFINE new == [cid |-> call[s].cid, attempt |-> call[s].attempt, sentAt |-> now]
<1>3. net' = net \cup {new}
  BY DEF SendRequest
<1>4. CASE c # call[s].cid
  <2>1. Shrinks(c)
    BY <1>2, <1>3, <1>4 DEF Shrinks, Keeps
  <2> QED BY <1>1, <2>1, ShrinkingStep DEF IInv
<1>5. CASE c = call[s].cid
  <2>1. journal[c].status # "none"
    BY <1>1, <1>2, <1>5 DEF PerIntent, RowShape, Untouched, Holds
  <2>2. RowShape(c)'
    BY <1>1, <1>2, <2>1 DEF PerIntent, RowShape
  <2>3. ASSUME journal[c].attempts = 1 PROVE Once(c)'
    <3>1. Once(c)
      BY <1>1, <2>3 DEF PerIntent
    <3>2. /\ call[s].attempt = 1 /\ orders[c][1] = "none"
          /\ \A q \in net : q.cid # c
          /\ \A p \in replies : p.cid # c
          /\ \A t \in Submitters : Holds(t, c) => t = s
      BY <1>2, <1>5, <3>1 DEF Once, OneAttempt, Holds
    <3>3. OneAttempt(c)'
      BY <1>2, <1>3, <1>5, <3>1, <3>2 DEF Once, OneAttempt, Holds
    <3>4. OnTime(c)'
      <4>1. /\ now <= now + FlightTime
            /\ \/ c \in unaccounted'
               \/ now + FlightTime + SearchTime < journal[c].createdAt + AbsentMinAge
        <5>1. call[s].since <= journal[c].createdAt
          BY <1>2, <1>5, <3>1 DEF Once, OnTime
        <5>2. /\ now \in Nat /\ call[s].since \in Nat /\ journal[c].createdAt \in Nat
              /\ SearchTime \in Nat /\ FlightTime \in Nat /\ AbsentMinAge \in Nat
          BY JournalAssumption DEF IInv, TypeOK, CallState, Row
        <5>3. Late(s) => c \in unaccounted'
          BY <1>2, <1>5, <3>2
        <5> QED BY <5>1, <5>2, <5>3 DEF Late
      <4>2. \A t \in Submitters : ~(call'[t].pc = "pacing" /\ call'[t].cid = c)
        BY <1>2, <3>2 DEF Holds
      <4> QED BY <1>2, <1>3, <3>2, <4>1, <4>2 DEF OnTime
    <3>5. SearchSound(c)'
      BY <1>2, <3>1 DEF Once, SearchSound
    <3>6. ~journal[c].rejected
      BY <1>2, <1>5, <3>1 DEF Once, Untouched, Holds
    <3>7. journal[c].status \in Closed => c \in unaccounted'
      <4>1. ~NoLiveOrder(c)
        BY <1>2, <1>5 DEF NoLiveOrder, MayStillArrive
      <4>2. WaitsTooLong(c) => Late(s)
        BY <3>2 DEF WaitsTooLong, Holds
      <4> QED BY <1>2, <1>5, <3>1, <3>2, <4>1, <4>2 DEF Once, Accounted
    <3> QED BY <1>2, <3>3, <3>4, <3>5, <3>6, <3>7 DEF Once, Accounted
  <2> QED BY <1>2, <2>2, <2>3 DEF PerIntent
<1> QED BY <1>4, <1>5

(* A refusal is the only answer of its attempt, so nothing is left of it.    *)
LEMMA ReceiveReplyStep ==
    ASSUME IInv, TypeOK', NEW s \in Submitters, ReceiveReply(s), NEW c \in ClientIds
    PROVE  PerIntent(c)'
<1>1. PerIntent(c) /\ journal \in [ClientIds -> Row] /\ now \in Nat
      /\ call \in [Submitters -> CallState] /\ 1 \in Attempts
  BY StoreAssumption DEF IInv, TypeOK, Attempts
<1>2. PICK p \in replies :
        /\ call[s].pc = "awaiting" /\ p.cid = call[s].cid
        /\ replies' = replies \ {p}
        /\ \/ journal' = MarkSubmitted(journal, p.cid, p.attempt, FALSE, now)
           \/ journal' = MarkUnknown(journal, p.cid, now)
           \/ journal' = MarkFailed(journal, p.cid, now) /\ MissedIf(s, p.kind # "refused")
        /\ call' \in {[call EXCEPT ![s] = IdleCall],
                     [call EXCEPT ![s] = [IdleCall EXCEPT !.pc = "recovering", !.cid = p.cid]]}
        /\ unaccounted \subseteq unaccounted'
  BY DEF ReceiveReply, MissedIf
<1>3. p.cid \in ClientIds
  BY DEF IInv, TypeOK, Reply
<1>4. /\ Keeps(journal[c], journal'[c])
      /\ \/ StaysOpen(journal[c], journal'[c])
         \/ c = p.cid /\ MissedIf(s, p.kind # "refused")
  <2>1. CASE journal' = MarkSubmitted(journal, p.cid, p.attempt, FALSE, now)
    BY <1>1, <1>3, <2>1, MarkSubmittedKeeps
  <2>2. CASE journal' = MarkUnknown(journal, p.cid, now)
    BY <1>1, <1>3, <2>2, MarkUnknownKeeps
  <2>3. CASE journal' = MarkFailed(journal, p.cid, now) /\ MissedIf(s, p.kind # "refused")
    BY <1>1, <1>3, <2>3, MarkFailedKeeps DEF StaysOpen
  <2> QED BY <1>2, <2>1, <2>2, <2>3
<1>5. \/ journal'[c].status \notin Closed
      \/ journal'[c].status = journal[c].status
      \/ journal[c].attempts = 1 => Accounted(c) \/ c \in unaccounted'
  <2>1. ASSUME c = p.cid, MissedIf(s, p.kind # "refused"), journal[c].attempts = 1
        PROVE  Accounted(c) \/ c \in unaccounted'
    <3>1. OneAttempt(c)
      BY <1>1, <2>1 DEF PerIntent, Once
    <3>2. CASE p.kind # "refused"
      <4>1. call[s].attempt = 1
        BY <1>2, <2>1, <3>1 DEF OneAttempt, Holds
      <4> QED BY <1>2, <2>1, <3>2, <4>1 DEF MissedIf
    <3>3. CASE p.kind = "refused"
      <4>1. /\ orders[c][1] = "none"
            /\ \A q \in net : q.cid # c
            /\ \A t \in Submitters : ~(call[t].pc = "pacing" /\ call[t].cid = c)
            /\ \A k \in Attempts : k # 1 => orders[c][k] = "none"
        BY <2>1, <3>1, <3>3 DEF OneAttempt
      <4> QED BY <4>1 DEF Accounted, NoLiveOrder, OrdersIn, MayStillArrive
    <3> QED BY <3>2, <3>3
  <2> QED BY <1>4, <2>1 DEF StaysOpen
<1>6. \A t \in Submitters : call'[t].pc \in {"pacing", "awaiting"} => call'[t] = call[t]
  <2>1. CASE call' = [call EXCEPT ![s] = IdleCall]
    BY <1>1, <2>1 DEF IdleCall
  <2>2. CASE call' = [call EXCEPT ![s] = [IdleCall EXCEPT !.pc = "recovering", !.cid = p.cid]]
    BY <1>1, <2>2 DEF IdleCall
  <2> QED BY <1>2, <2>1, <2>2
<1>7. Shrinks(c)
  BY <1>2, <1>4, <1>5, <1>6 DEF ReceiveReply, Shrinks
<1> QED BY <1>1, <1>7, ShrinkingStep DEF IInv

(* When recovery closes a first attempt as absent, the age of the intent     *)
(* puts the search after the last moment a request that left in time could  *)
(* arrive.                                                                  *)
LEMMA AbsenceIsSound ==
    ASSUME IInv, NEW r \in Recoverers, rec[r].pc = "searching",
           journal[rec[r].cid].createdAt + AbsentMinAge <= now,
           "open_orders" \in rec[r].sources, journal[rec[r].cid].attempts = 1
    PROVE  Accounted(rec[r].cid)
<1> DEFINE c == rec[r].cid
<1> SUFFICES ASSUME c \notin unaccounted, ~WaitsTooLong(c) PROVE NoLiveOrder(c)
  BY DEF Accounted
<1>1. c \in ClientIds /\ Once(c)
  BY DEF IInv, Busy, PerIntent
<1>2. /\ now \in Nat /\ journal[c].createdAt \in Nat /\ rec[r].since \in Nat
      /\ FlightTime \in Nat /\ SearchTime \in Nat /\ AbsentMinAge \in Nat
      /\ \A s \in Submitters : call[s].since \in Nat
      /\ \A q \in net : q.sentAt \in Nat
  BY <1>1, JournalAssumption DEF IInv, TypeOK, Row, RecState, CallState, Request
<1>3. journal[c].createdAt + AbsentMinAge <= rec[r].since + SearchTime
  BY <1>2 DEF IInv, SearchesOnTime
<1>4. orders[c][1] # "open"
  BY <1>1, <1>3 DEF Once, SearchSound
<1>5. \A q \in net : q.cid # c
  <2>1. \A q \in net : q.cid = c =>
          /\ now <= q.sentAt + FlightTime
          /\ q.sentAt + FlightTime + SearchTime < journal[c].createdAt + AbsentMinAge
    BY <1>1 DEF Once, OnTime
  <2> QED BY <1>2, <2>1
<1>6. \A s \in Submitters : ~(call[s].pc = "pacing" /\ call[s].cid = c)
  <2>1. ASSUME NEW s \in Submitters, call[s].pc = "pacing", call[s].cid = c PROVE FALSE
    <3>1. call[s].since <= journal[c].createdAt
      BY <1>1, <2>1 DEF Once, OnTime
    <3>2. Late(s)
      BY <1>2, <3>1 DEF Late
    <3> QED BY <2>1, <3>2 DEF WaitsTooLong
  <2> QED BY <2>1
<1>7. \A k \in Attempts : orders[c][k] # "open"
  BY <1>1, <1>4 DEF Once, OneAttempt
<1> QED BY <1>5, <1>6, <1>7 DEF NoLiveOrder, OrdersIn, MayStillArrive

(* Recovery believes in absence only when nothing can still arrive, but for *)
(* the exceptions.                                                          *)
LEMMA RecoverySearchStep ==
    ASSUME IInv, TypeOK', NEW r \in Recoverers, RecoverySearch(r), NEW c \in ClientIds
    PROVE  PerIntent(c)' /\ SearchesOnTime'
<1> DEFINE d == rec[r].cid
<1>1. /\ PerIntent(c) /\ journal \in [ClientIds -> Row] /\ now \in Nat
      /\ rec \in [Recoverers -> RecState] /\ d \in ClientIds /\ 1 \in Attempts
      /\ rec[r].pc = "searching"
  <2>1. rec[r].pc = "searching"
    BY RecoverySearchEffect
  <2>2. 1 \in Attempts
    BY StoreAssumption DEF Attempts
  <2> QED BY <2>1, <2>2 DEF IInv, TypeOK, Busy
<1>2. \/ journal' = journal
      \/ \E k : journal' = MarkSubmitted(journal, d, k, TRUE, now)
      \/ /\ journal' = MarkReconciledAbsent(journal, d, now)
         /\ journal[d].attempts = 1 => Accounted(d)
  BY RecoverySearchEffect, AbsenceIsSound
<1>3. /\ Keeps(journal[c], journal'[c])
      /\ \/ StaysOpen(journal[c], journal'[c])
         \/ journal[c].attempts = 1 => Accounted(c)
  <2>1. CASE journal' = journal
    BY <2>1 DEF Keeps, StaysOpen
  <2>2. ASSUME NEW k, journal' = MarkSubmitted(journal, d, k, TRUE, now)
        PROVE  Keeps(journal[c], journal'[c]) /\ StaysOpen(journal[c], journal'[c])
    BY <1>1, <2>2, MarkSubmittedKeeps
  <2>3. ASSUME journal' = MarkReconciledAbsent(journal, d, now),
               journal[d].attempts = 1 => Accounted(d)
        PROVE  /\ Keeps(journal[c], journal'[c])
               /\ \/ StaysOpen(journal[c], journal'[c])
                  \/ journal[c].attempts = 1 => Accounted(c)
    BY <1>1, <2>3, MarkAbsentKeeps DEF StaysOpen
  <2> QED BY <1>2, <2>1, <2>2, <2>3
<1>5. \A t \in Recoverers :
        /\ rec'[t].pc = "searching" =>
              /\ rec[t].pc = "searching" /\ rec'[t].cid = rec[t].cid /\ rec'[t].since = rec[t].since
        /\ \/ "open_orders" \in rec'[t].sources => "open_orders" \in rec[t].sources
           \/ OrdersIn(rec[t].cid, {"open"}) = {}
  <2>1. CASE rec' = [rec EXCEPT ![r] = Settled(r)]
    BY <1>1, <2>1 DEF Settled, IdleRec
  <2>2. ASSUME NEW sources,
               rec' = [rec EXCEPT ![r] = [@ EXCEPT !.stage = NextStage(rec[r].stage), !.sources = sources]],
               \/ "open_orders" \in sources => "open_orders" \in rec[r].sources
               \/ OrdersIn(rec[r].cid, {"open"}) = {}
        PROVE  <1>5
    BY <1>1, <2>2 DEF RecState
  <2> QED BY <2>1, <2>2, RecoverySearchEffect
<1>6. OrdersIn(c, {"open"}) = {} => orders[c][1] # "open"
  BY <1>1 DEF OrdersIn
<1>7. Shrinks(c)
  BY <1>3, <1>5, <1>6, RecoverySearchEffect DEF Shrinks, StaysOpen
<1>8. SearchesOnTime'
  BY <1>5, RecoverySearchEffect DEF IInv, SearchesOnTime
<1> QED BY <1>1, <1>7, <1>8, ShrinkingStep DEF IInv

(* The initial state satisfies the inductive invariant. *)
LEMMA IInvInit == Init => IInv
<1> SUFFICES ASSUME Init PROVE IInv
  OBVIOUS
<1>1. TypeOK /\ Busy
  BY TypeInit
<1>2. SearchesOnTime /\ CancelsOrders
  BY DEF Init, SearchesOnTime, CancelsOrders, IdleRec, IdleCancel
<1>3. ASSUME NEW c \in ClientIds PROVE PerIntent(c)
  <2>1. Untouched(c) /\ ~MayStillArrive(c) /\ OrdersIn(c, {"open"}) = {}
    BY DEF Init, Untouched, Holds, IdleCall, MayStillArrive, OrdersIn
  <2>2. \/ journal[c].status = "none" /\ journal[c].attempts = 0
        \/ journal[c].status = "unknown" /\ journal[c].attempts = 1
    BY DEF Init, LegacyRejection, EmptyRow
  <2>3. RowShape(c)
    BY <2>1, <2>2 DEF RowShape, Missing
  <2>4. OneAttempt(c)
    BY <2>1 DEF OneAttempt, Untouched, Holds
  <2>5. OnTime(c) /\ SearchSound(c)
    BY <2>1 DEF OnTime, SearchSound, Untouched, Holds, Init, IdleRec
  <2> QED BY <2>1, <2>2, <2>3, <2>4, <2>5 DEF PerIntent, Once, Accounted, NoLiveOrder
<1> QED BY <1>1, <1>2, <1>3 DEF IInv

(* No step makes an order that exists disappear, so what is being cancelled  *)
(* goes on to exist.                                                         *)
LEMMA CancelsOrdersStep ==
    ASSUME TypeOK, Busy, CancelsOrders, [Next]_vars
    PROVE  CancelsOrders'
<1> USE DEF TypeOK, CancelsOrders
<1>1. ASSUME NEW q \in net, Arrive(q) PROVE CancelsOrders'
  <2>1. \/ orders' = orders
        \/ orders' = [orders EXCEPT ![q.cid][q.attempt] = "open"]
    BY <1>1 DEF Arrive
  <2>2. \A c \in ClientIds, k \in Attempts : orders[c][k] # "none" => orders'[c][k] # "none"
    BY <2>1
  <2> QED BY <1>1, <2>2 DEF Arrive, Busy
<1>2. ASSUME NEW c \in ClientIds, NEW k \in Attempts, CloseOrder(c, k) PROVE CancelsOrders'
  BY <1>2 DEF CloseOrder, Busy
<1>3. ASSUME NEW x \in Cancelers, NEW c \in ClientIds, NEW k \in Attempts, BeginCancel(x, c, k)
      PROVE  CancelsOrders'
  BY <1>3 DEF BeginCancel
<1>4. ASSUME NEW x \in Cancelers, CancelRequest(x) PROVE CancelsOrders'
  <2>1. \A c \in ClientIds, k \in Attempts : orders[c][k] # "none" => orders'[c][k] # "none"
    BY <1>4 DEF CancelRequest
  <2>2. \A y \in Cancelers : /\ cancel'[y].cid = cancel[y].cid
                             /\ cancel'[y].attempt = cancel[y].attempt
                             /\ cancel'[y].pc # "idle" => cancel[y].pc # "idle"
    BY <1>4 DEF CancelRequest, CancelState
  <2> QED BY <2>1, <2>2 DEF Busy
<1>5. ASSUME NEW x \in Cancelers, ConfirmCanceled(x) PROVE CancelsOrders'
  BY <1>5 DEF ConfirmCanceled, IdleCancel
<1>6. ASSUME NEW x \in Cancelers, CancelUnconfirmed(x) PROVE CancelsOrders'
  <2>1. cancel'[x].pc # "idle" => /\ cancel'[x].cid = cancel[x].cid
                                  /\ cancel'[x].attempt = cancel[x].attempt
    <3>1. CASE cancel' = [cancel EXCEPT ![x] = IdleCancel]
      BY <3>1 DEF IdleCancel
    <3>2. CASE cancel' = [cancel EXCEPT ![x] = [cancel[x] EXCEPT !.pc = "recheck"]]
      BY <3>2 DEF CancelState
    <3>3. CASE cancel' = [cancel EXCEPT ![x] =
                            [cancel[x] EXCEPT !.pc = "request", !.tries = cancel[x].tries + 1]]
      BY <3>3 DEF CancelState
    <3> QED BY <1>6, <3>1, <3>2, <3>3 DEF CancelUnconfirmed
  <2> QED BY <1>6, <2>1 DEF CancelUnconfirmed
<1>7. ASSUME Crash PROVE CancelsOrders'
  BY <1>7 DEF Crash, IdleCancel
<1>8. ASSUME UNCHANGED <<orders, cancel>> PROVE CancelsOrders'
  BY <1>8
<1>9. ASSUME NEW s \in Submitters,
             \/ \E c \in ClientIds : BeginCall(s, c)
             \/ SendRequest(s) \/ ReceiveReply(s) \/ RequestError(s)
             \/ CallSearch(s) \/ CancelCall(s)
      PROVE  CancelsOrders'
  <2>1. UNCHANGED <<orders, cancel>>
    BY <1>9, CallSearchEffect DEF BeginCall, SendRequest, ReceiveReply, RequestError, CancelCall
  <2> QED BY <1>8, <2>1
<1>10. ASSUME NEW r \in Recoverers,
              \/ \E scope \in Scopes : BeginRecovery(r, scope)
              \/ \E c \in ClientIds : NextIntent(r, c)
              \/ EndRecovery(r) \/ RecoverySearch(r)
       PROVE  CancelsOrders'
  <2>1. UNCHANGED <<orders, cancel>>
    BY <1>10, RecoverySearchEffect DEF BeginRecovery, NextIntent, EndRecovery
  <2> QED BY <1>8, <2>1
<1>11. ASSUME (\E q \in net : Lose(q)) \/ Tick \/ Maintenance \/ UNCHANGED vars PROVE CancelsOrders'
  BY <1>8, <1>11 DEF Lose, Tick, Maintenance, vars
<1> QED
  BY <1>1, <1>2, <1>3, <1>4, <1>5, <1>6, <1>7, <1>9, <1>10, <1>11 DEF Next
-----------------------------------------------------------------------------
(* Every step keeps the inductive invariant. *)
LEMMA IInvStep ==
    ASSUME IInv, [Next]_vars
    PROVE  IInv'
<1> DEFINE Goal == SearchesOnTime' /\ \A c \in ClientIds : PerIntent(c)'
<1>0. TypeOK' /\ Busy' /\ CancelsOrders'
  BY TypeStep, CancelsOrdersStep DEF IInv
<1>t. /\ TypeOK /\ \A c \in ClientIds : PerIntent(c)
      /\ journal \in [ClientIds -> Row] /\ now \in Nat
      /\ call \in [Submitters -> CallState]
  BY DEF IInv, TypeOK
<1>s. ASSUME \A c \in ClientIds : Shrinks(c) PROVE \A c \in ClientIds : PerIntent(c)'
  BY <1>0, <1>t, <1>s, ShrinkingStep
<1>u. ASSUME rec' = rec, now' = now PROVE SearchesOnTime'
  BY <1>u DEF IInv, SearchesOnTime
<1>1. ASSUME NEW q \in net, Arrive(q) PROVE Goal
  BY <1>0, <1>1, <1>u, ArriveStep DEF Arrive
<1>2. ASSUME NEW q \in net, Lose(q) PROVE Goal
  <2>1. \A c \in ClientIds : Shrinks(c)
    BY <1>2 DEF Lose, Shrinks, Keeps
  <2> QED BY <1>2, <1>s, <1>u, <2>1 DEF Lose
<1>3. ASSUME NEW d \in ClientIds, NEW k \in Attempts, CloseOrder(d, k) PROVE Goal
  <2>1. \A c \in ClientIds : Shrinks(c)
    BY <1>3 DEF CloseOrder, Shrinks, Keeps, IInv, TypeOK
  <2> QED BY <1>3, <1>s, <1>u, <2>1 DEF CloseOrder
<1>4. ASSUME Tick PROVE Goal
  <2>1. now \in Nat /\ SearchTime \in Nat /\ \A r \in Recoverers : rec[r].since \in Nat
    BY JournalAssumption DEF IInv, TypeOK, RecState
  <2>2. SearchesOnTime'
    BY <1>4, <2>1 DEF IInv, SearchesOnTime, Tick
  <2> QED BY <1>0, <1>4, <2>2, TickStep
<1>5. ASSUME NEW s \in Submitters, NEW d \in ClientIds, BeginCall(s, d) PROVE Goal
  BY <1>0, <1>5, <1>u, BeginCallStep DEF BeginCall
<1>6. ASSUME NEW s \in Submitters, SendRequest(s) PROVE Goal
  BY <1>0, <1>6, <1>u, SendRequestStep DEF SendRequest
<1>7. ASSUME NEW s \in Submitters, ReceiveReply(s) PROVE Goal
  BY <1>0, <1>7, <1>u, ReceiveReplyStep DEF ReceiveReply
<1>8. ASSUME NEW s \in Submitters, RequestError(s) PROVE Goal
  <2>1. call[s].cid \in ClientIds
    BY <1>8 DEF RequestError, IInv, Busy
  <2>2. \A c \in ClientIds : Keeps(journal[c], journal'[c]) /\ StaysOpen(journal[c], journal'[c])
    BY <1>8, <1>t, <2>1, MarkUnknownKeeps DEF RequestError
  <2>3. \A t \in Submitters : call'[t].pc \in {"pacing", "awaiting"} => call'[t] = call[t]
    BY <1>8, <1>t DEF RequestError, IdleCall
  <2>4. \A c \in ClientIds : Shrinks(c)
    BY <1>8, <2>2, <2>3 DEF RequestError, Shrinks, StaysOpen
  <2> QED BY <1>8, <1>s, <1>u, <2>4 DEF RequestError
<1>9. ASSUME NEW s \in Submitters, CallSearch(s) PROVE Goal
  <2>1. call[s].pc = "recovering" /\ call[s].cid \in ClientIds
    BY <1>9, CallSearchEffect DEF IInv, Busy
  <2>2. \A c \in ClientIds : Keeps(journal[c], journal'[c]) /\ StaysOpen(journal[c], journal'[c])
    <3>1. CASE journal' = journal
      BY <3>1 DEF Keeps, StaysOpen
    <3>2. ASSUME NEW k, journal' = MarkSubmitted(journal, call[s].cid, k, TRUE, now)
          PROVE  \A c \in ClientIds : /\ Keeps(journal[c], journal'[c])
                                      /\ StaysOpen(journal[c], journal'[c])
      BY <1>t, <2>1, <3>2, MarkSubmittedKeeps
    <3> QED BY <1>9, <3>1, <3>2, CallSearchEffect
  <2>3. \A t \in Submitters : call'[t].pc \in {"pacing", "awaiting"} => call'[t] = call[t]
    <3>1. CASE call' = [call EXCEPT ![s] = IdleCall]
      BY <1>t, <3>1 DEF IdleCall
    <3>2. CASE call' = [call EXCEPT ![s] = [call[s] EXCEPT !.stage = NextStage(call[s].stage)]]
      BY <1>t, <2>1, <3>2 DEF CallState
    <3> QED BY <1>9, <3>1, <3>2, CallSearchEffect
  <2>4. UNCHANGED <<orders, net, replies, rec, now, unaccounted>>
    BY <1>9, CallSearchEffect
  <2>5. \A c \in ClientIds : Shrinks(c)
    BY <2>2, <2>3, <2>4 DEF Shrinks, StaysOpen
  <2> QED BY <1>s, <1>u, <2>4, <2>5
<1>10. ASSUME NEW s \in Submitters, CancelCall(s) PROVE Goal
  <2>1. \A t \in Submitters : call'[t].pc \in {"pacing", "awaiting"} => call'[t] = call[t]
    BY <1>10, <1>t DEF CancelCall, IdleCall
  <2>2. \A c \in ClientIds : Shrinks(c)
    BY <1>10, <2>1 DEF CancelCall, Shrinks, Keeps
  <2> QED BY <1>10, <1>s, <1>u, <2>2 DEF CancelCall
<1>11. ASSUME NEW r \in Recoverers, NEW scope \in Scopes, BeginRecovery(r, scope) PROVE Goal
  <2>1. PICK rows : journal' = ReclassifyConfirmedRejections(journal, rows, now)
    BY <1>11 DEF BeginRecovery
  <2>2. ASSUME NEW c \in ClientIds PROVE Keeps(journal[c], journal'[c])
                                         /\ (journal'[c] = journal[c] \/ journal[c].rejected)
    BY <1>t, <2>1, ReclassifyKeepsRows
  <2>3. ASSUME NEW c \in ClientIds, journal[c].rejected, journal[c].attempts = 1
        PROVE  Accounted(c)
    <3>1. Untouched(c)
      BY <1>t, <2>3 DEF PerIntent, Once
    <3> QED BY <3>1 DEF Untouched, Accounted, NoLiveOrder, OrdersIn, MayStillArrive, Holds
  <2>4. \A t \in Recoverers : rec'[t].pc = "searching" => rec'[t] = rec[t]
    BY <1>11 DEF BeginRecovery, IdleRec, IInv, TypeOK
  <2>5. \A c \in ClientIds : Shrinks(c)
    BY <1>11, <2>2, <2>3, <2>4 DEF BeginRecovery, Shrinks
  <2>6. SearchesOnTime'
    BY <1>11, <2>4 DEF BeginRecovery, IInv, SearchesOnTime
  <2> QED BY <1>s, <2>5, <2>6
<1>12. ASSUME NEW r \in Recoverers, NEW d \in ClientIds, NextIntent(r, d) PROVE Goal
  <2>1. /\ rec'[r].pc = "searching" => rec'[r].sources = {} /\ rec'[r].since = now
        /\ \A t \in Recoverers : t # r => rec'[t] = rec[t]
    BY <1>12 DEF NextIntent, IInv, TypeOK, RecState
  <2>2. \A c \in ClientIds : Shrinks(c)
    BY <1>12, <2>1 DEF NextIntent, Shrinks, Keeps
  <2>3. now <= now + SearchTime
    BY <1>t, JournalAssumption
  <2>4. SearchesOnTime'
    <3>1. now' = now /\ now <= now
      BY <1>12, <1>t DEF NextIntent
    <3>2. \A t \in Recoverers : rec[t].pc = "searching" =>
              rec[t].since <= now /\ now <= rec[t].since + SearchTime
      BY DEF IInv, SearchesOnTime
    <3> QED BY <2>1, <2>3, <3>1, <3>2 DEF SearchesOnTime
  <2> QED BY <1>s, <2>2, <2>4
<1>13. ASSUME NEW r \in Recoverers, EndRecovery(r) PROVE Goal
  <2>1. \A t \in Recoverers : rec'[t].pc = "searching" => rec'[t] = rec[t]
    BY <1>13 DEF EndRecovery, IdleRec, IInv, TypeOK
  <2>2. \A c \in ClientIds : Shrinks(c)
    BY <1>13, <2>1 DEF EndRecovery, Shrinks, Keeps
  <2>3. SearchesOnTime'
    BY <1>13, <2>1 DEF EndRecovery, IInv, SearchesOnTime
  <2> QED BY <1>s, <2>2, <2>3
<1>14. ASSUME NEW r \in Recoverers, RecoverySearch(r) PROVE Goal
  <2>1. \A c \in ClientIds : PerIntent(c)' /\ SearchesOnTime'
    BY <1>0, <1>14, RecoverySearchStep
  <2>2. SearchesOnTime'
    BY <2>1, RecoverySearchEffect, <1>14 DEF IInv, Busy
  <2> QED BY <2>1, <2>2
<1>15. ASSUME NEW x \in Cancelers, NEW d \in ClientIds, NEW k \in Attempts, BeginCancel(x, d, k)
       PROVE  Goal
  <2>1. \A c \in ClientIds : Shrinks(c)
    BY <1>15 DEF BeginCancel, Shrinks, Keeps
  <2> QED BY <1>15, <1>s, <1>u, <2>1 DEF BeginCancel
<1>16. ASSUME NEW x \in Cancelers, CancelRequest(x) PROVE Goal
  <2>1. orders[cancel[x].cid][cancel[x].attempt] # "none"
    BY <1>16 DEF CancelRequest, IInv, CancelsOrders
  <2>2. \A c \in ClientIds, k \in Attempts :
            /\ orders'[c][k] = "none" <=> orders[c][k] = "none"
            /\ orders'[c][k] = "open" => orders[c][k] = "open"
    BY <1>16, <2>1 DEF CancelRequest, IInv, TypeOK
  <2>3. \A c \in ClientIds : Shrinks(c)
    BY <1>16, <2>2 DEF CancelRequest, Shrinks, Keeps
  <2> QED BY <1>16, <1>s, <1>u, <2>3 DEF CancelRequest
<1>17. ASSUME NEW x \in Cancelers, ConfirmCanceled(x) PROVE Goal
  <2>1. cancel[x].cid \in ClientIds
    BY <1>17 DEF ConfirmCanceled, IInv, Busy
  <2>2. \A c \in ClientIds : Keeps(journal[c], journal'[c]) /\ StaysOpen(journal[c], journal'[c])
    BY <1>17, <1>t, <2>1, MarkCanceledKeeps DEF ConfirmCanceled
  <2>3. \A c \in ClientIds : Shrinks(c)
    BY <1>17, <2>2 DEF ConfirmCanceled, Shrinks, StaysOpen
  <2> QED BY <1>17, <1>s, <1>u, <2>3 DEF ConfirmCanceled
<1>18. ASSUME NEW x \in Cancelers, CancelUnconfirmed(x) PROVE Goal
  <2>1. \A c \in ClientIds : Shrinks(c)
    BY <1>18 DEF CancelUnconfirmed, Shrinks, Keeps
  <2> QED BY <1>18, <1>s, <1>u, <2>1 DEF CancelUnconfirmed
<1>19. ASSUME Maintenance PROVE Goal
  <2>1. ASSUME NEW c \in ClientIds PROVE PerIntent(c)'
    <3>1. journal'[c] = journal[c] \/ journal'[c] = CompactedRow
      BY <1>19, <1>t, CompactionEffect DEF Maintenance, Compact
    <3>2. CASE journal'[c] = journal[c]
      <4>1. Shrinks(c)
        BY <1>19, <3>2 DEF Maintenance, Shrinks, Keeps
      <4> QED BY <1>0, <1>t, <4>1, ShrinkingStep
    <3> QED BY <3>1, <3>2, CompactedIntent
  <2> QED BY <1>19, <1>u, <2>1 DEF Maintenance
<1>20. ASSUME Crash PROVE Goal
  <2>1. \A c \in ClientIds : Shrinks(c)
    BY <1>20 DEF Crash, Shrinks, Keeps, IdleCall, IdleRec
  <2>2. SearchesOnTime'
    BY <1>20 DEF Crash, IdleRec, SearchesOnTime
  <2> QED BY <1>s, <2>1, <2>2
<1>21. ASSUME UNCHANGED vars PROVE Goal
  <2>1. \A c \in ClientIds : Shrinks(c)
    BY <1>21 DEF vars, Shrinks, Keeps
  <2> QED BY <1>21, <1>s, <1>u, <2>1 DEF vars
<1>22. Goal
  BY <1>1, <1>2, <1>3, <1>4, <1>5, <1>6, <1>7, <1>8, <1>9, <1>10, <1>11, <1>12, <1>13, <1>14,
     <1>15, <1>16, <1>17, <1>18, <1>19, <1>20, <1>21 DEF Next
<1> QED BY <1>0, <1>22 DEF IInv

(* Whatever crashes, lost requests and cancelled calls do, an intent that    *)
(* was attempted once is closed as failed or absent only when no order of it *)
(* is live, except for an acceptance that was reported as a terminal error   *)
(* and a request that the pacer held until too late for the age check.       *)
THEOREM FirstAttempt == Spec => []FirstAttemptAccounted
<1>1. IInv /\ [Next]_vars => IInv'
  BY IInvStep
<1>2. IInv => FirstAttemptAccounted
  BY DEF IInv, PerIntent, Once, Accounted, FirstAttemptAccounted, Closed
<1> QED BY IInvInit, <1>1, <1>2, PTL DEF Spec
-----------------------------------------------------------------------------
(* What is pending stays in the journal.                                    *)

(* An operation other than compaction keeps a row of an uncertain intent. *)
LEMMA PendingKept ==
    ASSUME NEW row \in Row, NEW new \in Row, Keeps(row, new), row.status \in Pending
    PROVE  new.status \notin Missing
BY DEF Keeps, Pending, Missing

(* No step drops an uncertain row. *)
LEMMA NeverDroppedStep ==
    ASSUME TypeOK, TypeOK', Busy, [Next]_vars, NEW c \in ClientIds, journal[c].status \in Pending
    PROVE  journal'[c].status \notin Missing
<1>0. /\ journal \in [ClientIds -> Row] /\ journal' \in [ClientIds -> Row] /\ now \in Nat
      /\ journal[c] \in Row /\ journal'[c] \in Row
  BY DEF TypeOK
<1>1. ASSUME Keeps(journal[c], journal'[c]) PROVE journal'[c].status \notin Missing
  BY <1>0, <1>1, PendingKept
<1>2. CASE journal' = journal
  BY <1>2 DEF Pending, Missing
<1>3. ASSUME NEW s \in Submitters, NEW d \in ClientIds, BeginCall(s, d)
      PROVE  journal'[c].status \notin Missing
  <2> DEFINE J == [journal EXCEPT ![d] = Reserve(journal[d], now)]
  <2>1. CASE /\ journal[d].attempts < MaxAttempts
             /\ journal' = J \/ journal' \in Compactions(J, now)
    <3>1. J \in [ClientIds -> Row] /\ J[c].status \in Pending
      BY <1>0, <2>1, ReserveType DEF Reserve, EmptyRow, Row, Pending
    <3>2. journal'[c] = J[c]
      <4>1. J[c].status \notin Terminal
        BY <3>1 DEF Pending, Terminal
      <4> QED BY <1>0, <2>1, <3>1, <4>1, CompactionEffect
    <3> QED BY <3>1, <3>2 DEF Pending, Missing
  <2> QED BY <1>2, <1>3, <2>1 DEF BeginCall
<1>4. ASSUME NEW s \in Submitters, ReceiveReply(s) PROVE journal'[c].status \notin Missing
  <2>1. PICK p \in replies : journal' \in {MarkSubmitted(journal, p.cid, p.attempt, FALSE, now),
                                          MarkUnknown(journal, p.cid, now),
                                          MarkFailed(journal, p.cid, now)}
    BY <1>4 DEF ReceiveReply
  <2>2. p.cid \in ClientIds
    BY DEF TypeOK, Reply
  <2>3. /\ Keeps(journal[c], MarkSubmitted(journal, p.cid, p.attempt, FALSE, now)[c])
        /\ Keeps(journal[c], MarkUnknown(journal, p.cid, now)[c])
        /\ Keeps(journal[c], MarkFailed(journal, p.cid, now)[c])
    BY <1>0, <2>2, MarkSubmittedKeeps, MarkUnknownKeeps, MarkFailedKeeps
  <2> QED BY <1>1, <2>1, <2>3
<1>5. ASSUME NEW s \in Submitters, RequestError(s) PROVE journal'[c].status \notin Missing
  BY <1>0, <1>1, <1>5, MarkUnknownKeeps DEF RequestError, Busy
<1>6. ASSUME NEW s \in Submitters, CallSearch(s) PROVE journal'[c].status \notin Missing
  <2>1. call[s].cid \in ClientIds
    BY <1>6, CallSearchEffect DEF Busy
  <2>2. journal' = journal \/ \E k : journal' = MarkSubmitted(journal, call[s].cid, k, TRUE, now)
    BY <1>6, CallSearchEffect
  <2> QED BY <1>0, <1>1, <1>2, <2>1, <2>2, MarkSubmittedKeeps
<1>7. ASSUME NEW r \in Recoverers, NEW scope \in Scopes, BeginRecovery(r, scope)
      PROVE  journal'[c].status \notin Missing
  BY <1>0, <1>1, <1>7, ReclassifyKeepsRows DEF BeginRecovery
<1>8. ASSUME NEW r \in Recoverers, RecoverySearch(r) PROVE journal'[c].status \notin Missing
  <2>1. rec[r].cid \in ClientIds
    BY <1>8, RecoverySearchEffect DEF Busy
  <2>2. \/ journal' = journal
        \/ \E k : journal' = MarkSubmitted(journal, rec[r].cid, k, TRUE, now)
        \/ journal' = MarkReconciledAbsent(journal, rec[r].cid, now)
    BY <1>8, RecoverySearchEffect
  <2>3. /\ \A k : Keeps(journal[c], MarkSubmitted(journal, rec[r].cid, k, TRUE, now)[c])
        /\ Keeps(journal[c], MarkReconciledAbsent(journal, rec[r].cid, now)[c])
    BY <1>0, <2>1, MarkSubmittedKeeps, MarkAbsentKeeps
  <2> QED BY <1>1, <1>2, <2>2, <2>3
<1>9. ASSUME NEW x \in Cancelers, ConfirmCanceled(x) PROVE journal'[c].status \notin Missing
  BY <1>0, <1>1, <1>9, MarkCanceledKeeps DEF ConfirmCanceled, Busy
<1>10. ASSUME Maintenance PROVE journal'[c].status \notin Missing
  <2>1. journal'[c] = journal[c]
    BY <1>0, <1>10, CompactionEffect DEF Maintenance, Compact, Pending, Terminal
  <2> QED BY <2>1 DEF Pending, Missing
<1>11. ASSUME \/ \E q \in net : Arrive(q) \/ Lose(q)
              \/ \E d \in ClientIds, k \in Attempts : CloseOrder(d, k)
              \/ \E s \in Submitters : SendRequest(s) \/ CancelCall(s)
              \/ \E r \in Recoverers : EndRecovery(r) \/ \E d \in ClientIds : NextIntent(r, d)
              \/ \E x \in Cancelers : \/ CancelRequest(x) \/ CancelUnconfirmed(x)
                                      \/ \E d \in ClientIds, k \in Attempts : BeginCancel(x, d, k)
              \/ Tick \/ Crash \/ UNCHANGED vars
       PROVE  journal'[c].status \notin Missing
  <2>1. journal' = journal
    <3>1. ASSUME NEW q \in net, Arrive(q) \/ Lose(q) PROVE journal' = journal
      BY <3>1 DEF Arrive, Lose
    <3>2. ASSUME NEW d \in ClientIds, NEW k \in Attempts, CloseOrder(d, k) PROVE journal' = journal
      BY <3>2 DEF CloseOrder
    <3>3. ASSUME NEW s \in Submitters, SendRequest(s) \/ CancelCall(s) PROVE journal' = journal
      BY <3>3 DEF SendRequest, CancelCall
    <3>4. ASSUME NEW r \in Recoverers, EndRecovery(r) \/ \E d \in ClientIds : NextIntent(r, d)
          PROVE  journal' = journal
      BY <3>4 DEF EndRecovery, NextIntent
    <3>5. ASSUME NEW x \in Cancelers,
                 \/ CancelRequest(x) \/ CancelUnconfirmed(x)
                 \/ \E d \in ClientIds, k \in Attempts : BeginCancel(x, d, k)
          PROVE  journal' = journal
      BY <3>5 DEF CancelRequest, CancelUnconfirmed, BeginCancel
    <3>6. ASSUME Tick \/ Crash \/ UNCHANGED vars PROVE journal' = journal
      BY <3>6 DEF Tick, Crash, vars
    <3> QED BY <1>11, <3>1, <3>2, <3>3, <3>4, <3>5, <3>6
  <2> QED BY <1>2, <2>1
<1> QED
  BY <1>3, <1>4, <1>5, <1>6, <1>7, <1>8, <1>9, <1>10, <1>11 DEF Next

(* No step of the program removes a row whose outcome is open: not the       *)
(* compaction inside reserve, not the maintenance timer.                     *)
THEOREM NeverDropped == Spec => UncertainNeverDropped
<1>1. TypeOK /\ Busy /\ [Next]_vars
         => [\A c \in ClientIds :
               journal[c].status \in Pending => journal'[c].status \notin Missing]_vars
  BY TypeStep, NeverDroppedStep
<1> QED BY TypeInit, TypeStep, <1>1, PTL DEF Spec, UncertainNeverDropped
-----------------------------------------------------------------------------
(* How much can be uncertain at once.                                       *)

Doubtful(row) == row.status = "unknown" /\ ~row.rejected
Held(c) == \E s \in Submitters : Holds(s, c)
Loose(c) == Doubtful(journal[c]) \/ Held(c)
LooseIn(m) == {c \in InMarkets({m}) : Loose(c)}

(* The inductive form of BoundedUncertainty. *)
Bounded ==
    \A m \in Markets :
        IsFiniteSet(LooseIn(m)) /\ Cardinality(LooseIn(m)) <= Cardinality(Submitters)

(* An operation that does not put its row in doubt. *)
Assures(row, new) == Doubtful(new) => Doubtful(row)

(* Of the operations of the store only mark_unknown puts a row in doubt.    *)
LEMMA OthersAssure ==
    ASSUME NEW J \in [ClientIds -> Row], NEW c \in ClientIds, NEW d \in ClientIds,
           NEW k, NEW recovered, NEW t
    PROVE  /\ Assures(J[d], MarkSubmitted(J, c, k, recovered, t)[d])
           /\ Assures(J[d], MarkFailed(J, c, t)[d])
           /\ Assures(J[d], MarkReconciledAbsent(J, c, t)[d])
           /\ Assures(J[d], MarkCanceledByOrderId(J, c, k, t)[d])
           /\ d # c => Assures(J[d], MarkUnknown(J, c, t)[d])
<1>1. Assures(J[d], MarkSubmitted(J, c, k, recovered, t)[d])
  BY DEF MarkSubmitted, Update, Assures, Doubtful, Row
<1>2. Assures(J[d], MarkFailed(J, c, t)[d])
  BY DEF MarkFailed, Update, Assures, Doubtful, Row
<1>3. Assures(J[d], MarkReconciledAbsent(J, c, t)[d])
  BY DEF MarkReconciledAbsent, Assures, Doubtful, Row
<1>4. Assures(J[d], MarkCanceledByOrderId(J, c, k, t)[d])
  BY DEF MarkCanceledByOrderId, Assures, Doubtful, Row
<1>5. d # c => Assures(J[d], MarkUnknown(J, c, t)[d])
  BY DEF MarkUnknown, Update, Assures, Doubtful
<1> QED BY <1>1, <1>2, <1>3, <1>4, <1>5

LEMMA ReclassifyAssures ==
    ASSUME NEW J \in [ClientIds -> Row], NEW rows, NEW t, NEW d \in ClientIds
    PROVE  Assures(J[d], ReclassifyConfirmedRejections(J, rows, t)[d])
BY DEF ReclassifyConfirmedRejections, Assures, Doubtful, Row

LEMMA CompactionAssures ==
    ASSUME NEW J \in [ClientIds -> Row], NEW t \in Nat, NEW K \in Compactions(J, t),
           NEW d \in ClientIds
    PROVE  Assures(J[d], K[d])
BY CompactionEffect DEF CompactedRow, EmptyRow, Assures, Doubtful

(* No step but the beginning of a call makes an intent uncertain.           *)
NoneTaken == \A s \in Submitters, c \in ClientIds : Holds(s, c)' => Holds(s, c)

Settling == \A c \in ClientIds : Loose(c)' => Loose(c)

LEMMA QuietStep ==
    ASSUME NoneTaken, \A c \in ClientIds : Assures(journal[c], journal'[c]) \/ Held(c)
    PROVE  Settling
BY DEF NoneTaken, Assures, Settling, Loose, Held

LEMMA SameJournal == ASSUME journal' = journal, NoneTaken PROVE Settling
BY QuietStep DEF Assures

LEMMA SubmitterStep ==
    ASSUME TypeOK, Busy, NEW s \in Submitters,
           SendRequest(s) \/ ReceiveReply(s) \/ RequestError(s) \/ CallSearch(s) \/ CancelCall(s)
    PROVE  Settling
<1>0. journal \in [ClientIds -> Row] /\ call \in [Submitters -> CallState]
  BY DEF TypeOK
<1>1. NoneTaken
  <2>1. \A t \in Submitters \ {s} : call'[t] = call[t]
    BY <1>0 DEF SendRequest, ReceiveReply, RequestError, CallSearch, CancelCall
  <2>2. /\ call'[s].pc \in {"pacing", "awaiting"} => call'[s].cid = call[s].cid
        /\ call'[s].pc \in {"pacing", "awaiting"} => call[s].pc \in {"pacing", "awaiting"}
    <3>1. CASE SendRequest(s)
      BY <1>0, <3>1 DEF SendRequest, CallState
    <3>2. CASE ReceiveReply(s) \/ RequestError(s) \/ CancelCall(s)
      <4>1. \/ call'[s] = IdleCall
            \/ \E c : call'[s] = [IdleCall EXCEPT !.pc = "recovering", !.cid = c]
        BY <1>0, <3>2 DEF ReceiveReply, RequestError, CancelCall
      <4>2. IdleCall.pc = "idle"
        BY DEF IdleCall
      <4>3. \A c : [IdleCall EXCEPT !.pc = "recovering", !.cid = c].pc = "recovering"
        BY DEF IdleCall
      <4> QED BY <4>1, <4>2, <4>3
    <3>3. CASE CallSearch(s)
      <4>1. \/ call'[s] = IdleCall
            \/ call'[s] = [call[s] EXCEPT !.stage = NextStage(call[s].stage)]
        BY <1>0, <3>3, CallSearchEffect
      <4>2. call[s] \in CallState /\ call[s].pc = "recovering"
        BY <1>0, <3>3, CallSearchEffect
      <4>3. call'[s].pc \in {"idle", "recovering"}
        BY <4>1, <4>2 DEF IdleCall, CallState
      <4> QED BY <4>3
    <3> QED BY <3>1, <3>2, <3>3
  <2> QED BY <2>1, <2>2 DEF NoneTaken, Holds
<1>2. ASSUME NEW c \in ClientIds PROVE Assures(journal[c], journal'[c]) \/ Held(c)
  <2>1. CASE SendRequest(s) \/ CancelCall(s)
    BY <2>1 DEF SendRequest, CancelCall, Assures
  <2>2. CASE ReceiveReply(s)
    <3>1. PICK p \in replies :
              /\ call[s].pc = "awaiting" /\ p.cid = call[s].cid
              /\ journal' \in {MarkSubmitted(journal, p.cid, p.attempt, FALSE, now),
                               MarkUnknown(journal, p.cid, now), MarkFailed(journal, p.cid, now)}
      BY <2>2 DEF ReceiveReply
    <3>2. p.cid \in ClientIds /\ Holds(s, p.cid)
      BY <3>1 DEF TypeOK, Reply, Holds
    <3>3. CASE c = p.cid
      BY <3>2, <3>3 DEF Held
    <3>4. CASE c # p.cid
      <4>1. /\ Assures(journal[c], MarkSubmitted(journal, p.cid, p.attempt, FALSE, now)[c])
            /\ Assures(journal[c], MarkUnknown(journal, p.cid, now)[c])
            /\ Assures(journal[c], MarkFailed(journal, p.cid, now)[c])
        BY <1>0, <3>2, <3>4, OthersAssure
      <4> QED BY <3>1, <4>1
    <3> QED BY <3>3, <3>4
  <2>3. CASE RequestError(s)
    <3>1. call[s].cid \in ClientIds /\ Holds(s, call[s].cid)
      BY <2>3 DEF RequestError, Busy, Holds
    <3>2. CASE c = call[s].cid
      BY <3>1, <3>2 DEF Held
    <3>3. CASE c # call[s].cid
      BY <1>0, <2>3, <3>1, <3>3, OthersAssure DEF RequestError
    <3> QED BY <3>2, <3>3
  <2>4. CASE CallSearch(s)
    <3>1. call[s].cid \in ClientIds
      BY <2>4, CallSearchEffect DEF Busy
    <3>2. journal' = journal \/ \E k : journal' = MarkSubmitted(journal, call[s].cid, k, TRUE, now)
      BY <2>4, CallSearchEffect
    <3>3. \A k : Assures(journal[c], MarkSubmitted(journal, call[s].cid, k, TRUE, now)[c])
      BY <1>0, <3>1, OthersAssure
    <3>4. CASE journal' = journal
      BY <3>4 DEF Assures
    <3> QED BY <3>2, <3>3, <3>4
  <2> QED BY <2>1, <2>2, <2>3, <2>4
<1> QED BY <1>1, <1>2, QuietStep

LEMMA OtherStep ==
    ASSUME TypeOK, Busy,
           \/ \E q \in net : Arrive(q) \/ Lose(q)
           \/ \E c \in ClientIds, k \in Attempts : CloseOrder(c, k)
           \/ \E r \in Recoverers :
                 \/ \E scope \in Scopes : BeginRecovery(r, scope)
                 \/ \E c \in ClientIds : NextIntent(r, c)
                 \/ EndRecovery(r) \/ RecoverySearch(r)
           \/ \E x \in Cancelers :
                 \/ \E c \in ClientIds, k \in Attempts : BeginCancel(x, c, k)
                 \/ CancelRequest(x) \/ ConfirmCanceled(x) \/ CancelUnconfirmed(x)
           \/ Tick \/ Maintenance \/ Crash \/ UNCHANGED vars
    PROVE  Settling
<1>0. journal \in [ClientIds -> Row] /\ now \in Nat
  BY DEF TypeOK
<1>1. ASSUME call' = call, NEW J, journal' = J,
             \A c \in ClientIds : Assures(journal[c], J[c])
      PROVE  Settling
  BY <1>1, QuietStep DEF NoneTaken, Holds
<1>2. ASSUME call' = call, journal' = journal PROVE Settling
  BY <1>2, SameJournal DEF NoneTaken, Holds
<1>3. ASSUME NEW q \in net, Arrive(q) \/ Lose(q) PROVE Settling
  BY <1>2, <1>3 DEF Arrive, Lose
<1>4. ASSUME NEW c \in ClientIds, NEW k \in Attempts, CloseOrder(c, k) PROVE Settling
  BY <1>2, <1>4 DEF CloseOrder
<1>5. ASSUME NEW r \in Recoverers, NEW scope \in Scopes, BeginRecovery(r, scope) PROVE Settling
  BY <1>0, <1>1, <1>5, ReclassifyAssures DEF BeginRecovery
<1>6. ASSUME NEW r \in Recoverers, EndRecovery(r) \/ \E c \in ClientIds : NextIntent(r, c)
      PROVE  Settling
  BY <1>2, <1>6 DEF EndRecovery, NextIntent
<1>7. ASSUME NEW r \in Recoverers, RecoverySearch(r) PROVE Settling
  <2>1. rec[r].cid \in ClientIds
    BY <1>7, RecoverySearchEffect DEF Busy
  <2>2. /\ call' = call
        /\ \/ journal' = journal
           \/ \E k : journal' = MarkSubmitted(journal, rec[r].cid, k, TRUE, now)
           \/ journal' = MarkReconciledAbsent(journal, rec[r].cid, now)
    BY <1>7, RecoverySearchEffect
  <2>3. \A c \in ClientIds :
            /\ \A k : Assures(journal[c], MarkSubmitted(journal, rec[r].cid, k, TRUE, now)[c])
            /\ Assures(journal[c], MarkReconciledAbsent(journal, rec[r].cid, now)[c])
    BY <1>0, <2>1, OthersAssure
  <2> QED BY <1>1, <1>2, <2>2, <2>3
<1>8. ASSUME NEW x \in Cancelers, ConfirmCanceled(x) PROVE Settling
  <2>1. cancel[x].cid \in ClientIds
    BY <1>8 DEF ConfirmCanceled, Busy
  <2>2. \A c \in ClientIds : \A k :
            Assures(journal[c], MarkCanceledByOrderId(journal, cancel[x].cid, k, now)[c])
    BY <1>0, <2>1, OthersAssure
  <2> QED BY <1>1, <1>8, <2>2 DEF ConfirmCanceled
<1>9. ASSUME NEW x \in Cancelers,
             \/ CancelRequest(x) \/ CancelUnconfirmed(x)
             \/ \E c \in ClientIds, k \in Attempts : BeginCancel(x, c, k)
      PROVE  Settling
  BY <1>2, <1>9 DEF CancelRequest, CancelUnconfirmed, BeginCancel
<1>10. CASE Maintenance
  BY <1>0, <1>1, <1>10, CompactionAssures DEF Maintenance, Compact
<1>11. CASE Tick \/ UNCHANGED vars
  BY <1>2, <1>11 DEF Tick, vars
<1>12. CASE Crash
  <2>1. NoneTaken /\ journal' = journal
    BY <1>12 DEF Crash, NoneTaken, Holds, IdleCall
  <2> QED BY <2>1, SameJournal
<1> QED BY <1>3, <1>4, <1>5, <1>6, <1>7, <1>8, <1>9, <1>10, <1>11, <1>12

(* A call begins only when no other intent of its market is in doubt, and    *)
(* then every uncertain intent of the market is one a coroutine holds.       *)
LEMMA BeginCallTakes ==
    ASSUME TypeOK, NEW s \in Submitters, NEW c \in ClientIds, BeginCall(s, c)
    PROVE  \/ Settling
           \/ \A d \in ClientIds :
                  Loose(d)' => IF MarketOf[d] = MarketOf[c] THEN Held(d)' ELSE Loose(d)
<1>0. journal \in [ClientIds -> Row] /\ call \in [Submitters -> CallState] /\ now \in Nat
  BY DEF TypeOK
<1>1. CASE /\ call' = [call EXCEPT ![s] = [IdleCall EXCEPT !.pc = "recovering", !.cid = c]]
           /\ journal' = journal
  BY <1>0, <1>1, SameJournal DEF NoneTaken, Holds, IdleCall
<1>2. CASE /\ call' = [call EXCEPT ![s] = [pc |-> "pacing", cid |-> c,
                                          attempt |-> journal[c].attempts + 1,
                                          since |-> now, stage |-> "direct"]]
           /\ journal[c].attempts < MaxAttempts
           /\ LET J == [journal EXCEPT ![c] = Reserve(journal[c], now)]
              IN  journal' = J \/ journal' \in Compactions(J, now)
  <2> DEFINE J == [journal EXCEPT ![c] = Reserve(journal[c], now)]
  <2>1. J \in [ClientIds -> Row]
    BY <1>0, <1>2, ReserveType
  <2>2. ASSUME NEW d \in ClientIds PROVE Assures(J[d], journal'[d])
    BY <1>0, <1>2, <2>1, CompactionAssures DEF Assures
  <2>3. ~Doubtful(J[c]) /\ \A d \in ClientIds \ {c} : J[d] = journal[d]
    BY <1>0 DEF Reserve, EmptyRow, Doubtful, Row
  <2>4. Holds(s, c)'
    BY <1>0, <1>2 DEF Holds
  <2>5. \A d \in ClientIds \ {c} : Held(d)' => Held(d)
    BY <1>0, <1>2 DEF Held, Holds
  <2>6. \A d \in ClientIds \ {c} : MarketOf[d] = MarketOf[c] => ~Doubtful(journal[d])
    BY DEF BeginCall, Quarantined, Uncertain, Doubtful
  <2> HIDE DEF J
  <2> SUFFICES ASSUME NEW d \in ClientIds, Loose(d)'
               PROVE  IF MarketOf[d] = MarketOf[c] THEN Held(d)' ELSE Loose(d)
    OBVIOUS
  <2>7. CASE d = c
    BY <2>4, <2>7 DEF Held
  <2>8. CASE d # c /\ Held(d)'
    BY <2>5, <2>8 DEF Loose
  <2>9. CASE d # c /\ Doubtful(journal'[d])
    BY <2>2, <2>3, <2>6, <2>9 DEF Assures, Loose
  <2> QED BY <2>7, <2>8, <2>9 DEF Loose
<1> QED BY <1>1, <1>2 DEF BeginCall

(* A coroutine holds one intent. *)
LEMMA HeldBounded ==
    ASSUME NEW ids, NEW calls,
           \A c \in ids : \E s \in Submitters : calls[s].cid = c
    PROVE  IsFiniteSet(ids) /\ Cardinality(ids) <= Cardinality(Submitters)
<1> DEFINE holder == [c \in ids |-> CHOOSE s \in Submitters : calls[s].cid = c]
<1>1. \A c \in ids : holder[c] \in Submitters /\ calls[holder[c]].cid = c
  OBVIOUS
<1>2. holder \in [ids -> Submitters]
  BY <1>1
<1> HIDE DEF holder
<1>3. holder \in Injection(ids, Submitters)
  BY <1>1, <1>2 DEF Injection, IsInjective
<1> QED BY <1>3, JournalAssumption, FS_Injection

LEMMA BoundedInit == Init => Bounded
<1> SUFFICES ASSUME Init, NEW m \in Markets
             PROVE  IsFiniteSet(LooseIn(m)) /\ Cardinality(LooseIn(m)) <= Cardinality(Submitters)
  BY DEF Bounded
<1>1. \A c \in ClientIds : ~Loose(c)
  BY DEF Init, Loose, Doubtful, Held, Holds, LegacyRejection, EmptyRow, IdleCall
<1>2. \A c \in LooseIn(m) : \E s \in Submitters : call[s].cid = c
  BY <1>1 DEF LooseIn, InMarkets
<1> QED BY <1>2, HeldBounded

LEMMA BoundedStep == TypeOK /\ Busy /\ Bounded /\ [Next]_vars => Bounded'
<1> SUFFICES ASSUME TypeOK, Busy, Bounded, [Next]_vars, NEW m \in Markets
             PROVE  /\ IsFiniteSet(LooseIn(m)')
                    /\ Cardinality(LooseIn(m)') <= Cardinality(Submitters)
  BY DEF Bounded
<1>1. IsFiniteSet(LooseIn(m)) /\ Cardinality(LooseIn(m)) <= Cardinality(Submitters)
  BY DEF Bounded
<1>2. ASSUME LooseIn(m)' \subseteq LooseIn(m)
      PROVE  /\ IsFiniteSet(LooseIn(m)')
             /\ Cardinality(LooseIn(m)') <= Cardinality(Submitters)
  <2>1. IsFiniteSet(LooseIn(m)') /\ Cardinality(LooseIn(m)') <= Cardinality(LooseIn(m))
    BY <1>1, <1>2, FS_Subset
  <2>2. /\ Cardinality(LooseIn(m)') \in Nat /\ Cardinality(LooseIn(m)) \in Nat
        /\ Cardinality(Submitters) \in Nat
    BY <1>1, <2>1, JournalAssumption, FS_CardinalityType
  <2> QED BY <1>1, <2>1, <2>2
<1>3. ASSUME Settling PROVE LooseIn(m)' \subseteq LooseIn(m)
  BY <1>3 DEF Settling, LooseIn, InMarkets
<1>4. ASSUME NEW s \in Submitters, NEW c \in ClientIds, BeginCall(s, c)
      PROVE  /\ IsFiniteSet(LooseIn(m)')
             /\ Cardinality(LooseIn(m)') <= Cardinality(Submitters)
  <2>1. CASE Settling
    BY <1>2, <1>3, <2>1
  <2>2. CASE \A d \in ClientIds :
                Loose(d)' => IF MarketOf[d] = MarketOf[c] THEN Held(d)' ELSE Loose(d)
    <3>1. CASE MarketOf[c] # m
      <4>1. LooseIn(m)' \subseteq LooseIn(m)
        BY <2>2, <3>1 DEF LooseIn, InMarkets
      <4> QED BY <1>2, <4>1
    <3>2. CASE MarketOf[c] = m
      <4>1. \A d \in LooseIn(m)' : \E t \in Submitters : call'[t].cid = d
        BY <2>2, <3>2 DEF LooseIn, InMarkets, Held, Holds
      <4> QED BY <4>1, HeldBounded
    <3> QED BY <3>1, <3>2
  <2> QED BY <1>4, <2>1, <2>2, BeginCallTakes
<1>5. CASE \E s \in Submitters : \/ SendRequest(s) \/ ReceiveReply(s) \/ RequestError(s)
                                 \/ CallSearch(s) \/ CancelCall(s)
  BY <1>2, <1>3, <1>5, SubmitterStep
<1>6. CASE ~ \E s \in Submitters : \/ \E c \in ClientIds : BeginCall(s, c)
                                   \/ SendRequest(s) \/ ReceiveReply(s) \/ RequestError(s)
                                   \/ CallSearch(s) \/ CancelCall(s)
  BY <1>2, <1>3, <1>6, OtherStep DEF Next
<1> QED BY <1>4, <1>5, <1>6

(* The intents of a market that are unknown or in the hands of a coroutine   *)
(* never outnumber the coroutines: first_uncertain lets no call begin while  *)
(* another intent of its market is unknown, however calls, retries,          *)
(* recoveries and crashes interleave.                                        *)
THEOREM UncertaintyBounded == Spec => []BoundedUncertainty
<1>1. Bounded => BoundedUncertainty
  BY DEF Bounded, LooseIn, Loose, Doubtful, Held, Holds, BoundedUncertainty
<1> QED BY TypeInit, TypeStep, BoundedInit, BoundedStep, <1>1, PTL DEF Spec
=============================================================================
