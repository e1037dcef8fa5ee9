-------------------------- MODULE OrderRecordProofs --------------------------
(***************************************************************************)
(* Proof that the journal of OrderJournal names orders that exist, for any *)
(* number of attempts and whatever the clock, the exchange and the network *)
(* do.                                                                     *)
(*                                                                         *)
(* The argument: an attempt has a number of its own, and until its request *)
(* arrives there is no order of that number (Placing), so that an arrival  *)
(* never opens an order again; an answer that accepts speaks of an order   *)
(* that exists; and a row only changes what it records for such an order.  *)
(***************************************************************************)
EXTENDS OrderJournalProofs

Recorded == {"submitted", "recovered", "canceled"}

Paces(s, c, k) == call[s].pc = "pacing" /\ call[s].cid = c /\ call[s].attempt = k

(* The attempts beyond the counted ones have left no trace. *)
Numbered ==
    \A c \in ClientIds :
        /\ journal[c].status = "none" => journal[c].attempts = 0
        /\ journal[c].status # "compacted" =>
              \A k \in Attempts : k > journal[c].attempts =>
                  /\ orders[c][k] = "none"
                  /\ \A q \in net : q.cid = c => q.attempt # k
                  /\ \A s \in Submitters : ~Paces(s, c, k)

(* A request that has not arrived is the only one of its attempt. *)
OnceSent ==
    \A q \in net :
        /\ orders[q.cid][q.attempt] = "none"
        /\ \A p \in net : p.cid = q.cid /\ p.attempt = q.attempt => p = q

OncePaced ==
    \A s \in Submitters : \A c \in ClientIds, k \in Attempts : Paces(s, c, k) =>
        /\ orders[c][k] = "none"
        /\ \A q \in net : q.cid = c => q.attempt # k
        /\ \A t \in Submitters : Paces(t, c, k) => t = s

Placing == Numbered /\ OnceSent /\ OncePaced

AnswersTrue == \A p \in replies : p.kind = "accepted" => orders[p.cid][p.attempt] # "none"

RInv ==
    /\ TypeOK /\ Busy /\ CancelsOrders
    /\ Placing /\ AnswersTrue /\ RecordedOrderExists

-----------------------------------------------------------------------------
(* What a step may do. *)

(* No attempt is counted, sent or placed. *)
Quiet ==
    /\ \A c \in ClientIds : Keeps(journal[c], journal'[c]) \/ journal'[c].status = "compacted"
    /\ \A c \in ClientIds, k \in Attempts : orders'[c][k] = "none" <=> orders[c][k] = "none"
    /\ net' \subseteq net
    /\ \A s \in Submitters : call'[s].pc = "pacing" => call'[s] = call[s]

(* Orders are not forgotten and do not open again. *)
Onward ==
    \A c \in ClientIds, k \in Attempts :
        /\ orders[c][k] # "none" => orders'[c][k] # "none"
        /\ orders[c][k] = "closed" => orders'[c][k] = "closed"

Plain(row, new) ==
    new.status \in Recorded => new.status = row.status /\ new.orderId = row.orderId

Names(c, row, states) == row.orderId \in Attempts /\ orders[c][row.orderId] \in states

(* A row records an order that is there. *)
Recording ==
    \A c \in ClientIds :
        \/ Plain(journal[c], journal'[c])
        \/ journal'[c].status # "canceled" /\ Names(c, journal'[c], {"open", "closed"})
        \/ journal'[c].status = "canceled" /\ Names(c, journal'[c], {"closed"})

LEMMA QuietKeeps == ASSUME TypeOK, Placing, Quiet PROVE Placing'
<1>1. Numbered'
  <2> SUFFICES ASSUME NEW c \in ClientIds
               PROVE  /\ journal'[c].status = "none" => journal'[c].attempts = 0
                      /\ journal'[c].status # "compacted" =>
                            \A k \in Attempts : k > journal'[c].attempts =>
                                /\ orders'[c][k] = "none"
                                /\ \A q \in net' : q.cid = c => q.attempt # k
                                /\ \A s \in Submitters : ~Paces(s, c, k)'
      BY DEF Numbered
  <2>1. journal'[c].status # "compacted" =>
            /\ journal'[c].attempts = journal[c].attempts
            /\ journal[c].status # "compacted"
            /\ journal'[c].status = "none" => journal[c].status = "none"
      BY DEF Quiet, Keeps, Missing
  <2>2. \A s \in Submitters, k \in Attempts : Paces(s, c, k)' => Paces(s, c, k)
      BY DEF Quiet, Paces
  <2>3. QED
      BY <2>1, <2>2 DEF Quiet, Placing, Numbered
<1>2. OnceSent'
  <2>1. \A q \in net : q.cid \in ClientIds /\ q.attempt \in Attempts
      BY DEF TypeOK, Request
  <2>2. QED
      BY <2>1 DEF Quiet, Placing, OnceSent
<1>3. OncePaced'
    BY DEF Quiet, Placing, OncePaced, Paces
<1>4. QED
    BY <1>1, <1>2, <1>3 DEF Placing

LEMMA RecordingKeeps ==
    ASSUME TypeOK, RecordedOrderExists, Recording, Onward, TypeOK'
    PROVE  RecordedOrderExists'
<1> SUFFICES ASSUME NEW c \in ClientIds, journal'[c].status \in Recorded
             PROVE  /\ journal'[c].orderId \in Attempts
                    /\ orders'[c][journal'[c].orderId] # "none"
                    /\ journal'[c].status = "canceled" =>
                           orders'[c][journal'[c].orderId] = "closed"
  <2>1. \A d \in ClientIds, k \in Attempts : orders'[d][k] \in {"none", "open", "closed"}
      BY DEF TypeOK, OrderStates
  <2>2. QED
      BY <2>1 DEF RecordedOrderExists, OrdersIn, Recorded, TypeOK, OrderStates
<1>1. CASE Plain(journal[c], journal'[c])
  <2>1. journal'[c].status = journal[c].status /\ journal'[c].orderId = journal[c].orderId
      BY <1>1 DEF Plain
  <2>2. QED
      BY <2>1 DEF RecordedOrderExists, OrdersIn, Recorded, Onward
<1>2. CASE Names(c, journal'[c], {"open", "closed"}) /\ journal'[c].status # "canceled"
    BY <1>2 DEF Names, Onward
<1>3. CASE Names(c, journal'[c], {"closed"})
    BY <1>3 DEF Names, Onward
<1>4. QED
    BY <1>1, <1>2, <1>3 DEF Recording

LEMMA AnswersKeep ==
    ASSUME TypeOK, AnswersTrue, Onward, replies' \subseteq replies PROVE AnswersTrue'
BY DEF TypeOK, Reply, AnswersTrue, Onward

-----------------------------------------------------------------------------
(* What the operations of the store record. *)

LEMMA SameKeeps ==
    ASSUME NEW row PROVE Keeps(row, row) /\ Plain(row, row)
BY DEF Keeps, Plain

(* mark_submitted records the order it is given for the intent it is given. *)
RecordsOrder(J, new, c, k) ==
    \A d \in ClientIds :
        \/ new[d] = J[d]
        \/ d = c /\ new[d].status \in {"submitted", "recovered"} /\ new[d].orderId = k

LEMMA MarkSubmittedRecords ==
    ASSUME NEW J \in [ClientIds -> Row], NEW c \in ClientIds, NEW k, NEW recovered, NEW t
    PROVE  RecordsOrder(J, MarkSubmitted(J, c, k, recovered, t), c, k)
BY DEF MarkSubmitted, Update, Row, RecordsOrder

LEMMA OrderRecorded ==
    ASSUME NEW c \in ClientIds, NEW k \in Attempts, orders[c][k] \in {"open", "closed"},
           RecordsOrder(journal, journal', c, k)
    PROVE  Recording
BY SameKeeps DEF RecordsOrder, Recording, Names

LEMMA OthersRecordNothing ==
    ASSUME NEW J \in [ClientIds -> Row], NEW c \in ClientIds, NEW d \in ClientIds, NEW t \in Nat,
           NEW rows
    PROVE  /\ Plain(J[d], MarkUnknown(J, c, t)[d])
           /\ Plain(J[d], MarkFailed(J, c, t)[d])
           /\ Plain(J[d], MarkReconciledAbsent(J, c, t)[d])
           /\ Plain(J[d], ReclassifyConfirmedRejections(J, rows, t)[d])
<1>1. Plain(J[d], MarkUnknown(J, c, t)[d])
    BY DEF MarkUnknown, Update, Row, Plain, Recorded
<1>2. Plain(J[d], MarkFailed(J, c, t)[d])
    BY DEF MarkFailed, Update, Row, Plain, Recorded
<1>3. Plain(J[d], MarkReconciledAbsent(J, c, t)[d])
    BY DEF MarkReconciledAbsent, Row, Plain, Recorded
<1>4. Plain(J[d], ReclassifyConfirmedRejections(J, rows, t)[d])
    BY DEF ReclassifyConfirmedRejections, Row, Plain, Recorded
<1>5. QED
    BY <1>1, <1>2, <1>3, <1>4

LEMMA MarkCanceledRecords ==
    ASSUME NEW J \in [ClientIds -> Row], NEW c \in ClientIds, NEW d \in ClientIds,
           NEW k \in Attempts, NEW t \in Nat
    PROVE  LET new == MarkCanceledByOrderId(J, c, k, t)[d]
           IN  \/ new = J[d]
               \/ d = c /\ new.status = "canceled" /\ new.orderId = k
BY DEF MarkCanceledByOrderId, Row

LEMMA CompactionRecords ==
    ASSUME NEW J \in [ClientIds -> Row], NEW t \in Nat, NEW K \in Compactions(J, t),
           NEW c \in ClientIds
    PROVE  /\ Plain(J[c], K[c])
           /\ K[c] = J[c] \/ K[c].status = "compacted"
<1>1. CompactedRow.status = "compacted"
    BY DEF CompactedRow, EmptyRow
<1>2. QED
    BY <1>1, CompactionEffect DEF Plain, Recorded

-----------------------------------------------------------------------------
(* The steps that number, send and place nothing. *)

Harmless == Quiet /\ Recording /\ Onward /\ replies' \subseteq replies

LEMMA JournalUntouched ==
    ASSUME journal' = journal
    PROVE  Recording /\ \A c \in ClientIds : Keeps(journal[c], journal'[c])
BY SameKeeps DEF Recording

LEMMA JournalTyped == ASSUME RInv PROVE journal \in [ClientIds -> Row] /\ now \in Nat
BY DEF RInv, TypeOK

LEMMA EnvironmentHarmless ==
    ASSUME RInv,
           \/ \E q \in net : Lose(q)
           \/ \E c \in ClientIds, k \in Attempts : CloseOrder(c, k)
           \/ Tick \/ Maintenance \/ Crash \/ UNCHANGED vars
    PROVE  Harmless
<1>1. CASE \E q \in net : Lose(q)
    BY <1>1, JournalUntouched DEF Lose, Harmless, Quiet, Onward
<1>2. CASE \E c \in ClientIds, k \in Attempts : CloseOrder(c, k)
  <2>1. PICK c \in ClientIds, k \in Attempts : CloseOrder(c, k)
      BY <1>2
  <2>2. \A d \in ClientIds, j \in Attempts :
            \/ orders'[d][j] = orders[d][j]
            \/ orders[d][j] = "open" /\ orders'[d][j] = "closed"
      BY <2>1 DEF CloseOrder, RInv, TypeOK
  <2>3. QED
      BY <2>1, <2>2, JournalUntouched DEF CloseOrder, Harmless, Quiet, Onward
<1>3. CASE Tick \/ UNCHANGED vars
    BY <1>3, JournalUntouched DEF Tick, vars, Harmless, Quiet, Onward
<1>4. CASE Maintenance
  <2>1. \A c \in ClientIds : Plain(journal[c], journal'[c])
                            /\ (journal'[c] = journal[c] \/ journal'[c].status = "compacted")
      BY <1>4, CompactionRecords DEF Maintenance, Compact, RInv, TypeOK
  <2>2. QED
      BY <1>4, <2>1, SameKeeps DEF Maintenance, Harmless, Quiet, Onward, Recording
<1>5. CASE Crash
  <2>1. \A s \in Submitters : call'[s].pc = "idle"
      BY <1>5 DEF Crash, IdleCall
  <2>2. QED
      BY <1>5, <2>1, JournalUntouched DEF Crash, Harmless, Quiet, Onward
<1>6. QED
    BY <1>1, <1>2, <1>3, <1>4, <1>5

LEMMA ReceiveHarmless == ASSUME RInv, NEW s \in Submitters, ReceiveReply(s) PROVE Harmless
<1>1. PICK p \in replies :
          /\ p.cid = call[s].cid /\ p.attempt = call[s].attempt
          /\ replies' = replies \ {p}
          /\ \/ /\ p.kind = "accepted"
                /\ journal' = MarkSubmitted(journal, p.cid, p.attempt, FALSE, now)
                /\ call' = [call EXCEPT ![s] = IdleCall]
             \/ /\ journal' = MarkFailed(journal, p.cid, now)
                /\ call' = [call EXCEPT ![s] = IdleCall]
             \/ /\ p.kind = "accepted_no_id"
                /\ journal' = MarkUnknown(journal, p.cid, now)
                /\ call' = [call EXCEPT ![s] = [IdleCall EXCEPT !.pc = "recovering",
                                                                !.cid = p.cid]]
    BY DEF ReceiveReply
<1>2. p.cid \in ClientIds /\ p.attempt \in Attempts
    BY DEF RInv, TypeOK, Reply
<1>3. \A t \in Submitters : call'[t].pc = "pacing" => call'[t] = call[t]
  <2>1. \E state : call' = [call EXCEPT ![s] = state] /\ state.pc # "pacing"
    <3>1. IdleCall.pc = "idle"
        BY DEF IdleCall
    <3>2. [IdleCall EXCEPT !.pc = "recovering", !.cid = p.cid].pc = "recovering"
        BY DEF IdleCall
    <3>3. QED
        BY <1>1, <3>1, <3>2
  <2>2. QED
      BY <2>1 DEF RInv, TypeOK
<1>4. \A c \in ClientIds : Keeps(journal[c], journal'[c])
  <2>1. CASE journal' = MarkSubmitted(journal, p.cid, p.attempt, FALSE, now)
      BY <1>2, <2>1, MarkSubmittedKeeps, JournalTyped
  <2>2. CASE journal' = MarkFailed(journal, p.cid, now)
      BY <1>2, <2>2, MarkFailedKeeps, JournalTyped
  <2>3. CASE journal' = MarkUnknown(journal, p.cid, now)
      BY <1>2, <2>3, MarkUnknownKeeps, JournalTyped
  <2>4. QED
      BY <1>1, <2>1, <2>2, <2>3
<1>5. Recording
  <2>1. CASE journal' = MarkSubmitted(journal, p.cid, p.attempt, FALSE, now) /\ p.kind = "accepted"
    <3>1. orders[p.cid][p.attempt] \in {"open", "closed"}
        BY <1>2, <2>1 DEF RInv, AnswersTrue, TypeOK, OrderStates
    <3>2. RecordsOrder(journal, journal', p.cid, p.attempt)
        BY <1>2, <2>1, MarkSubmittedRecords, JournalTyped
    <3>3. QED
        BY <1>2, <3>1, <3>2, OrderRecorded
  <2>2. CASE journal' = MarkFailed(journal, p.cid, now) \/ journal' = MarkUnknown(journal, p.cid, now)
      BY <1>2, <2>2, OthersRecordNothing DEF RInv, TypeOK, Recording
  <2>3. QED
      BY <1>1, <2>1, <2>2
<1>6. UNCHANGED <<orders, net>>
    BY DEF ReceiveReply
<1>7. QED
    BY <1>1, <1>3, <1>4, <1>5, <1>6 DEF Harmless, Quiet, Onward

LEMMA CallHarmless ==
    ASSUME RInv, NEW s \in Submitters, RequestError(s) \/ CallSearch(s) \/ CancelCall(s)
    PROVE  Harmless
<1>1. CASE RequestError(s)
  <2>1. call[s].cid \in ClientIds
      BY <1>1 DEF RequestError, RInv, Busy
  <2>2. \A c \in ClientIds : Keeps(journal[c], journal'[c]) /\ Plain(journal[c], journal'[c])
      BY <1>1, <2>1, MarkUnknownKeeps, OthersRecordNothing DEF RequestError, RInv, TypeOK
  <2>3. \A t \in Submitters : call'[t].pc = "pacing" => call'[t] = call[t]
      BY <1>1 DEF RequestError, RInv, TypeOK, IdleCall
  <2>4. QED
      BY <1>1, <2>2, <2>3 DEF RequestError, Harmless, Quiet, Recording, Onward
<1>2. CASE CallSearch(s)
  <2>1. call[s].cid \in ClientIds /\ call[s].stage \in Sources /\ call[s].pc = "recovering"
      BY <1>2, CallSearchEffect DEF RInv, Busy, TypeOK, CallState
  <2>2. \/ journal' = journal
        \/ \E k \in Shown(call[s].cid, call[s].stage) :
               journal' = MarkSubmitted(journal, call[s].cid, k, TRUE, now)
      BY <1>2, CallSearchEffect
  <2>3. (\A c \in ClientIds : Keeps(journal[c], journal'[c])) /\ Recording
    <3>1. CASE journal' = journal
        BY <3>1, JournalUntouched
    <3>2. ASSUME NEW k \in Shown(call[s].cid, call[s].stage),
                 journal' = MarkSubmitted(journal, call[s].cid, k, TRUE, now)
          PROVE  (\A c \in ClientIds : Keeps(journal[c], journal'[c])) /\ Recording
      <4>1. k \in Attempts /\ orders[call[s].cid][k] \in {"open", "closed"}
          BY <2>1, <3>2, ShownAttempts DEF RInv, TypeOK, OrderStates
      <4>2. RecordsOrder(journal, journal', call[s].cid, k)
          BY <2>1, <3>2, MarkSubmittedRecords, JournalTyped
      <4>3. \A c \in ClientIds : Keeps(journal[c], journal'[c])
          BY <2>1, <3>2, MarkSubmittedKeeps DEF RInv, TypeOK
      <4>4. QED
          BY <2>1, <4>1, <4>2, <4>3, OrderRecorded
    <3>3. QED
        BY <2>2, <3>1, <3>2
  <2>4. \A t \in Submitters : call'[t].pc = "pacing" => call'[t] = call[t]
    <3>1. CASE call' = [call EXCEPT ![s] = IdleCall]
        BY <3>1 DEF RInv, TypeOK, IdleCall
    <3>2. CASE call' = [call EXCEPT ![s] = [call[s] EXCEPT !.stage = NextStage(call[s].stage)]]
        BY <2>1, <3>2 DEF RInv, TypeOK, CallState
    <3>3. QED
        BY <1>2, <3>1, <3>2, CallSearchEffect
  <2>5. UNCHANGED <<orders, net, replies>>
      BY <1>2, CallSearchEffect
  <2>6. QED
      BY <2>3, <2>4, <2>5 DEF Harmless, Quiet, Onward
<1>3. CASE CancelCall(s)
  <2>1. \A t \in Submitters : call'[t].pc = "pacing" => call'[t] = call[t]
      BY <1>3 DEF CancelCall, RInv, TypeOK, IdleCall
  <2>2. QED
      BY <1>3, <2>1, JournalUntouched DEF CancelCall, Harmless, Quiet, Onward
<1>4. QED
    BY <1>1, <1>2, <1>3

LEMMA RecoveryHarmless ==
    ASSUME RInv, NEW r \in Recoverers,
           \/ \E scope \in Scopes : BeginRecovery(r, scope)
           \/ \E c \in ClientIds : NextIntent(r, c)
           \/ EndRecovery(r) \/ RecoverySearch(r)
    PROVE  Harmless
<1>1. ASSUME NEW scope \in Scopes, BeginRecovery(r, scope) PROVE Harmless
  <2>1. \A c \in ClientIds : Keeps(journal[c], journal'[c]) /\ Plain(journal[c], journal'[c])
      BY <1>1, ReclassifyKeepsRows, OthersRecordNothing DEF BeginRecovery, RInv, TypeOK
  <2>2. QED
      BY <1>1, <2>1 DEF BeginRecovery, Harmless, Quiet, Recording, Onward
<1>2. CASE EndRecovery(r) \/ \E c \in ClientIds : NextIntent(r, c)
    BY <1>2, JournalUntouched DEF EndRecovery, NextIntent, Harmless, Quiet, Onward
<1>3. CASE RecoverySearch(r)
  <2> DEFINE c == rec[r].cid
  <2>1. c \in ClientIds /\ rec[r].stage \in Sources
      BY <1>3, RecoverySearchEffect DEF RInv, Busy, TypeOK, RecState
  <2>2. \/ journal' = journal
        \/ journal' = MarkReconciledAbsent(journal, c, now)
        \/ \E k \in Shown(c, rec[r].stage) : journal' = MarkSubmitted(journal, c, k, TRUE, now)
      BY <1>3, RecoverySearchEffect
  <2> HIDE DEF c
  <2>3. (\A d \in ClientIds : Keeps(journal[d], journal'[d])) /\ Recording
    <3>1. CASE journal' = journal
        BY <3>1, JournalUntouched
    <3>2. CASE journal' = MarkReconciledAbsent(journal, c, now)
        BY <2>1, <3>2, MarkAbsentKeeps, OthersRecordNothing DEF RInv, TypeOK, Recording
    <3>3. ASSUME NEW k \in Shown(c, rec[r].stage),
                 journal' = MarkSubmitted(journal, c, k, TRUE, now)
          PROVE  (\A d \in ClientIds : Keeps(journal[d], journal'[d])) /\ Recording
      <4>1. k \in Attempts /\ orders[c][k] \in {"open", "closed"}
          BY <2>1, <3>3, ShownAttempts DEF RInv, TypeOK, OrderStates
      <4>2. RecordsOrder(journal, journal', c, k)
          BY <2>1, <3>3, MarkSubmittedRecords, JournalTyped
      <4>3. \A d \in ClientIds : Keeps(journal[d], journal'[d])
          BY <2>1, <3>3, MarkSubmittedKeeps DEF RInv, TypeOK
      <4>4. QED
          BY <2>1, <4>1, <4>2, <4>3, OrderRecorded
    <3>4. QED
        BY <2>2, <3>1, <3>2, <3>3
  <2>4. UNCHANGED <<orders, net, replies, call>>
      BY <1>3, RecoverySearchEffect
  <2>5. QED
      BY <2>3, <2>4 DEF Harmless, Quiet, Onward
<1>4. QED
    BY <1>1, <1>2, <1>3

LEMMA CancelHarmless ==
    ASSUME RInv, NEW x \in Cancelers,
           \/ \E c \in ClientIds, k \in Attempts : BeginCancel(x, c, k)
           \/ CancelRequest(x) \/ ConfirmCanceled(x) \/ CancelUnconfirmed(x)
    PROVE  Harmless
<1>1. CASE CancelUnconfirmed(x) \/ \E c \in ClientIds, k \in Attempts : BeginCancel(x, c, k)
    BY <1>1, JournalUntouched DEF CancelUnconfirmed, BeginCancel, Harmless, Quiet, Onward
<1> DEFINE c == cancel[x].cid
           k == cancel[x].attempt
<1>2. ASSUME cancel[x].pc # "idle"
      PROVE  c \in ClientIds /\ k \in Attempts /\ orders[c][k] \in {"open", "closed"}
    BY <1>2 DEF RInv, Busy, CancelsOrders, TypeOK, OrderStates
<1>3. CASE CancelRequest(x)
  <2>1. PICK state \in {orders[c][k], "closed"} :
            orders' = [orders EXCEPT ![c][k] = state]
      BY <1>3 DEF CancelRequest
  <2>2. \A d \in ClientIds, j \in Attempts :
            \/ orders'[d][j] = orders[d][j]
            \/ orders[d][j] \in {"open", "closed"} /\ orders'[d][j] = "closed"
      BY <1>2, <1>3, <2>1 DEF CancelRequest, RInv, TypeOK
  <2>3. QED
      BY <1>3, <2>2, JournalUntouched DEF CancelRequest, Harmless, Quiet, Onward
<1>4. CASE ConfirmCanceled(x)
  <2>1. /\ c \in ClientIds /\ k \in Attempts /\ orders[c][k] = "closed"
        /\ journal' = MarkCanceledByOrderId(journal, c, k, now)
      BY <1>2, <1>4 DEF ConfirmCanceled
  <2> HIDE DEF c, k
  <2>2. \A d \in ClientIds :
            \/ journal'[d] = journal[d]
            \/ d = c /\ journal'[d].status = "canceled" /\ journal'[d].orderId = k
      BY <2>1, MarkCanceledRecords DEF RInv, TypeOK
  <2>3. \A d \in ClientIds : Keeps(journal[d], journal'[d])
      BY <2>1, MarkCanceledKeeps DEF RInv, TypeOK
  <2>4. Recording
      BY <2>1, <2>2, SameKeeps DEF Recording, Names
  <2>5. QED
      BY <1>4, <2>3, <2>4 DEF ConfirmCanceled, Harmless, Quiet, Onward
<1>5. QED
    BY <1>1, <1>3, <1>4

-----------------------------------------------------------------------------
(* The steps that number, send and place an order.                          *)

LEMMA Unmoved == ASSUME journal' = journal PROVE Recording
BY JournalUntouched

(* An arrival opens an order that was not there. *)
LEMMA ArriveKeepsRecord ==
    ASSUME RInv, TypeOK', NEW q \in net, Arrive(q)
    PROVE  Placing' /\ AnswersTrue' /\ RecordedOrderExists'
<1> DEFINE c == q.cid
           k == q.attempt
<1>1. /\ c \in ClientIds /\ k \in Attempts /\ orders[c][k] = "none"
      /\ \A p \in net : p.cid = c /\ p.attempt = k => p = q
    BY DEF RInv, TypeOK, Request, Placing, OnceSent
<1>2. PICK kind \in ReplyKinds :
        /\ orders' = IF kind # "refused"
                     THEN [orders EXCEPT ![c][k] = "open"] ELSE orders
        /\ replies' \subseteq replies \cup {[cid |-> c, attempt |-> k, kind |-> kind]}
    BY DEF Arrive
<1>3. net' = net \ {q} /\ UNCHANGED <<journal, call>>
    BY DEF Arrive
<1>4. /\ \A d \in ClientIds, j \in Attempts :
            \/ orders'[d][j] = orders[d][j]
            \/ d = c /\ j = k /\ orders'[d][j] = "open"
      /\ kind # "refused" => orders'[c][k] = "open"
    BY <1>1, <1>2 DEF RInv, TypeOK
<1> HIDE DEF c, k
<1>5. Numbered'
  <2> SUFFICES ASSUME NEW d \in ClientIds, journal[d].status # "compacted",
                      NEW j \in Attempts, j > journal[d].attempts
               PROVE  /\ orders'[d][j] = "none"
                      /\ \A p \in net' : p.cid = d => p.attempt # j
                      /\ \A s \in Submitters : ~Paces(s, d, j)'
      BY <1>3 DEF Numbered, RInv, Placing
  <2>1. /\ orders[d][j] = "none"
        /\ \A p \in net : p.cid = d => p.attempt # j
        /\ \A s \in Submitters : ~Paces(s, d, j)
      BY DEF Numbered, RInv, Placing
  <2>2. ~(d = c /\ j = k)
      BY <2>1 DEF c, k
  <2>3. QED
      BY <1>3, <1>4, <2>1, <2>2 DEF Paces
<1>6. OnceSent'
  <2> SUFFICES ASSUME NEW p \in net'
               PROVE  /\ orders'[p.cid][p.attempt] = "none"
                      /\ \A o \in net' : o.cid = p.cid /\ o.attempt = p.attempt => o = p
      BY DEF OnceSent
  <2>1. p \in net /\ p # q /\ p.cid \in ClientIds /\ p.attempt \in Attempts
      BY <1>3 DEF RInv, TypeOK, Request
  <2>2. orders[p.cid][p.attempt] = "none"
        /\ \A o \in net : o.cid = p.cid /\ o.attempt = p.attempt => o = p
      BY <2>1 DEF RInv, Placing, OnceSent
  <2>3. QED
      BY <1>1, <1>3, <1>4, <2>1, <2>2
<1>7. OncePaced'
  <2> SUFFICES ASSUME NEW s \in Submitters, NEW d \in ClientIds, NEW j \in Attempts,
                      Paces(s, d, j)
               PROVE  /\ orders'[d][j] = "none"
                      /\ \A p \in net' : p.cid = d => p.attempt # j
                      /\ \A t \in Submitters : Paces(t, d, j) => t = s
      BY <1>3 DEF OncePaced, Paces
  <2>1. /\ orders[d][j] = "none"
        /\ \A p \in net : p.cid = d => p.attempt # j
        /\ \A t \in Submitters : Paces(t, d, j) => t = s
      BY DEF RInv, Placing, OncePaced
  <2>2. ~(d = c /\ j = k)
      BY <2>1 DEF c, k
  <2>3. QED
      BY <1>3, <1>4, <2>1, <2>2
<1>8. AnswersTrue'
  <2> SUFFICES ASSUME NEW p \in replies', p.kind = "accepted"
               PROVE  orders'[p.cid][p.attempt] # "none"
      BY DEF AnswersTrue
  <2>1. CASE p \in replies
    <3>1. p.cid \in ClientIds /\ p.attempt \in Attempts /\ orders[p.cid][p.attempt] # "none"
        BY <2>1 DEF RInv, TypeOK, Reply, AnswersTrue
    <3>2. QED
        BY <1>4, <3>1
  <2>2. CASE p = [cid |-> c, attempt |-> k, kind |-> kind]
      BY <1>4, <2>2
  <2>3. QED
      BY <1>2, <2>1, <2>2
<1>9. RecordedOrderExists'
  <2>1. Onward
      BY <1>1, <1>4 DEF Onward
  <2>2. QED
      BY <1>3, <2>1, Unmoved, RecordingKeeps DEF RInv
<1>10. QED
    BY <1>5, <1>6, <1>7, <1>8, <1>9 DEF Placing

(* The pacer hands the attempt over to the network. *)
LEMMA SendKeepsRecord ==
    ASSUME RInv, TypeOK', NEW s \in Submitters, SendRequest(s)
    PROVE  Placing' /\ AnswersTrue' /\ RecordedOrderExists'
<1> DEFINE c == call[s].cid
           k == call[s].attempt
           new == [cid |-> c, attempt |-> k, sentAt |-> now]
<1>1. c \in ClientIds /\ k \in Attempts /\ Paces(s, c, k)
    BY DEF SendRequest, RInv, Busy, Paces
<1>2. /\ orders[c][k] = "none"
      /\ \A q \in net : q.cid = c => q.attempt # k
      /\ \A t \in Submitters : Paces(t, c, k) => t = s
    BY <1>1 DEF RInv, Placing, OncePaced
<1>3. net' = net \cup {new} /\ UNCHANGED <<journal, orders, replies>>
    BY DEF SendRequest
<1>4. \A t \in Submitters : call'[t].pc = "pacing" => t # s /\ call'[t] = call[t]
    BY DEF SendRequest, RInv, TypeOK, CallState
<1>5. new.cid = c /\ new.attempt = k
    OBVIOUS
<1> HIDE DEF c, k, new
<1>6. Numbered'
  <2> SUFFICES ASSUME NEW d \in ClientIds, journal[d].status # "compacted",
                      NEW j \in Attempts, j > journal[d].attempts
               PROVE  /\ orders[d][j] = "none"
                      /\ \A p \in net' : p.cid = d => p.attempt # j
                      /\ \A t \in Submitters : ~Paces(t, d, j)'
      BY <1>3 DEF Numbered, RInv, Placing
  <2>1. /\ orders[d][j] = "none"
        /\ \A p \in net : p.cid = d => p.attempt # j
        /\ \A t \in Submitters : ~Paces(t, d, j)
      BY DEF Numbered, RInv, Placing
  <2>2. ~(d = c /\ j = k)
      BY <1>1, <2>1
  <2>3. QED
      BY <1>3, <1>4, <1>5, <2>1, <2>2 DEF Paces
<1>7. OnceSent'
    BY <1>2, <1>3, <1>5 DEF OnceSent, RInv, Placing
<1>8. OncePaced'
  <2> SUFFICES ASSUME NEW r \in Submitters, NEW d \in ClientIds, NEW j \in Attempts,
                      Paces(r, d, j)'
               PROVE  /\ orders[d][j] = "none"
                      /\ \A p \in net' : p.cid = d => p.attempt # j
                      /\ \A t \in Submitters : Paces(t, d, j)' => t = r
      BY <1>3 DEF OncePaced
  <2>1. r # s /\ Paces(r, d, j)
      BY <1>4 DEF Paces
  <2>2. /\ orders[d][j] = "none"
        /\ \A p \in net : p.cid = d => p.attempt # j
        /\ \A t \in Submitters : Paces(t, d, j) => t = r
      BY <2>1 DEF RInv, Placing, OncePaced
  <2>3. ~(d = c /\ j = k)
      BY <1>2, <2>1
  <2>4. \A t \in Submitters : Paces(t, d, j)' => Paces(t, d, j)
      BY <1>4 DEF Paces
  <2>5. QED
      BY <1>3, <1>5, <2>2, <2>3, <2>4
<1>9. AnswersTrue' /\ RecordedOrderExists'
    BY <1>3 DEF RInv, AnswersTrue, RecordedOrderExists, OrdersIn
<1>10. QED
    BY <1>6, <1>7, <1>8, <1>9 DEF Placing

(* A reservation opens the next attempt, and nothing of it exists yet. *)
LEMMA ReservationKeepsRecord ==
    ASSUME RInv, TypeOK', NEW s \in Submitters, NEW c \in ClientIds, BeginCall(s, c),
           ReserveAction(journal[c], now) = "submit"
    PROVE  Placing' /\ AnswersTrue' /\ RecordedOrderExists'
<1> DEFINE J == [journal EXCEPT ![c] = Reserve(journal[c], now)]
           k == journal[c].attempts + 1
<1>1. /\ journal[c].attempts < MaxAttempts
      /\ call' = [call EXCEPT ![s] = [pc |-> "pacing", cid |-> c, attempt |-> k,
                                      since |-> now, stage |-> "direct"]]
      /\ journal' = J \/ journal' \in Compactions(J, now)
      /\ UNCHANGED <<orders, net, replies>>
    BY DEF BeginCall
<1>2. /\ journal \in [ClientIds -> Row] /\ journal[c] \in Row /\ now \in Nat
      /\ journal[c].attempts \in Nat /\ k \in Attempts
  <2>1. journal \in [ClientIds -> Row] /\ now \in Nat
      BY JournalTyped
  <2>2. journal[c] \in Row /\ journal[c].attempts \in 0..MaxAttempts
      BY <2>1 DEF Row
  <2>3. MaxAttempts \in Nat
      BY StoreAssumption
  <2>4. QED
      BY <1>1, <2>1, <2>2, <2>3 DEF Attempts
<1>3. J \in [ClientIds -> Row]
    BY <1>1, <1>2, ReserveType
<1>4. /\ journal[c].status # "compacted"
      /\ J[c].status = "reserved" /\ J[c].attempts = k
  <2>1. journal[c].status # "compacted"
      BY DEF BeginCall
  <2>2. J[c] = Reserve(journal[c], now)
      BY <1>2
  <2>3. journal[c].status = "none" => journal[c].attempts = 0
      BY DEF RInv, Placing, Numbered
  <2>4. QED
      BY <1>2, <2>1, <2>2, <2>3 DEF Reserve, Exists, Missing, EmptyRow, Row
<1>5. \A d \in ClientIds : d # c => J[d] = journal[d]
    BY <1>2
<1>6. \A t \in Submitters : t # s => call'[t] = call[t]
    BY <1>1 DEF RInv, TypeOK
<1>7. \A d \in ClientIds, j \in Attempts : Paces(s, d, j)' => d = c /\ j = k
  <2>1. call \in [Submitters -> CallState]
      BY DEF RInv, TypeOK
  <2>2. call'[s].pc = "pacing" /\ call'[s].cid = c /\ call'[s].attempt = k
      BY <1>1, <2>1
  <2> HIDE DEF k
  <2>3. \A d \in ClientIds, j \in Attempts :
            Paces(s, d, j)' <=> (call'[s].pc = "pacing" /\ call'[s].cid = d /\ call'[s].attempt = j)
      BY DEF Paces
  <2>4. k \in Attempts
      BY <1>2
  <2>5. QED
      BY <2>2, <2>3, <2>4
<1>8. /\ orders[c][k] = "none"
      /\ \A q \in net : q.cid = c => q.attempt # k
      /\ \A t \in Submitters : ~Paces(t, c, k)
  <2>1. k > journal[c].attempts
      BY <1>2
  <2>2. QED
      BY <1>2, <1>4, <2>1 DEF RInv, Placing, Numbered
<1>9. \A d \in ClientIds :
        /\ Plain(J[d], journal'[d])
        /\ journal'[d] = J[d] \/ journal'[d].status = "compacted"
    BY <1>1, <1>2, <1>3, CompactionRecords, SameKeeps
<1> HIDE DEF J, k
<1>10. Recording
  <2>1. \A d \in ClientIds : Plain(journal[d], J[d])
      BY <1>4, <1>5, SameKeeps DEF Plain, Recorded
  <2>2. QED
      BY <1>9, <2>1 DEF Recording, Plain
<1>11. Numbered'
  <2> SUFFICES ASSUME NEW d \in ClientIds, journal'[d].status # "compacted"
               PROVE  /\ journal'[d].status = "none" => journal'[d].attempts = 0
                      /\ \A j \in Attempts : j > journal'[d].attempts =>
                            /\ orders[d][j] = "none"
                            /\ \A q \in net : q.cid = d => q.attempt # j
                            /\ \A t \in Submitters : ~Paces(t, d, j)'
      BY <1>1 DEF Numbered
  <2>1. journal'[d] = J[d]
      BY <1>9
  <2>2. CASE d # c
    <3>1. journal'[d] = journal[d]
        BY <1>5, <2>1, <2>2
    <3>2. \A t \in Submitters, j \in Attempts : Paces(t, d, j)' => Paces(t, d, j)
        BY <1>6, <1>7, <2>2 DEF Paces
    <3>3. QED
        BY <3>1, <3>2 DEF RInv, Placing, Numbered
  <2>3. CASE d = c
    <3>1. journal'[d].status = "reserved" /\ journal'[d].attempts = k
        BY <1>4, <2>1, <2>3
    <3>2. \A j \in Attempts : j > k => j > journal[c].attempts /\ j # k
        BY <1>2 DEF k, Attempts
    <3>3. \A j \in Attempts : j > k =>
              /\ orders[c][j] = "none"
              /\ \A q \in net : q.cid = c => q.attempt # j
              /\ \A t \in Submitters : ~Paces(t, c, j)
        BY <1>4, <3>2 DEF RInv, Placing, Numbered
    <3>4. \A t \in Submitters, j \in Attempts : j > k => ~Paces(t, c, j)'
        BY <1>6, <1>7, <3>2, <3>3 DEF Paces
    <3>5. QED
        BY <2>3, <3>1, <3>3, <3>4
  <2>4. QED
      BY <2>2, <2>3
<1>12. OnceSent'
    BY <1>1 DEF RInv, Placing, OnceSent
<1>13. OncePaced'
  <2> SUFFICES ASSUME NEW r \in Submitters, NEW d \in ClientIds, NEW j \in Attempts,
                      Paces(r, d, j)'
               PROVE  /\ orders[d][j] = "none"
                      /\ \A q \in net : q.cid = d => q.attempt # j
                      /\ \A t \in Submitters : Paces(t, d, j)' => t = r
      BY <1>1 DEF OncePaced
  <2>1. \A t \in Submitters : t # s => (Paces(t, d, j)' <=> Paces(t, d, j))
      BY <1>6 DEF Paces
  <2>2. CASE r = s
    <3>1. d = c /\ j = k
        BY <1>7, <2>2
    <3>2. QED
        BY <1>8, <2>1, <2>2, <3>1
  <2>3. CASE r # s
    <3>1. Paces(r, d, j)
        BY <2>1, <2>3
    <3>2. ~(d = c /\ j = k)
        BY <1>8, <3>1
    <3>3. ~Paces(s, d, j)'
        BY <1>7, <3>2
    <3>4. QED
        BY <2>1, <3>1, <3>3 DEF RInv, Placing, OncePaced
  <2>4. QED
      BY <2>2, <2>3
<1>14. AnswersTrue' /\ RecordedOrderExists'
  <2>1. Onward
      BY <1>1 DEF Onward
  <2>2. QED
      BY <1>1, <1>10, <2>1, RecordingKeeps, AnswersKeep DEF RInv
<1>15. QED
    BY <1>11, <1>12, <1>13, <1>14 DEF Placing

LEMMA RecoverOnlyHarmless ==
    ASSUME RInv, NEW s \in Submitters, NEW c \in ClientIds, BeginCall(s, c),
           ReserveAction(journal[c], now) # "submit"
    PROVE  Harmless
<1>1. /\ call' = [call EXCEPT ![s] = [IdleCall EXCEPT !.pc = "recovering", !.cid = c]]
      /\ UNCHANGED <<journal, orders, net, replies>>
    BY DEF BeginCall
<1>2. \A t \in Submitters : call'[t].pc = "pacing" => call'[t] = call[t]
    BY <1>1 DEF RInv, TypeOK, IdleCall
<1>3. QED
    BY <1>1, <1>2, JournalUntouched DEF Harmless, Quiet, Onward
-----------------------------------------------------------------------------
LEMMA RInvInit == Init => RInv
<1> SUFFICES ASSUME Init PROVE RInv
    OBVIOUS
<1>1. TypeOK /\ Busy
    BY TypeInit
<1>2. \A c \in ClientIds :
        \/ journal[c].status = "none" /\ journal[c].attempts = 0
        \/ journal[c].status = "unknown" /\ journal[c].attempts = 1
    BY DEF Init, LegacyRejection, EmptyRow
<1>3. /\ \A s \in Submitters : call[s].pc = "idle"
      /\ \A x \in Cancelers : cancel[x].pc = "idle"
      /\ \A c \in ClientIds, k \in Attempts : orders[c][k] = "none"
      /\ net = {} /\ replies = {}
    BY DEF Init, IdleCall, IdleCancel
<1>4. CancelsOrders /\ Placing /\ AnswersTrue
    BY <1>2, <1>3 DEF CancelsOrders, Placing, Numbered, OnceSent, OncePaced, Paces, AnswersTrue
<1>5. RecordedOrderExists
    BY <1>2 DEF RecordedOrderExists
<1>6. QED
    BY <1>1, <1>4, <1>5 DEF RInv

LEMMA RInvStep == RInv /\ [Next]_vars => RInv'
<1> SUFFICES ASSUME RInv, [Next]_vars PROVE RInv'
    OBVIOUS
<1> DEFINE Goal == Placing' /\ AnswersTrue' /\ RecordedOrderExists'
<1>0. TypeOK' /\ Busy' /\ CancelsOrders'
    BY TypeStep, CancelsOrdersStep DEF RInv
<1>h. ASSUME Harmless PROVE Goal
    BY <1>0, <1>h, QuietKeeps, RecordingKeeps, AnswersKeep DEF Harmless, RInv
<1>1. ASSUME NEW q \in net, Arrive(q) PROVE Goal
    BY <1>0, <1>1, ArriveKeepsRecord
<1>2. ASSUME \/ \E q \in net : Lose(q)
             \/ \E c \in ClientIds, k \in Attempts : CloseOrder(c, k)
             \/ Tick \/ Maintenance \/ Crash \/ UNCHANGED vars
      PROVE  Goal
    BY <1>2, <1>h, EnvironmentHarmless
<1>3. ASSUME NEW s \in Submitters, NEW c \in ClientIds, BeginCall(s, c) PROVE Goal
    BY <1>0, <1>3, <1>h, ReservationKeepsRecord, RecoverOnlyHarmless
<1>4. ASSUME NEW s \in Submitters, SendRequest(s) PROVE Goal
    BY <1>0, <1>4, SendKeepsRecord
<1>5. ASSUME NEW s \in Submitters, ReceiveReply(s) PROVE Goal
    BY <1>5, <1>h, ReceiveHarmless
<1>6. ASSUME NEW s \in Submitters, RequestError(s) \/ CallSearch(s) \/ CancelCall(s) PROVE Goal
    BY <1>6, <1>h, CallHarmless
<1>7. ASSUME NEW r \in Recoverers,
             \/ \E scope \in Scopes : BeginRecovery(r, scope)
             \/ \E c \in ClientIds : NextIntent(r, c)
             \/ EndRecovery(r) \/ RecoverySearch(r)
      PROVE  Goal
    BY <1>7, <1>h, RecoveryHarmless
<1>8. ASSUME NEW x \in Cancelers,
             \/ \E c \in ClientIds, k \in Attempts : BeginCancel(x, c, k)
             \/ CancelRequest(x) \/ ConfirmCanceled(x) \/ CancelUnconfirmed(x)
      PROVE  Goal
    BY <1>8, <1>h, CancelHarmless
<1>9. Goal
    BY <1>1, <1>2, <1>3, <1>4, <1>5, <1>6, <1>7, <1>8 DEF Next
<1>10. QED
    BY <1>0, <1>9 DEF RInv

(* The order id of a submitted or recovered row is one of an order of that  *)
(* client id at the exchange, and the order of a canceled row is not open,  *)
(* however often an intent is attempted and however long requests, searches *)
(* and answers take: ReceiveReply, the two searches and cancel_order journal *)
(* only what the exchange has shown them.                                   *)
THEOREM RecordsExist == Spec => []RecordedOrderExists
<1>1. RInv => RecordedOrderExists
    BY DEF RInv
<1>2. QED
    BY <1>1, RInvInit, RInvStep, PTL DEF Spec
=============================================================================
