---------------------------- MODULE OrderJournal ----------------------------
(***************************************************************************)
(* Idempotent order submission: the coroutines of ExchangeManager that     *)
(* submit, recover and cancel orders (exchanges.py) around the journal of  *)
(* OrderIntentStore, with the exchange and the network as environment.     *)
(*                                                                         *)
(* A step is what a coroutine does between two awaits.  The exchange may   *)
(* accept, refuse or never see a request, an answer may be lost or carry   *)
(* no order id, queries may fail, a coroutine may be cancelled at an await *)
(* and the process may crash; only the journal and the exchange survive.   *)
(* Time is a counter; a request may wait for the pacer for any time, one   *)
(* on its way reaches the exchange within FlightTime or not at all, and a  *)
(* search takes at most SearchTime.                                        *)
(***************************************************************************)
EXTENDS OrderIntentStore

CONSTANTS
    Submitters,     \* coroutines running _create_order_idempotently
    Recoverers,     \* coroutines running recover_pending_order_intents
    Cancelers,      \* coroutines running cancel_order
    LegacyIds,      \* ids whose rows an older release left as rejected "unknown"
    NoId,           \* no client order id
    AbsentMinAge,   \* EXPLICIT_ABSENCE_MIN_AGE_SECONDS
    CancelTries,    \* _cancel_retry_attempts
    CompactEvery,   \* COMPACT_EVERY_RESERVATIONS
    RecoveryLimit,  \* rows a recovery takes from the journal
    FlightTime,     \* longest time a request travels
    SearchTime,     \* longest _search_order_by_client_id
    Dedup,          \* the exchange refuses a client order id it has seen
    MaxTime         \* bound on the clock, for model checking

ASSUME JournalAssumption ==
    /\ IsFiniteSet(Submitters)
    /\ LegacyIds \subseteq ClientIds
    /\ NoId \notin ClientIds
    /\ AbsentMinAge \in Nat /\ FlightTime \in Nat /\ SearchTime \in Nat
    /\ MaxTime \in Nat /\ RecoveryLimit \in Nat \ {0}
    /\ CancelTries \in Nat \ {0} /\ CompactEvery \in Nat \ {0}
    /\ Dedup \in BOOLEAN

VARIABLES
    journal,        \* the rows of order_intents, durable
    orders,         \* the exchange's orders, by client id and attempt
    net,            \* create requests on their way to the exchange
    replies,        \* answers not yet read by the coroutine that waits for them
    call,           \* the submitting coroutines
    rec,            \* the recovering coroutines
    cancel,         \* the cancelling coroutines
    booting,        \* the startup recovery of the supervisor has not finished
    reservations,   \* _reservation_count, modulo CompactEvery
    now,
    unaccounted     \* history: ids whose first attempt recovery or an error may miss

vars == <<journal, orders, net, replies, call, rec, cancel, booting, reservations, now,
          unaccounted>>

OrderStates == {"none", "open", "closed"}
ReplyKinds == {"accepted", "accepted_no_id", "refused"}
Sources == {"direct", "open_orders", "closed_orders"}

Request == [cid: ClientIds, attempt: Attempts, sentAt: Nat]
Reply == [cid: ClientIds, attempt: Attempts, kind: ReplyKinds]

CallState == [pc: {"idle", "pacing", "awaiting", "recovering"},
              cid: ClientIds \cup {NoId}, attempt: 0..MaxAttempts,
              since: Nat, stage: Sources]
RecState == [pc: {"idle", "next", "searching"}, todo: SUBSET ClientIds,
             cid: ClientIds \cup {NoId}, since: Nat, stage: Sources,
             sources: SUBSET Sources, startup: BOOLEAN]
CancelState == [pc: {"idle", "request", "confirm", "recheck"},
                cid: ClientIds \cup {NoId}, attempt: 0..MaxAttempts,
                tries: 0..CancelTries]

IdleCall == [pc |-> "idle", cid |-> NoId, attempt |-> 0, since |-> 0, stage |-> "direct"]
IdleRec == [pc |-> "idle", todo |-> {}, cid |-> NoId, since |-> 0, stage |-> "direct",
            sources |-> {}, startup |-> FALSE]
IdleCancel == [pc |-> "idle", cid |-> NoId, attempt |-> 0, tries |-> 0]

Init ==
    /\ journal = [c \in ClientIds |-> IF c \in LegacyIds THEN LegacyRejection ELSE EmptyRow]
    /\ orders = [c \in ClientIds |-> [k \in Attempts |-> "none"]]
    /\ net = {}
    /\ replies = {}
    /\ call = [s \in Submitters |-> IdleCall]
    /\ rec = [r \in Recoverers |-> IdleRec]
    /\ cancel = [x \in Cancelers |-> IdleCancel]
    /\ booting = TRUE
    /\ reservations = 0
    /\ now = 0
    /\ unaccounted = {}
-----------------------------------------------------------------------------
(* The exchange (external). *)

OrdersIn(c, states) == {k \in Attempts : orders[c][k] \in states}

(* A request arrives.  A new order may be accepted or refused; a client id  *)
(* the exchange has already seen is refused when it deduplicates.  The      *)
(* answer waits for the coroutine unless that coroutine is gone.            *)
Arrive(q) ==
    /\ net' = net \ {q}
    /\ \E kind \in ReplyKinds :
         /\ kind # "refused" => ~Dedup \/ OrdersIn(q.cid, {"open", "closed"}) = {}
         /\ orders' = IF kind # "refused"
                      THEN [orders EXCEPT ![q.cid][q.attempt] = "open"] ELSE orders
         /\ replies' = IF \E s \in Submitters : /\ call[s].pc = "awaiting"
                                                /\ call[s].cid = q.cid
                                                /\ call[s].attempt = q.attempt
                       THEN replies \cup {[cid |-> q.cid, attempt |-> q.attempt, kind |-> kind]}
                       ELSE replies
    /\ UNCHANGED <<journal, call, rec, cancel, booting, reservations, now, unaccounted>>

Lose(q) ==
    /\ net' = net \ {q}
    /\ UNCHANGED <<journal, orders, replies, call, rec, cancel, booting, reservations, now,
                    unaccounted>>

(* An open order fills, expires or is cancelled by hand. *)
CloseOrder(c, k) ==
    /\ orders[c][k] = "open"
    /\ orders' = [orders EXCEPT ![c][k] = "closed"]
    /\ UNCHANGED <<journal, net, replies, call, rec, cancel, booting, reservations, now,
                    unaccounted>>

(* Time passes, but never past the deadline of a request on its way or of a *)
(* search.                                                                  *)
Tick ==
    /\ now < MaxTime
    /\ \A q \in net : now < q.sentAt + FlightTime
    /\ \A r \in Recoverers : rec[r].pc = "searching" => now < rec[r].since + SearchTime
    /\ now' = now + 1
    /\ UNCHANGED <<journal, orders, net, replies, call, rec, cancel, booting, reservations, unaccounted>>
-----------------------------------------------------------------------------
(* _search_order_by_client_id asks up to three sources in this order and    *)
(* stops at the first hit.                                                  *)
NextStage(stage) == CASE stage = "direct" -> "open_orders"
                      [] stage = "open_orders" -> "closed_orders"
                      [] stage = "closed_orders" -> "direct"

(* The orders of c a source can show. *)
Shown(c, stage) == CASE stage = "direct" -> OrdersIn(c, {"open", "closed"})
                     [] stage = "open_orders" -> OrdersIn(c, {"open"})
                     [] stage = "closed_orders" -> OrdersIn(c, {"closed"})

(* A source answers that it has no order of c (ok), or fails or is not      *)
(* supported (~ok).  The query for closed orders is limited to the latest   *)
(* 100 and may miss an older one.                                           *)
Misses(c, stage, ok) == ok /\ stage # "closed_orders" => Shown(c, stage) = {}
-----------------------------------------------------------------------------
(* _create_order_idempotently *)

Compact == journal' \in Compactions(journal, now)

(* The quarantine check, reserve, and the branch on its answer.  The calls  *)
(* that replay a stored response, report a stored failure or are refused    *)
(* for quarantine change nothing.  Every CompactEvery-th reservation of the *)
(* process compacts the journal.  The callers build their ids from the time *)
(* and counters, so none uses an id again whose row was compacted.          *)
BeginCall(s, c) ==
    /\ call[s].pc = "idle"
    /\ ~booting
    /\ journal[c].status # "compacted"
    /\ now + AbsentMinAge <= MaxTime
    /\ ~Quarantined(journal, c, now)
    /\ \/ /\ ReserveAction(journal[c], now) = "submit"
          /\ journal[c].attempts < MaxAttempts
          /\ call' = [call EXCEPT ![s] = [pc |-> "pacing", cid |-> c,
                                          attempt |-> journal[c].attempts + 1,
                                          since |-> now, stage |-> "direct"]]
          /\ reservations' = (reservations + 1) % CompactEvery
          /\ LET J == [journal EXCEPT ![c] = Reserve(journal[c], now)]
             IN IF reservations' = 0 THEN journal' \in Compactions(J, now) ELSE journal' = J
       \/ /\ ReserveAction(journal[c], now) = "recover_only"
          /\ call' = [call EXCEPT ![s] = [IdleCall EXCEPT !.pc = "recovering", !.cid = c]]
          /\ UNCHANGED <<journal, reservations>>
    /\ UNCHANGED <<orders, net, replies, rec, cancel, booting, now, unaccounted>>

(* The first attempt of an id leaves evidence that recovery or a terminal   *)
(* error does not account for.                                              *)
MissedIf(s, missed) ==
    unaccounted' = IF missed /\ call[s].attempt = 1 THEN unaccounted \cup {call[s].cid}
                   ELSE unaccounted

(* So long after its reservation a request may arrive after a search that   *)
(* is believed to show its absence.                                         *)
Late(s) == call[s].since + AbsentMinAge <= now + FlightTime + SearchTime

(* pace_exchange_request returns and client.create_order is called.  How    *)
(* long the pacer takes depends on its queue and on the cooldown that rate  *)
(* limit errors start.                                                      *)
SendRequest(s) ==
    /\ call[s].pc = "pacing"
    /\ call' = [call EXCEPT ![s] = [@ EXCEPT !.pc = "awaiting", !.since = 0]]
    /\ net' = net \cup {[cid |-> call[s].cid, attempt |-> call[s].attempt, sentAt |-> now]}
    /\ MissedIf(s, Late(s))
    /\ UNCHANGED <<journal, orders, replies, rec, cancel, booting, reservations, now>>

(* The answer of the exchange reaches the coroutine.  An error class that   *)
(* _terminal_create_error names closes the intent, whether the exchange, a  *)
(* gateway or the library refused the request or the order was accepted and *)
(* its answer not understood.                                               *)
ReceiveReply(s) ==
    /\ call[s].pc = "awaiting"
    /\ \E p \in replies :
         /\ p.cid = call[s].cid /\ p.attempt = call[s].attempt
         /\ replies' = replies \ {p}
         /\ \/ /\ p.kind = "accepted"
               /\ journal' = MarkSubmitted(journal, p.cid, p.attempt, FALSE, now)
               /\ call' = [call EXCEPT ![s] = IdleCall]
               /\ UNCHANGED unaccounted
            \/ /\ journal' = MarkFailed(journal, p.cid, now)
               /\ call' = [call EXCEPT ![s] = IdleCall]
               /\ MissedIf(s, p.kind # "refused")
            \/ /\ p.kind = "accepted_no_id"
               /\ journal' = MarkUnknown(journal, p.cid, now)
               /\ call' = [call EXCEPT ![s] = [IdleCall EXCEPT !.pc = "recovering",
                                                               !.cid = p.cid]]
               /\ UNCHANGED unaccounted
    /\ UNCHANGED <<orders, net, rec, cancel, booting, reservations, now>>

(* The request fails with an error that is not terminal (a timeout, a       *)
(* gateway error, a class _terminal_create_error does not name), whether or *)
(* not the exchange has seen or answered it.                                *)
RequestError(s) ==
    /\ call[s].pc = "awaiting"
    /\ replies' = {p \in replies : ~(p.cid = call[s].cid /\ p.attempt = call[s].attempt)}
    /\ journal' = MarkUnknown(journal, call[s].cid, now)
    /\ call' = [call EXCEPT ![s] = [IdleCall EXCEPT !.pc = "recovering", !.cid = call[s].cid]]
    /\ UNCHANGED <<orders, net, rec, cancel, booting, reservations, now, unaccounted>>

(* _recover_order_by_client_id of a call: one query of the search. *)
CallSearch(s) ==
    LET c == call[s].cid
        stage == call[s].stage
    IN  /\ call[s].pc = "recovering"
        /\ \/ \E k \in Shown(c, stage) :
                 /\ journal' = MarkSubmitted(journal, c, k, TRUE, now)
                 /\ call' = [call EXCEPT ![s] = IdleCall]
           \/ /\ \E ok \in BOOLEAN : Misses(c, stage, ok)
              /\ call' = [call EXCEPT ![s] = IF stage = "closed_orders" THEN IdleCall
                                             ELSE [@ EXCEPT !.stage = NextStage(stage)]]
              /\ UNCHANGED journal
        /\ UNCHANGED <<orders, net, replies, rec, cancel, booting, reservations, now,
                        unaccounted>>

(* asyncio.CancelledError at an await of the call: no except clause of it   *)
(* catches that, and the journal is left as it is.                          *)
CancelCall(s) ==
    /\ call[s].pc # "idle"
    /\ call' = [call EXCEPT ![s] = IdleCall]
    /\ replies' = {p \in replies : ~(p.cid = call[s].cid /\ p.attempt = call[s].attempt)}
    /\ UNCHANGED <<journal, orders, net, rec, cancel, booting, reservations, now,
                    unaccounted>>
-----------------------------------------------------------------------------
(* recover_pending_order_intents with resolve_confirmed_absent, which every *)
(* caller sets: the supervisor at startup, the monitor when pending_count   *)
(* is positive, and the strategies and the operator for one market.         *)

(* pending_for_market: the rows that were not written for the longest time. *)
Listed(J, scope) ==
    LET pending == PendingForMarket(J, scope)
    IN  {T \in SUBSET pending :
            /\ T = pending \/ Cardinality(T) = RecoveryLimit
            /\ Cardinality(T) <= RecoveryLimit
            /\ \A c \in T, d \in pending \ T : J[c].updatedAt <= J[d].updatedAt}

BeginRecovery(r, scope) ==
    /\ rec[r].pc = "idle"
    /\ booting => scope = Markets
    /\ PendingForMarket(journal, scope) # {} \/ booting
    /\ \E rows \in Listed(journal, scope) :
           LET J == ReclassifyConfirmedRejections(journal, rows, now)
           IN  /\ journal' = J
               /\ \E todo \in Listed(J, scope) :
                      rec' = [rec EXCEPT ![r] = [IdleRec EXCEPT !.pc = "next", !.todo = todo,
                                                                !.startup = booting]]
    /\ UNCHANGED <<orders, net, replies, call, cancel, booting, reservations, now,
                    unaccounted>>

(* The next intent of the list taken at the start, in any order; an intent  *)
(* of an account that is not configured now is left as it is.               *)
NextIntent(r, c) ==
    /\ rec[r].pc = "next"
    /\ c \in rec[r].todo
    /\ \/ rec' = [rec EXCEPT ![r].pc = "searching", ![r].todo = @ \ {c}, ![r].cid = c,
                             ![r].since = now, ![r].stage = "direct", ![r].sources = {}]
       \/ rec' = [rec EXCEPT ![r].todo = @ \ {c}]
    /\ UNCHANGED <<journal, orders, net, replies, call, cancel, booting, reservations, now,
                    unaccounted>>

EndRecovery(r) ==
    /\ rec[r].pc = "next"
    /\ rec[r].todo = {}
    /\ rec' = [rec EXCEPT ![r] = IdleRec]
    /\ booting' = (booting /\ ~rec[r].startup)
    /\ UNCHANGED <<journal, orders, net, replies, call, cancel, reservations, now,
                    unaccounted>>

(* The intent is done with; the loop goes on to the next one. *)
Settled(r) == [IdleRec EXCEPT !.pc = "next", !.todo = rec[r].todo, !.startup = rec[r].startup]

(* Mutant: absence is believed at any age. *)
AbsenceConfirmedAtAnyAge(c, sources) ==
    /\ "open_orders" \in sources
    /\ "closed_orders" \in sources \/ "direct" \in sources

(* absence_confirmed: the age of the intent and the sources that answered. *)
AbsenceConfirmed(c, sources) ==
    /\ journal[c].createdAt + AbsentMinAge <= now
    /\ "open_orders" \in sources
    /\ "closed_orders" \in sources \/ "direct" \in sources

(* One query of the search for the current intent.  The last one that       *)
(* misses settles it: absent, or unresolved and left as it is.              *)
RecoverySearch(r) ==
    LET c == rec[r].cid
        stage == rec[r].stage
    IN  /\ rec[r].pc = "searching"
        /\ \/ \E k \in Shown(c, stage) :
                 /\ journal' = MarkSubmitted(journal, c, k, TRUE, now)
                 /\ rec' = [rec EXCEPT ![r] = Settled(r)]
           \/ \E ok \in BOOLEAN :
                 LET sources == IF ok THEN rec[r].sources \cup {stage} ELSE rec[r].sources
                 IN  /\ Misses(c, stage, ok)
                     /\ IF stage = "closed_orders"
                        THEN /\ journal' = IF AbsenceConfirmed(c, sources)
                                           THEN MarkReconciledAbsent(journal, c, now)
                                           ELSE journal
                             /\ rec' = [rec EXCEPT ![r] = Settled(r)]
                        ELSE /\ rec' = [rec EXCEPT ![r] = [@ EXCEPT !.stage = NextStage(stage),
                                                                    !.sources = sources]]
                             /\ UNCHANGED journal
        /\ UNCHANGED <<orders, net, replies, call, cancel, booting, reservations, now,
                        unaccounted>>
-----------------------------------------------------------------------------
(* cancel_order *)

BeginCancel(x, c, k) ==
    /\ cancel[x].pc = "idle"
    /\ ~booting
    /\ orders[c][k] # "none"
    /\ cancel' = [cancel EXCEPT ![x] = [pc |-> "request", cid |-> c, attempt |-> k, tries |-> 1]]
    /\ UNCHANGED <<journal, orders, net, replies, call, rec, booting, reservations, now,
                    unaccounted>>

(* client.cancel_order returns or raises; either way the order may be gone. *)
CancelRequest(x) ==
    LET c == cancel[x].cid
        k == cancel[x].attempt
    IN  /\ cancel[x].pc = "request"
        /\ \E state \in {orders[c][k], "closed"} :
               orders' = [orders EXCEPT ![c][k] = state]
        /\ \E pc \in {"confirm", "recheck"} : cancel' = [cancel EXCEPT ![x].pc = pc]
        /\ UNCHANGED <<journal, net, replies, call, rec, booting, reservations, now,
                        unaccounted>>

(* Mutant: the exchange's answer to the cancellation is believed. *)
ConfirmCanceledUnchecked(x) ==
    /\ cancel[x].pc \in {"confirm", "recheck"}
    /\ journal' = MarkCanceledByOrderId(journal, cancel[x].cid, cancel[x].attempt, now)
    /\ cancel' = [cancel EXCEPT ![x] = IdleCancel]
    /\ UNCHANGED <<orders, net, replies, call, rec, booting, reservations, now,
                    unaccounted>>

(* The order is absent from the open orders: journal it as canceled. *)
ConfirmCanceled(x) ==
    LET c == cancel[x].cid
        k == cancel[x].attempt
    IN  /\ cancel[x].pc \in {"confirm", "recheck"}
        /\ orders[c][k] # "open"
        /\ journal' = MarkCanceledByOrderId(journal, c, k, now)
        /\ cancel' = [cancel EXCEPT ![x] = IdleCancel]
        /\ UNCHANGED <<orders, net, replies, call, rec, booting, reservations, now,
                        unaccounted>>

(* The open orders still show the order, or the query fails. *)
CancelUnconfirmed(x) ==
    /\ cancel[x].pc \in {"confirm", "recheck"}
    /\ cancel' = [cancel EXCEPT ![x] =
                    IF cancel[x].pc = "confirm" THEN [cancel[x] EXCEPT !.pc = "recheck"]
                    ELSE IF cancel[x].tries < CancelTries
                         THEN [cancel[x] EXCEPT !.pc = "request", !.tries = cancel[x].tries + 1]
                         ELSE IdleCancel]
    /\ UNCHANGED <<journal, orders, net, replies, call, rec, booting, reservations, now,
                    unaccounted>>
-----------------------------------------------------------------------------
(* compact run by the maintenance timer. *)
Maintenance ==
    /\ Compact
    /\ UNCHANGED <<orders, net, replies, call, rec, cancel, booting, reservations, now,
                    unaccounted>>

(* The process dies and the supervisor of the next one starts. *)
Crash ==
    /\ call' = [s \in Submitters |-> IdleCall]
    /\ rec' = [r \in Recoverers |-> IdleRec]
    /\ cancel' = [x \in Cancelers |-> IdleCancel]
    /\ replies' = {}
    /\ booting' = TRUE
    /\ reservations' = 0
    /\ UNCHANGED <<journal, orders, net, now, unaccounted>>

Scopes == {Markets} \cup {{m} : m \in Markets}

Next ==
    \/ \E q \in net : Arrive(q) \/ Lose(q)
    \/ \E c \in ClientIds, k \in Attempts : CloseOrder(c, k)
    \/ Tick
    \/ \E s \in Submitters :
          \/ \E c \in ClientIds : BeginCall(s, c)
          \/ SendRequest(s) \/ ReceiveReply(s) \/ RequestError(s)
          \/ CallSearch(s) \/ CancelCall(s)
    \/ \E r \in Recoverers :
          \/ \E scope \in Scopes : BeginRecovery(r, scope)
          \/ \E c \in ClientIds : NextIntent(r, c)
          \/ EndRecovery(r) \/ RecoverySearch(r)
    \/ \E x \in Cancelers :
          \/ \E c \in ClientIds, k \in Attempts : BeginCancel(x, c, k)
          \/ CancelRequest(x) \/ ConfirmCanceled(x) \/ CancelUnconfirmed(x)
    \/ Maintenance
    \/ Crash

Spec == Init /\ [][Next]_vars

(* An exchange query of the search that decides about absence gets no       *)
(* answer, or the account of an intent is not configured.                   *)
SourceFails(r) ==
    \/ /\ rec[r].pc = "next" /\ rec'[r].pc = "next"
       /\ rec'[r].todo # rec[r].todo
    \/ /\ rec[r].pc = "searching"
       /\ rec[r].stage = "open_orders"
       /\ rec'[r].stage = "closed_orders"
       /\ "open_orders" \notin rec'[r].sources
    \/ /\ rec[r].pc = "searching"
       /\ rec[r].stage = "closed_orders"
       /\ AbsenceConfirmed(rec[r].cid, rec[r].sources \cup {"closed_orders"})
       /\ journal[rec[r].cid].status \in Pending
       /\ journal' = journal

(* The event loop runs every coroutine whose await is over, a request of    *)
(* the client library ends with an answer or a timeout, the clock advances  *)
(* however busy the loop is, and the monitor loop starts a recovery when    *)
(* pending_count is positive.  Crashes, unanswered queries and accounts     *)
(* that are not configured are allowed for any finite time, not for ever.   *)
Fairness ==
    /\ SF_vars(Tick)
    /\ WF_vars(\E q \in net : Arrive(q) \/ Lose(q))
    /\ \A s \in Submitters :
          /\ WF_vars(SendRequest(s))
          /\ WF_vars(ReceiveReply(s) \/ RequestError(s))
          /\ WF_vars(CallSearch(s))
    /\ \A r \in Recoverers :
          /\ WF_vars(PendingCount(journal, now) > 0 /\ BeginRecovery(r, Markets))
          /\ WF_vars(booting /\ BeginRecovery(r, Markets))
          /\ WF_vars(\E c \in ClientIds : NextIntent(r, c))
          /\ WF_vars(EndRecovery(r))
          /\ WF_vars(RecoverySearch(r))
    /\ <>[][~Crash]_vars
    /\ \A r \in Recoverers : <>[][~SourceFails(r)]_vars

FairSpec == Spec /\ Fairness
-----------------------------------------------------------------------------
(* Every variable has its type. *)
TypeOK ==
    /\ journal \in [ClientIds -> Row]
    /\ orders \in [ClientIds -> [Attempts -> OrderStates]]
    /\ net \subseteq Request
    /\ replies \subseteq Reply
    /\ call \in [Submitters -> CallState]
    /\ rec \in [Recoverers -> RecState]
    /\ cancel \in [Cancelers -> CancelState]
    /\ booting \in BOOLEAN
    /\ reservations \in 0..(CompactEvery - 1)
    /\ now \in Nat
    /\ unaccounted \subseteq ClientIds

(* A create request of c is, or may still be, on its way to the exchange. *)
MayStillArrive(c) ==
    \/ \E q \in net : q.cid = c
    \/ \E s \in Submitters : call[s].pc = "pacing" /\ call[s].cid = c

(* No order of c is open and none can appear any more. *)
NoLiveOrder(c) == OrdersIn(c, {"open"}) = {} /\ ~MayStillArrive(c)

(* The first attempt of c is with the pacer and late.                       *)
WaitsTooLong(c) == \E s \in Submitters : call[s].pc = "pacing" /\ call[s].cid = c /\ Late(s)

(* An intent that was attempted once is closed as failed or as absent only  *)
(* when no order of it is open and none can appear any more: the age and    *)
(* source checks of recover_pending_order_intents let no live order out of  *)
(* the quarantine.  The exceptions are an acceptance that was reported as a *)
(* terminal error, and a request that the pacer holds until it is too late  *)
(* for the age check.                                                       *)
FirstAttemptAccounted ==
    \A c \in ClientIds :
        journal[c].attempts = 1 /\ journal[c].status \in {"failed", "reconciled_absent"}
            => NoLiveOrder(c) \/ c \in unaccounted \/ WaitsTooLong(c)

(* The order id of a submitted or recovered row is one of an order of that  *)
(* client id on the exchange, and the order of a canceled row is not open:  *)
(* cancel_order journals only what it has confirmed.                        *)
RecordedOrderExists ==
    \A c \in ClientIds :
        /\ journal[c].status \in {"submitted", "recovered"} =>
               journal[c].orderId \in OrdersIn(c, {"open", "closed"})
        /\ journal[c].status = "canceled" => journal[c].orderId \in OrdersIn(c, {"closed"})

(* The quarantine of first_uncertain bounds what can be uncertain at once:  *)
(* the intents of one market that are unknown or have a submitting          *)
(* coroutine never outnumber the coroutines, however calls, retries,        *)
(* recoveries and crashes interleave.                                       *)
BoundedUncertainty ==
    \A m \in Markets :
        Cardinality({c \in InMarkets({m}) :
            \/ journal[c].status = "unknown" /\ ~journal[c].rejected
            \/ \E s \in Submitters : call[s].pc \in {"pacing", "awaiting"} /\ call[s].cid = c})
        <= Cardinality(Submitters)

(* A row whose outcome is open is never removed, by the compaction in       *)
(* reserve or by maintenance.                                               *)
UncertainNeverDropped ==
    [][\A c \in ClientIds :
          journal[c].status \in Pending => journal'[c].status \notin Missing]_vars

(* Every intent whose outcome is open is settled in the end, whatever       *)
(* happened to the coroutine and the process that submitted it: the monitor *)
(* finds it by pending_count and recovery finds its order or confirms that  *)
(* there is none.                                                           *)
UncertainSettles ==
    \A c \in ClientIds : journal[c].status \in Pending ~> journal[c].status \notin Pending
=============================================================================
