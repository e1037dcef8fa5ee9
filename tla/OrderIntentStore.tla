-------------------------- MODULE OrderIntentStore --------------------------
(***************************************************************************)
(* The SQLite journal of order intents (order_reliability.py) as a         *)
(* function from client order ids to rows, and its operations as operators *)
(* on such a function.  Every operation of the store is one transaction of *)
(* a single-threaded event loop, so an action of a specification that uses *)
(* this module may treat each of them as one step.                         *)
(*                                                                         *)
(* Abstractions.  The intent hash is the client order id itself: a call    *)
(* that reuses an id with other parameters raises before it writes, so it  *)
(* never changes the journal.  The exchange's order id is the number of    *)
(* the attempt that created the order (0: no order id).  Of last_error the *)
(* row keeps whether it is a confirmed rejection.                          *)
(***************************************************************************)
EXTENDS Naturals, FiniteSets

CONSTANTS
    ClientIds,      \* the client order ids of the callers
    Markets,        \* (exchange account, symbol) pairs
    MarketOf,       \* the market of each client order id
    RecoveryWait,   \* RECOVERY_WAIT_SECONDS
    InFlightGrace,  \* IN_FLIGHT_GRACE_SECONDS
    Retention,      \* terminal_retention_seconds
    MaxTerminalRows,\* max_terminal_rows
    MaxAttempts     \* bound on attempt_count, for model checking

ASSUME StoreAssumption ==
    /\ MarketOf \in [ClientIds -> Markets]
    /\ RecoveryWait \in Nat
    /\ InFlightGrace \in Nat
    /\ Retention \in Nat
    /\ MaxTerminalRows \in Nat
    /\ MaxAttempts \in Nat \ {0}

Attempts == 1..MaxAttempts

(* "none": no row was ever written for the id; "compacted": compact removed *)
(* the row.                                                                 *)
Missing == {"none", "compacted"}

(* The statuses that compact keeps and recovery works on. *)
Pending == {"reserved", "unknown"}

Terminal == {"submitted", "recovered", "canceled", "failed", "reconciled_absent"}

Statuses == Missing \cup Pending \cup Terminal

Row == [status: Statuses, orderId: 0..MaxAttempts, attempts: 0..MaxAttempts,
        createdAt: Nat, updatedAt: Nat, retryAfter: Nat, rejected: BOOLEAN]

EmptyRow == [status |-> "none", orderId |-> 0, attempts |-> 0, createdAt |-> 0,
             updatedAt |-> 0, retryAfter |-> 0, rejected |-> FALSE]

(* A row a release wrote that did not yet classify confirmed rejections as  *)
(* terminal: the exchange refused the order and the row says "unknown".     *)
LegacyRejection == [EmptyRow EXCEPT !.status = "unknown", !.attempts = 1,
                                    !.rejected = TRUE]

Exists(row) == row.status \notin Missing

(* UPDATE ... WHERE client_order_id = c: no effect without a row. *)
Update(J, c, row) == IF Exists(J[c]) THEN [J EXCEPT ![c] = row] ELSE J
-----------------------------------------------------------------------------
(* reserve: what the caller of _create_order_idempotently is told to do. *)
ReserveAction(row, t) ==
    CASE row.status \in {"submitted", "recovered", "canceled"} -> "return_existing"
      [] row.status = "failed" -> "failed"
      [] Exists(row) /\ row.retryAfter > t -> "recover_only"
      [] OTHER -> "submit"

(* reserve: the row it writes when the answer is "submit".  A retry keeps   *)
(* created_at, order_id and last_error of the row it found.                 *)
Reserve(row, t) ==
    IF ~Exists(row)
    THEN [EmptyRow EXCEPT !.status = "reserved", !.attempts = 1, !.createdAt = t,
                          !.updatedAt = t, !.retryAfter = t + RecoveryWait]
    ELSE [row EXCEPT !.status = "reserved", !.attempts = row.attempts + 1,
                     !.updatedAt = t, !.retryAfter = t + RecoveryWait]

MarkSubmitted(J, c, k, recovered, t) ==
    Update(J, c, [J[c] EXCEPT !.status = IF recovered THEN "recovered" ELSE "submitted",
                              !.orderId = k, !.rejected = FALSE,
                              !.updatedAt = t, !.retryAfter = 0])

MarkUnknown(J, c, t) ==
    Update(J, c, [J[c] EXCEPT !.status = "unknown", !.rejected = FALSE,
                              !.updatedAt = t, !.retryAfter = t + RecoveryWait])

MarkFailed(J, c, t) ==
    Update(J, c, [J[c] EXCEPT !.status = "failed", !.updatedAt = t, !.retryAfter = 0])

(* Mutant: the status is spelled like the resolution in the evidence. *)
MarkConfirmedAbsent(J, c, t) ==
    IF J[c].status \in Pending
    THEN [J EXCEPT ![c] = [@ EXCEPT !.status = "confirmed_absent", !.orderId = 0,
                                    !.rejected = FALSE, !.updatedAt = t, !.retryAfter = 0]]
    ELSE J

MarkReconciledAbsent(J, c, t) ==
    IF J[c].status \in Pending
    THEN [J EXCEPT ![c] = [@ EXCEPT !.status = "reconciled_absent", !.orderId = 0,
                                    !.rejected = FALSE, !.updatedAt = t, !.retryAfter = 0]]
    ELSE J

(* The order id k of client id c: rows of other client ids hold other order *)
(* ids, so the UPDATE reaches at most the row of c.                         *)
MarkCanceledByOrderId(J, c, k, t) ==
    IF Exists(J[c]) /\ J[c].orderId = k
    THEN [J EXCEPT ![c] = [@ EXCEPT !.status = "canceled", !.updatedAt = t, !.retryAfter = 0]]
    ELSE J
-----------------------------------------------------------------------------
InMarkets(scope) == {c \in ClientIds : MarketOf[c] \in scope}

PendingForMarket(J, scope) == {c \in InMarkets(scope) : J[c].status \in Pending}

(* Of the rows that pending_for_market lists, the "unknown" ones with a       *)
(* confirmed rejection become "failed".                                      *)
ReclassifyConfirmedRejections(J, rows, t) ==
    [c \in ClientIds |->
        IF c \in rows /\ J[c].status = "unknown" /\ J[c].rejected
        THEN [J[c] EXCEPT !.status = "failed", !.updatedAt = t, !.retryAfter = 0]
        ELSE J[c]]

(* Mutant: a reservation whose process died never becomes uncertain. *)
UncertainUnknownOnly(row, t) == row.status = "unknown"

(* The rows that quarantine a market: first_uncertain, summary and           *)
(* inspect_order_intents select the same ones.                               *)
Uncertain(row, t) ==
    \/ row.status = "unknown"
    \/ row.status = "reserved" /\ row.updatedAt + InFlightGrace <= t

(* Mutant: an intent that is known to be uncertain does not block the market. *)
QuarantinedByStaleOnly(J, c, t) ==
    \E d \in ClientIds \ {c} :
        /\ MarketOf[d] = MarketOf[c]
        /\ J[d].status = "reserved" /\ J[d].updatedAt + InFlightGrace <= t

(* first_uncertain found a row other than the caller's own. *)
Quarantined(J, c, t) ==
    \E d \in ClientIds \ {c} : MarketOf[d] = MarketOf[c] /\ Uncertain(J[d], t)

(* summary: pending_count, which decides whether the monitor runs recovery. *)
PendingCount(J, t) == Cardinality({c \in ClientIds : Uncertain(J[c], t)})
-----------------------------------------------------------------------------
(* Mutant: compaction spares reservations only. *)
NotReservedRows(J) == {c \in ClientIds : Exists(J[c]) /\ J[c].status # "reserved"}

TerminalRows(J) == {c \in ClientIds : J[c].status \in Terminal}

Expired(J, t) == {c \in TerminalRows(J) : J[c].updatedAt + Retention < t}

(* The second DELETE of compact: all terminal rows but the newest             *)
(* MaxTerminalRows; rows of equal age are dropped in no particular order.     *)
Overflows(J, T) ==
    {D \in SUBSET T :
        /\ Cardinality(T \ D) = (IF Cardinality(T) < MaxTerminalRows
                                 THEN Cardinality(T) ELSE MaxTerminalRows)
        /\ \A d \in D, k \in T \ D : J[d].updatedAt <= J[k].updatedAt}

Remove(J, D) ==
    [c \in ClientIds |-> IF c \in D THEN [EmptyRow EXCEPT !.status = "compacted"] ELSE J[c]]

(* The journals compact can leave behind. *)
Compactions(J, t) ==
    {Remove(J, Expired(J, t) \cup D) : D \in Overflows(J, TerminalRows(J) \ Expired(J, t))}
=============================================================================
