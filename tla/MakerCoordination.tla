-------------------------- MODULE MakerCoordination --------------------------
(***************************************************************************)
(* How the market maker makes room for another strategy: holds on markets  *)
(* with an expiry (web/state.py), taken by the auto buy/sell loop and by   *)
(* the rebalancer (web/background), read by the maker loop of each market  *)
(* (web/background/market_maker.py), which withdraws its orders and        *)
(* acknowledges the hold in the runtime that it publishes                  *)
(* (web/coordination.py).                                                  *)
(*                                                                         *)
(* A step is what a coroutine does between two awaits.  A maker has at     *)
(* most one order per side; requests are answered, or have failed, when    *)
(* their await ends (OrderJournal has those that arrive late).  A hold may *)
(* expire in any state of its owner: a loop renews it once per iteration,  *)
(* and nothing bounds how long an iteration takes.                         *)
(***************************************************************************)
EXTENDS Integers

CONSTANTS
    Owners,     \* strategies that take holds: auto buy/sell tasks, the rebalancer
    Makers,     \* maker instances, one per market
    Sides,      \* sides of an order
    Quotes,     \* the sides that a maker has the balance to quote
    NoOwner,
    Blocks,     \* the sides an owner's hold blocks on a market, {} if it has none
    Rank,       \* position of the owner's name in sorted order
    MaxFaults   \* requests of the makers that fail (bound)

ASSUME CoordinationAssumption ==
    /\ NoOwner \notin Owners
    /\ Quotes \in [Makers -> SUBSET Sides]
    /\ Blocks \in [Owners -> [Makers -> SUBSET Sides]]
    /\ Rank \in [Owners -> Int]
    /\ \A S \in SUBSET Owners :
           S # {} => \E o \in S : \A p \in S \ {o} : Rank[o] < Rank[p]
    /\ MaxFaults \in Nat

VARIABLES
    holds,      \* the owners of _coordination_holds that have not expired
    book,       \* the sides on which a maker has an order at the exchange
    known,      \* open_order_ids of the maker loop
    maker,      \* the coroutine of a maker instance
    published,  \* the instances of market_maker_runtime
    owner,      \* the coroutines of the owners
    faults      \* requests that failed

vars == <<holds, book, known, maker, published, owner, faults>>

(* "current" and "sound" are history: the hold meant has lasted since then. *)
MakerStates == {"idle", "live_sync", "place", "sync", "cancel", "resync"}
Maker == [pc: MakerStates, hold: Owners \cup {NoOwner}, ids: SUBSET Sides, current: BOOLEAN]
MakerIdle == [pc |-> "idle", hold |-> NoOwner, ids |-> {}, current |-> FALSE]

(* The owner whose hold the instance shows with no conflicting order and no *)
(* sync error: what the owners look for.                                    *)
Runtime == [confirmed: Owners \cup {NoOwner}, current: BOOLEAN]
NoRuntime == [confirmed |-> NoOwner, current |-> FALSE]

Owner == [pc: {"out", "held", "guard", "trading"}, sound: BOOLEAN]

TypeOK ==
    /\ holds \in SUBSET Owners
    /\ book \in [Makers -> SUBSET Sides]
    /\ known \in [Makers -> SUBSET Sides]
    /\ maker \in [Makers -> Maker]
    /\ published \in [Makers -> Runtime]
    /\ owner \in [Owners -> Owner]
    /\ faults \in 0..MaxFaults

Init ==
    /\ holds = {}
    /\ book = [m \in Makers |-> {}]
    /\ known = [m \in Makers |-> {}]
    /\ maker = [m \in Makers |-> MakerIdle]
    /\ published = [m \in Makers |-> NoRuntime]
    /\ owner = [o \in Owners |-> [pc |-> "out", sound |-> FALSE]]
    /\ faults = 0

Affected(o) == {m \in Makers : Blocks[o][m] # {}}

-----------------------------------------------------------------------------
(* The holds. *)

(* coordination_hold_for returns one hold only, the first by name.          *)
Holding(m) == {o \in holds : Blocks[o][m] # {}}

(* Mutant: every hold of the market, as a list. *)
HoldForAll(m) == IF Holding(m) = {} THEN NoOwner ELSE Holding(m)

(* Mutant: the last owner by name. *)
HoldForLast(m) ==
    IF Holding(m) = {} THEN NoOwner
    ELSE CHOOSE o \in Holding(m) : \A p \in Holding(m) : Rank[o] >= Rank[p]

HoldFor(m) ==
    IF Holding(m) = {} THEN NoOwner
    ELSE CHOOSE o \in Holding(m) : \A p \in Holding(m) : Rank[o] <= Rank[p]

(* History: what was read of the hold that ends is out of date.             *)
Forget(o) ==
    /\ maker' = [m \in Makers |->
                    IF maker[m].hold = o THEN [maker[m] EXCEPT !.current = FALSE]
                    ELSE maker[m]]
    /\ published' = [m \in Makers |->
                        IF published[m].confirmed = o
                        THEN [published[m] EXCEPT !.current = FALSE] ELSE published[m]]

Expire(o) ==
    /\ o \in holds
    /\ holds' = holds \ {o}
    /\ owner' = [owner EXCEPT ![o] = [pc |-> @.pc, sound |-> FALSE]]
    /\ Forget(o)
    /\ UNCHANGED <<book, known, faults>>

-----------------------------------------------------------------------------
(* The loop of a maker instance. *)

At(m, pc) == maker[m].pc = pc

(* Further in the same cycle. *)
Moved(m, pc, ids) ==
    [pc |-> pc, hold |-> maker[m].hold, ids |-> ids, current |-> maker[m].current]

Fault == faults < MaxFaults /\ faults' = faults + 1

Publishes(m, withdrawn) ==
    /\ published' = [published EXCEPT ![m] =
                        IF withdrawn
                        THEN [confirmed |-> maker[m].hold, current |-> maker[m].current]
                        ELSE NoRuntime]
    /\ maker' = [maker EXCEPT ![m] = MakerIdle]

(* The gates allow live trading or not; a hold forbids it.                  *)
Read(m) ==
    /\ At(m, "idle")
    /\ \E gate \in BOOLEAN :
           LET hold == HoldFor(m)
               live == gate /\ hold = NoOwner
           IN  maker' = [maker EXCEPT ![m] =
                   [pc |-> IF live THEN "live_sync" ELSE "sync",
                    hold |-> hold, ids |-> {}, current |-> hold # NoOwner]]
    /\ UNCHANGED <<holds, book, known, published, owner, faults>>

LiveSync(m) ==
    /\ At(m, "live_sync")
    /\ \/ /\ known' = [known EXCEPT ![m] = book[m]]
          /\ maker' = [maker EXCEPT ![m] = Moved(m, "place", {})]
          /\ UNCHANGED <<published, faults>>
       \/ /\ Fault
          /\ Publishes(m, FALSE)
          /\ UNCHANGED known
    /\ UNCHANGED <<holds, book, owner>>

(* run_market_maker_cycle places and cancels orders over several awaits.    *)
Place(m) ==
    /\ At(m, "place")
    /\ \E sides \in SUBSET Quotes[m] :
           /\ sides # book[m]
           /\ book' = [book EXCEPT ![m] = sides]
    /\ UNCHANGED <<holds, known, maker, published, owner, faults>>

EndLiveCycle(m) ==
    /\ At(m, "place")
    /\ known' = [known EXCEPT ![m] = book[m]]
    /\ Publishes(m, TRUE)
    /\ UNCHANGED <<holds, book, owner, faults>>

(* The sides that the hold blocks; all of them when there is no hold.       *)
BlockedSides(m) == IF maker[m].hold = NoOwner THEN Sides ELSE Blocks[maker[m].hold][m]

WithdrawsOrPublishes(m, ids, confirmed) ==
    IF ids = {} THEN Publishes(m, confirmed)
    ELSE /\ maker' = [maker EXCEPT ![m] = Moved(m, "cancel", ids)]
         /\ UNCHANGED published

(* Without a hold and without known orders the exchange is not asked; when  *)
(* it cannot be asked, every order that is known is withdrawn.              *)
Sync(m) ==
    /\ At(m, "sync")
    /\ \/ /\ maker[m].hold = NoOwner /\ known[m] = {}
          /\ Publishes(m, TRUE)
          /\ UNCHANGED <<known, faults>>
       \/ /\ maker[m].hold # NoOwner \/ known[m] # {}
          /\ known' = [known EXCEPT ![m] = book[m]]
          /\ WithdrawsOrPublishes(m, book[m] \cap BlockedSides(m), TRUE)
          /\ UNCHANGED faults
       \/ /\ maker[m].hold # NoOwner \/ known[m] # {}
          /\ Fault
          /\ WithdrawsOrPublishes(m, known[m], FALSE)
          /\ UNCHANGED known
    /\ UNCHANGED <<holds, book, owner>>

Cancel(m) ==
    /\ At(m, "cancel")
    /\ \/ /\ book' = [book EXCEPT ![m] = @ \ maker[m].ids]
          /\ UNCHANGED faults
       \/ /\ \E canceled \in SUBSET maker[m].ids :
                 book' = [book EXCEPT ![m] = @ \ canceled]
          /\ Fault
    /\ maker' = [maker EXCEPT ![m] = Moved(m, "resync", {})]
    /\ UNCHANGED <<holds, known, published, owner>>

(* Mutant: what was asked to cancel is taken for cancelled. *)
ResyncFromMemory(m) ==
    /\ At(m, "resync")
    /\ known' = [known EXCEPT ![m] = @ \ BlockedSides(m)]
    /\ Publishes(m, TRUE)
    /\ UNCHANGED <<holds, book, owner, faults>>

Resync(m) ==
    /\ At(m, "resync")
    /\ \/ /\ known' = [known EXCEPT ![m] = book[m]]
          /\ Publishes(m, book[m] \cap BlockedSides(m) = {})
          /\ UNCHANGED faults
       \/ /\ Fault
          /\ Publishes(m, FALSE)
          /\ UNCHANGED known
    /\ UNCHANGED <<holds, book, owner>>

(* An exception: the runtime published before is published again.           *)
MakerFails(m) ==
    /\ maker[m].pc # "idle"
    /\ Fault
    /\ maker' = [maker EXCEPT ![m] = MakerIdle]
    /\ UNCHANGED <<holds, book, known, published, owner>>

(* An order of the maker is filled. *)
Fill(m, side) ==
    /\ side \in book[m]
    /\ book' = [book EXCEPT ![m] = @ \ {side}]
    /\ UNCHANGED <<holds, known, maker, published, owner, faults>>

-----------------------------------------------------------------------------
(* The owners of holds. *)

Acquire(o) ==
    /\ owner[o].pc = "out"
    /\ holds' = holds \cup {o}
    /\ owner' = [owner EXCEPT ![o] = [pc |-> "held", sound |-> FALSE]]
    /\ UNCHANGED <<book, known, maker, published, faults>>

Renew(o) ==
    /\ owner[o].pc = "held"
    /\ holds' = holds \cup {o}
    /\ UNCHANGED <<book, known, maker, published, owner, faults>>

Acknowledges(m, o) == published[m].confirmed = o

(* Mutant: one instance that acknowledges is enough. *)
ReadyOnFirst(o) == \E m \in Affected(o) : Acknowledges(m, o)

(* market_maker_resources_coordination_status. *)
Ready(o) == \A m \in Affected(o) : Acknowledges(m, o)

Proceed(o) ==
    /\ owner[o].pc = "held"
    /\ o \in holds
    /\ Ready(o)
    /\ owner' = [owner EXCEPT ![o] =
                    [pc |-> "guard", sound |-> \A m \in Affected(o) : published[m].current]]
    /\ UNCHANGED <<holds, book, known, maker, published, faults>>

(* _market_maker_self_trade_guard, and the open-order check of the          *)
(* rebalance cycle: the open orders are read once more before the request.  *)
Guard(o) ==
    /\ owner[o].pc = "guard"
    /\ LET clear == \A m \in Affected(o) : book[m] \cap Blocks[o][m] = {}
       IN  owner' = [owner EXCEPT ![o] =
               [pc |-> IF clear THEN "trading" ELSE "held", sound |-> clear /\ @.sound]]
    /\ UNCHANGED <<holds, book, known, maker, published, faults>>

(* The owner keeps its hold for the next cycle, or for a manual review.     *)
KeepHold(o) ==
    /\ owner[o].pc \in {"guard", "trading"}
    /\ owner' = [owner EXCEPT ![o] = [pc |-> "held", sound |-> FALSE]]
    /\ UNCHANGED <<holds, book, known, maker, published, faults>>

Release(o) ==
    /\ owner[o].pc # "out"
    /\ holds' = holds \ {o}
    /\ owner' = [owner EXCEPT ![o] = [pc |-> "out", sound |-> FALSE]]
    /\ Forget(o)
    /\ UNCHANGED <<book, known, faults>>

-----------------------------------------------------------------------------
MakerStep(m) ==
    \/ Read(m) \/ LiveSync(m) \/ Place(m) \/ EndLiveCycle(m)
    \/ Sync(m) \/ Cancel(m) \/ Resync(m) \/ MakerFails(m)

OwnerStep(o) ==
    \/ Acquire(o) \/ Renew(o) \/ Proceed(o) \/ Guard(o) \/ KeepHold(o) \/ Release(o)

Next ==
    \/ \E m \in Makers : MakerStep(m)
    \/ \E m \in Makers, side \in Sides : Fill(m, side)
    \/ \E o \in Owners : OwnerStep(o) \/ Expire(o)

Spec == Init /\ [][Next]_vars

(* The maker loops run on, and a live cycle ends; a loop that waits for its *)
(* acknowledgement looks for it again.  Nothing is assumed of the gates, of *)
(* fills, or of an owner that trades.                                       *)
Fairness ==
    /\ \A m \in Makers :
           WF_vars(Read(m) \/ LiveSync(m) \/ EndLiveCycle(m) \/ Sync(m) \/ Cancel(m) \/ Resync(m))
    /\ \A o \in Owners : WF_vars(Proceed(o))

FairSpec == Spec /\ Fairness

-----------------------------------------------------------------------------
(* An owner whose hold has lasted since every affected maker read it and    *)
(* acknowledged it trades alone: no order of a maker is left on the sides   *)
(* that it blocks, and no live cycle that began before the hold can still   *)
(* place one.                                                               *)
AcknowledgedMeansWithdrawn ==
    \A o \in Owners :
        owner[o].sound =>
            \A m \in Affected(o) : /\ book[m] \cap Blocks[o][m] = {}
                                   /\ maker[m].pc \notin {"live_sync", "place"}

(* coordination_hold_for shows the makers one hold, so of several owners    *)
(* the first by name is the one that is served: while its hold lasts it     *)
(* does not wait forever for an acknowledgement that nothing prevents.      *)
FirstOwnerServed ==
    \A o \in Owners :
        (\A p \in Owners : Rank[o] <= Rank[p])
            => []<>(owner[o].pc # "held" \/ o \notin holds)
=============================================================================
