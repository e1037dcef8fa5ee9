---------------------- MODULE MakerCoordinationProofs ----------------------
(***************************************************************************)
(* Proofs about MakerCoordination for every set of owners, makers and      *)
(* sides.  The argument follows one hold: while it lasts, a maker that has *)
(* read it does not go live (MakerCurrent), so what the maker confirmed    *)
(* stays withdrawn (PublishedCurrent), and so does what an owner found     *)
(* confirmed (SoundCovered).                                               *)
(***************************************************************************)
EXTENDS MakerCoordination, TLAPS

(* A maker that has read a hold which still lasts withdraws its orders.     *)
MakerCurrent ==
    \A m \in Makers :
        maker[m].current => /\ maker[m].hold \in holds
                            /\ Blocks[maker[m].hold][m] # {}
                            /\ maker[m].pc \in {"sync", "cancel", "resync"}

(* A confirmation of a hold which still lasts is true.                      *)
PublishedCurrent ==
    \A m \in Makers :
        published[m].current => /\ published[m].confirmed \in holds
                                /\ Blocks[published[m].confirmed][m] # {}
                                /\ maker[m].pc \notin {"live_sync", "place"}
                                /\ book[m] \cap Blocks[published[m].confirmed][m] = {}

SoundCovered == \A o \in Owners : owner[o].sound => o \in holds

IInv ==
    /\ TypeOK
    /\ MakerCurrent
    /\ PublishedCurrent
    /\ SoundCovered
    /\ AcknowledgedMeansWithdrawn

USE CoordinationAssumption

(* What coordination_hold_for returns, and that it finds a hold if any.     *)
LEMMA HoldForFinds ==
    ASSUME TypeOK, NEW m \in Makers
    PROVE  /\ HoldFor(m) \in Owners \cup {NoOwner}
           /\ HoldFor(m) # NoOwner => HoldFor(m) \in holds /\ Blocks[HoldFor(m)][m] # {}
           /\ (\E o \in holds : Blocks[o][m] # {}) => HoldFor(m) # NoOwner
<1>1. CASE Holding(m) = {}
    BY <1>1 DEF HoldFor, Holding
<1>2. CASE Holding(m) # {}
  <2>1. Holding(m) \in SUBSET Owners /\ holds \subseteq Owners
      BY DEF Holding, TypeOK
  <2>2. PICK o \in Holding(m) : \A p \in Holding(m) \ {o} : Rank[o] < Rank[p]
      BY <1>2, <2>1
  <2>3. \A p \in Holding(m) : Rank[o] <= Rank[p]
      BY <2>1, <2>2
  <2>4. HoldFor(m) \in Holding(m)
      BY <1>2, <2>3 DEF HoldFor
  <2>5. QED
      BY <2>1, <2>4 DEF Holding
<1>3. QED
    BY <1>1, <1>2

(* What is read of a hold, once the hold has ended.                         *)
LEMMA ForgottenTyped ==
    /\ \A r \in Maker : /\ [r EXCEPT !.current = FALSE] \in Maker
                        /\ ~[r EXCEPT !.current = FALSE].current
                        /\ [r EXCEPT !.current = FALSE].pc = r.pc
    /\ \A r \in Runtime : /\ [r EXCEPT !.current = FALSE] \in Runtime
                          /\ ~[r EXCEPT !.current = FALSE].current
BY DEF Maker, Runtime

(* The bound on faults.                                                     *)
LEMMA FaultTyped == ASSUME faults \in 0..MaxFaults, Fault PROVE faults' \in 0..MaxFaults
BY DEF Fault

(* The initial state satisfies the invariant.                               *)
LEMMA IInvInit == Init => IInv
BY DEF Init, IInv, TypeOK, MakerCurrent, PublishedCurrent, SoundCovered,
       AcknowledgedMeansWithdrawn, Maker, MakerIdle, MakerStates, Runtime, NoRuntime, Owner

(* Publishing keeps the invariant: a confirmation of a lasting hold has to  *)
(* be true when it is published.                                            *)
LEMMA PublishesKeeps ==
    ASSUME IInv, NEW m \in Makers, NEW withdrawn \in BOOLEAN, Publishes(m, withdrawn),
           UNCHANGED <<holds, book, owner>>,
           withdrawn /\ maker[m].current => book[m] \cap Blocks[maker[m].hold][m] = {}
    PROVE  /\ maker' \in [Makers -> Maker] /\ published' \in [Makers -> Runtime]
           /\ MakerCurrent' /\ PublishedCurrent' /\ SoundCovered'
           /\ AcknowledgedMeansWithdrawn'
<1> DEFINE r == IF withdrawn
                THEN [confirmed |-> maker[m].hold, current |-> maker[m].current]
                ELSE NoRuntime
<1>1. /\ published' = [published EXCEPT ![m] = r]
      /\ maker' = [maker EXCEPT ![m] = MakerIdle]
    BY DEF Publishes
<1>2. maker[m] \in Maker
    BY DEF IInv, TypeOK
<1>3. r \in Runtime /\ MakerIdle \in Maker
    BY <1>2 DEF Maker, MakerIdle, MakerStates, Runtime, NoRuntime
<1>4. r.current => /\ r.confirmed \in holds
                   /\ Blocks[r.confirmed][m] # {}
                   /\ book[m] \cap Blocks[r.confirmed][m] = {}
    BY DEF IInv, MakerCurrent, NoRuntime
<1> HIDE DEF r
<1>5. maker' \in [Makers -> Maker] /\ published' \in [Makers -> Runtime]
    BY <1>1, <1>3 DEF IInv, TypeOK
<1>6. \A n \in Makers : IF n = m THEN maker'[n] = MakerIdle /\ published'[n] = r
                         ELSE maker'[n] = maker[n] /\ published'[n] = published[n]
    BY <1>1 DEF IInv, TypeOK
<1>7. MakerIdle.pc = "idle" /\ ~MakerIdle.current
    BY DEF MakerIdle
<1>8. MakerCurrent' /\ SoundCovered'
    BY <1>6, <1>7, <1>5 DEF IInv, MakerCurrent, SoundCovered
<1>9. PublishedCurrent'
    BY <1>4, <1>6, <1>7 DEF IInv, PublishedCurrent
<1>10. AcknowledgedMeansWithdrawn'
    BY <1>6, <1>7 DEF IInv, AcknowledgedMeansWithdrawn, Affected
<1>11. QED
    BY <1>5, <1>8, <1>9, <1>10

(* So does a maker that moves on in its cycle.                              *)
LEMMA MovesKeeps ==
    ASSUME IInv, NEW m \in Makers, NEW pc \in {"cancel", "resync", "place"},
           NEW ids \in SUBSET Sides,
           maker' = [maker EXCEPT ![m] = Moved(m, pc, ids)],
           maker[m].pc \in {"sync", "cancel", "live_sync"},
           pc = "place" <=> maker[m].pc = "live_sync",
           UNCHANGED <<holds, owner, published>>,
           \A n \in Makers : book'[n] \subseteq book[n]
    PROVE  /\ maker' \in [Makers -> Maker]
           /\ MakerCurrent' /\ PublishedCurrent' /\ SoundCovered'
           /\ AcknowledgedMeansWithdrawn'
<1>1. maker \in [Makers -> Maker]
    BY DEF IInv, TypeOK
<1>2. Moved(m, pc, ids) \in Maker
    BY <1>1 DEF Moved, Maker, MakerStates
<1>3. maker' \in [Makers -> Maker]
    BY <1>1, <1>2
<1>4. \A n \in Makers : /\ n # m => maker'[n] = maker[n]
                        /\ maker'[n].current = maker[n].current
                        /\ maker'[n].hold = maker[n].hold
    BY <1>1 DEF Moved
<1>5. maker'[m].pc = pc
    BY <1>1 DEF Moved
<1>6. MakerCurrent'
  <2>1. SUFFICES ASSUME NEW n \in Makers, maker'[n].current
                 PROVE  /\ maker'[n].hold \in holds
                        /\ Blocks[maker'[n].hold][n] # {}
                        /\ maker'[n].pc \in {"sync", "cancel", "resync"}
      BY DEF MakerCurrent
  <2>2. /\ maker[n].hold \in holds
        /\ Blocks[maker[n].hold][n] # {}
        /\ maker[n].pc \in {"sync", "cancel", "resync"}
      BY <1>4, <2>1 DEF IInv, MakerCurrent
  <2>3. QED
      BY <1>4, <1>5, <2>2
<1>7. \A n \in Makers :
         maker'[n].pc \in {"live_sync", "place"} => maker[n].pc \in {"live_sync", "place"}
    BY <1>4, <1>5
<1>8. PublishedCurrent'
    BY <1>7 DEF IInv, PublishedCurrent
<1>9. AcknowledgedMeansWithdrawn' /\ SoundCovered'
    BY <1>7 DEF IInv, AcknowledgedMeansWithdrawn, Affected, SoundCovered
<1>10. QED
    BY <1>3, <1>6, <1>8, <1>9

(* A live cycle reads the open orders before it places any.                 *)
LEMMA LiveSyncStep == ASSUME IInv, NEW m \in Makers, LiveSync(m) PROVE IInv'
<1>1. UNCHANGED <<holds, book, owner>> /\ maker[m].pc = "live_sync"
    BY DEF LiveSync, At
<1>2. CASE Fault /\ Publishes(m, FALSE) /\ UNCHANGED known
  <2>1. FALSE \in BOOLEAN /\ faults' \in 0..MaxFaults
      BY <1>2, FaultTyped DEF IInv, TypeOK
  <2>2. QED
      BY <1>1, <1>2, <2>1, PublishesKeeps DEF IInv, TypeOK
<1>3. CASE /\ known' = [known EXCEPT ![m] = book[m]]
           /\ maker' = [maker EXCEPT ![m] = Moved(m, "place", {})]
           /\ UNCHANGED <<published, faults>>
  <2>1. /\ maker' \in [Makers -> Maker]
        /\ MakerCurrent' /\ PublishedCurrent' /\ SoundCovered'
        /\ AcknowledgedMeansWithdrawn'
    <3>1. /\ {} \in SUBSET Sides /\ "place" \in {"cancel", "resync", "place"}
          /\ \A n \in Makers : book'[n] \subseteq book[n]
        BY <1>1
    <3>2. QED
        BY <1>1, <1>3, <3>1, MovesKeeps
  <2>2. QED
      BY <1>1, <1>3, <2>1 DEF IInv, TypeOK
<1>4. QED
    BY <1>2, <1>3 DEF LiveSync

(* A live cycle ends; it read no hold.                                      *)
LEMMA EndLiveCycleStep == ASSUME IInv, NEW m \in Makers, EndLiveCycle(m) PROVE IInv'
<1>1. ~maker[m].current
    BY DEF IInv, MakerCurrent, EndLiveCycle, At
<1>2. QED
    BY <1>1, PublishesKeeps DEF IInv, TypeOK, EndLiveCycle

(* A cycle that may not place reads the open orders, or fails to.           *)
LEMMA SyncStep == ASSUME IInv, NEW m \in Makers, Sync(m) PROVE IInv'
<1>1. UNCHANGED <<holds, book, owner>> /\ maker[m].pc = "sync"
    BY DEF Sync, At
<1>2. maker[m].current => maker[m].hold # NoOwner /\ BlockedSides(m) = Blocks[maker[m].hold][m]
    BY DEF IInv, TypeOK, MakerCurrent, BlockedSides
<1>3. /\ known' \in [Makers -> SUBSET Sides]
      /\ faults' \in 0..MaxFaults
    BY FaultTyped DEF Sync, IInv, TypeOK
<1>4. ASSUME NEW ids \in SUBSET Sides, NEW withdrawn \in BOOLEAN,
             WithdrawsOrPublishes(m, ids, withdrawn),
             withdrawn /\ ids = {} /\ maker[m].current
                => book[m] \cap Blocks[maker[m].hold][m] = {}
      PROVE  IInv'
  <2>1. CASE ids = {}
      BY <1>1, <1>3, <1>4, <2>1, PublishesKeeps DEF IInv, TypeOK, WithdrawsOrPublishes
  <2>2. CASE ids # {}
    <3>1. maker' = [maker EXCEPT ![m] = Moved(m, "cancel", ids)] /\ published' = published
        BY <1>4, <2>2 DEF WithdrawsOrPublishes
    <3>2. /\ maker' \in [Makers -> Maker]
          /\ MakerCurrent' /\ PublishedCurrent' /\ SoundCovered'
          /\ AcknowledgedMeansWithdrawn'
        BY <1>1, <3>1, MovesKeeps
    <3>3. QED
        BY <1>1, <1>3, <3>1, <3>2 DEF IInv, TypeOK
  <2>3. QED
      BY <2>1, <2>2
<1>5. CASE maker[m].hold = NoOwner /\ Publishes(m, TRUE)
    BY <1>1, <1>2, <1>3, <1>5, PublishesKeeps DEF IInv, TypeOK
<1>6. CASE WithdrawsOrPublishes(m, book[m] \cap BlockedSides(m), TRUE)
  <2>1. book[m] \cap BlockedSides(m) \in SUBSET Sides
      BY DEF IInv, TypeOK
  <2>2. QED
      BY <1>2, <1>4, <1>6, <2>1
<1>7. CASE WithdrawsOrPublishes(m, known[m], FALSE)
  <2>1. known[m] \in SUBSET Sides
      BY DEF IInv, TypeOK
  <2>2. QED
      BY <1>4, <1>7, <2>1
<1>8. QED
    BY <1>5, <1>6, <1>7 DEF Sync

(* Only orders that were known are withdrawn.                               *)
LEMMA CancelStep == ASSUME IInv, NEW m \in Makers, Cancel(m) PROVE IInv'
<1>1. /\ maker' = [maker EXCEPT ![m] = Moved(m, "resync", {})]
      /\ maker[m].pc = "cancel"
      /\ UNCHANGED <<holds, known, published, owner>>
    BY DEF Cancel, At
<1>2. \E canceled \in SUBSET maker[m].ids : book' = [book EXCEPT ![m] = @ \ canceled]
    BY DEF Cancel
<1>3. /\ \A n \in Makers : book'[n] \subseteq book[n]
      /\ book' \in [Makers -> SUBSET Sides]
    BY <1>2 DEF IInv, TypeOK
<1>4. faults' \in 0..MaxFaults
    BY FaultTyped DEF Cancel, IInv, TypeOK
<1>5. /\ maker' \in [Makers -> Maker]
      /\ MakerCurrent' /\ PublishedCurrent' /\ SoundCovered'
      /\ AcknowledgedMeansWithdrawn'
  <2>1. {} \in SUBSET Sides /\ "resync" \in {"cancel", "resync", "place"}
      OBVIOUS
  <2>2. QED
      BY <1>1, <1>3, <2>1, MovesKeeps
<1>6. QED
    BY <1>1, <1>3, <1>4, <1>5 DEF IInv, TypeOK

(* What is confirmed was read after the withdrawal.                         *)
LEMMA ResyncStep == ASSUME IInv, NEW m \in Makers, Resync(m) PROVE IInv'
<1>1. UNCHANGED <<holds, book, owner>>
    BY DEF Resync
<1>2. maker[m].current => BlockedSides(m) = Blocks[maker[m].hold][m]
    BY DEF IInv, TypeOK, MakerCurrent, BlockedSides
<1>3. /\ known' \in [Makers -> SUBSET Sides]
      /\ faults' \in 0..MaxFaults
    BY FaultTyped DEF Resync, IInv, TypeOK
<1>4. \/ Publishes(m, book[m] \cap BlockedSides(m) = {})
      \/ Publishes(m, FALSE)
    BY DEF Resync
<1>5. QED
    BY <1>1, <1>2, <1>3, <1>4, PublishesKeeps DEF IInv, TypeOK

(* A maker does not go live while a hold lasts on its market.               *)
LEMMA ReadStep == ASSUME IInv, NEW m \in Makers, Read(m) PROVE IInv'
<1> USE DEF IInv, Read, At, MakerIdle
<1>1. TypeOK'
    BY HoldForFinds DEF TypeOK, Maker, MakerStates, Runtime, Owner
<1>2. MakerCurrent'
    BY HoldForFinds DEF TypeOK, MakerCurrent, Maker, MakerStates
<1>3. PublishedCurrent'
    BY HoldForFinds DEF TypeOK, MakerCurrent, PublishedCurrent
<1>4. SoundCovered'
    BY DEF TypeOK, SoundCovered
<1>5. AcknowledgedMeansWithdrawn'
  <2>1. \A o \in Owners : owner[o].sound /\ m \in Affected(o) => maker'[m].pc = "sync"
      BY HoldForFinds DEF TypeOK, SoundCovered, Affected
  <2>2. \A n \in Makers : n # m => maker'[n] = maker[n]
      BY DEF TypeOK
  <2>3. QED
      BY <2>1, <2>2 DEF TypeOK, AcknowledgedMeansWithdrawn, Affected
<1>6. QED
    BY <1>1, <1>2, <1>3, <1>4, <1>5

(* Nothing current or sound is about a maker that is live.                  *)
LEMMA PlaceStep == ASSUME IInv, NEW m \in Makers, Place(m) PROVE IInv'
<1> USE DEF IInv, Place, At
<1>1. TypeOK'
    BY DEF TypeOK, Maker, MakerStates, Runtime, Owner
<1>2. MakerCurrent'
    BY DEF TypeOK, MakerCurrent
<1>3. PublishedCurrent'
    BY DEF TypeOK, MakerCurrent, PublishedCurrent
<1>4. SoundCovered'
    BY DEF TypeOK, SoundCovered
<1>5. AcknowledgedMeansWithdrawn'
    BY DEF TypeOK, AcknowledgedMeansWithdrawn, PublishedCurrent, Affected
<1>6. QED
    BY <1>1, <1>2, <1>3, <1>4, <1>5

(* A failed cycle leaves the confirmation that stands.                      *)
LEMMA MakerFailsStep == ASSUME IInv, NEW m \in Makers, MakerFails(m) PROVE IInv'
<1> USE DEF IInv, MakerFails, Fault, MakerIdle
<1>1. TypeOK'
    BY DEF TypeOK, Maker, MakerStates, Runtime, Owner
<1>2. MakerCurrent'
    BY DEF TypeOK, MakerCurrent
<1>3. PublishedCurrent'
    BY DEF TypeOK, MakerCurrent, PublishedCurrent
<1>4. SoundCovered'
    BY DEF TypeOK, SoundCovered
<1>5. AcknowledgedMeansWithdrawn'
    BY DEF TypeOK, AcknowledgedMeansWithdrawn, PublishedCurrent, Affected
<1>6. QED
    BY <1>1, <1>2, <1>3, <1>4, <1>5

(* A fill takes an order away.                                              *)
LEMMA FillStep == ASSUME IInv, NEW m \in Makers, NEW side \in Sides, Fill(m, side) PROVE IInv'
<1> USE DEF IInv, Fill
<1>1. TypeOK'
    BY DEF TypeOK, Maker, MakerStates, Runtime, Owner
<1>2. MakerCurrent'
    BY DEF TypeOK, MakerCurrent
<1>3. PublishedCurrent'
    BY DEF TypeOK, MakerCurrent, PublishedCurrent
<1>4. SoundCovered'
    BY DEF TypeOK, SoundCovered
<1>5. AcknowledgedMeansWithdrawn'
    BY DEF TypeOK, AcknowledgedMeansWithdrawn, PublishedCurrent, Affected
<1>6. QED
    BY <1>1, <1>2, <1>3, <1>4, <1>5

(* An owner without a hold takes one.                                       *)
LEMMA AcquireStep == ASSUME IInv, NEW o \in Owners, Acquire(o) PROVE IInv'
<1> USE DEF IInv, Acquire
<1>1. TypeOK'
    BY DEF TypeOK, Maker, MakerStates, Runtime, Owner
<1>2. MakerCurrent'
    BY DEF TypeOK, MakerCurrent
<1>3. PublishedCurrent'
    BY DEF TypeOK, MakerCurrent, PublishedCurrent
<1>4. SoundCovered'
    BY DEF TypeOK, SoundCovered
<1>5. AcknowledgedMeansWithdrawn'
    BY DEF TypeOK, AcknowledgedMeansWithdrawn, PublishedCurrent, Affected
<1>6. QED
    BY <1>1, <1>2, <1>3, <1>4, <1>5

(* A hold is renewed.                                                       *)
LEMMA RenewStep == ASSUME IInv, NEW o \in Owners, Renew(o) PROVE IInv'
<1> USE DEF IInv, Renew
<1>1. TypeOK'
    BY DEF TypeOK, Maker, MakerStates, Runtime, Owner
<1>2. MakerCurrent'
    BY DEF TypeOK, MakerCurrent
<1>3. PublishedCurrent'
    BY DEF TypeOK, MakerCurrent, PublishedCurrent
<1>4. SoundCovered'
    BY DEF TypeOK, SoundCovered
<1>5. AcknowledgedMeansWithdrawn'
    BY DEF TypeOK, AcknowledgedMeansWithdrawn, PublishedCurrent, Affected
<1>6. QED
    BY <1>1, <1>2, <1>3, <1>4, <1>5

(* An owner proceeds on confirmations of all affected makers.               *)
LEMMA ProceedStep == ASSUME IInv, NEW o \in Owners, Proceed(o) PROVE IInv'
<1> USE DEF IInv, Proceed, Ready, Acknowledges, Affected
<1>1. TypeOK'
    BY DEF TypeOK, Maker, MakerStates, Runtime, Owner
<1>2. MakerCurrent'
    BY DEF TypeOK, MakerCurrent
<1>3. PublishedCurrent'
    BY DEF TypeOK, MakerCurrent, PublishedCurrent
<1>4. SoundCovered'
    BY DEF TypeOK, SoundCovered
<1>5. AcknowledgedMeansWithdrawn'
  <2>1. \A p \in Owners : p # o => owner'[p] = owner[p]
      BY DEF TypeOK
  <2>2. owner'[o].sound => \A m \in Affected(o) : published[m].current /\ published[m].confirmed = o
      BY DEF TypeOK
  <2>3. owner'[o].sound =>
            \A m \in Affected(o) : /\ book[m] \cap Blocks[o][m] = {}
                                   /\ maker[m].pc \notin {"live_sync", "place"}
      BY <2>2 DEF PublishedCurrent
  <2>4. QED
      BY <2>1, <2>3 DEF AcknowledgedMeansWithdrawn
<1>6. QED
    BY <1>1, <1>2, <1>3, <1>4, <1>5

(* The last look at the open orders keeps or drops the right to trade.      *)
LEMMA GuardStep == ASSUME IInv, NEW o \in Owners, Guard(o) PROVE IInv'
<1> USE DEF IInv, Guard, Affected
<1>1. TypeOK'
    BY DEF TypeOK, Maker, MakerStates, Runtime, Owner
<1>2. MakerCurrent'
    BY DEF TypeOK, MakerCurrent
<1>3. PublishedCurrent'
    BY DEF TypeOK, MakerCurrent, PublishedCurrent
<1>4. SoundCovered'
    BY DEF TypeOK, SoundCovered
<1>5. AcknowledgedMeansWithdrawn'
  <2>1. \A p \in Owners : owner'[p].sound => owner[p].sound
      BY DEF TypeOK
  <2>2. QED
      BY <2>1 DEF AcknowledgedMeansWithdrawn
<1>6. QED
    BY <1>1, <1>2, <1>3, <1>4, <1>5

(* The owner waits again.                                                   *)
LEMMA KeepHoldStep == ASSUME IInv, NEW o \in Owners, KeepHold(o) PROVE IInv'
<1> USE DEF IInv, KeepHold
<1>1. TypeOK'
    BY DEF TypeOK, Maker, MakerStates, Runtime, Owner
<1>2. MakerCurrent'
    BY DEF TypeOK, MakerCurrent
<1>3. PublishedCurrent'
    BY DEF TypeOK, MakerCurrent, PublishedCurrent
<1>4. SoundCovered'
    BY DEF TypeOK, SoundCovered
<1>5. AcknowledgedMeansWithdrawn'
    BY DEF TypeOK, AcknowledgedMeansWithdrawn, PublishedCurrent, Affected
<1>6. QED
    BY <1>1, <1>2, <1>3, <1>4, <1>5

(* A hold ends, and what was read of it is no longer current.               *)
LEMMA ReleaseStep == ASSUME IInv, NEW o \in Owners, Release(o) PROVE IInv'
<1> USE DEF IInv, Release, Forget
<1>1. TypeOK'
  <2>1. maker' \in [Makers -> Maker] /\ published' \in [Makers -> Runtime]
      BY ForgottenTyped DEF TypeOK
  <2>2. owner' \in [Owners -> Owner]
      BY DEF TypeOK, Owner
  <2>3. QED
      BY <2>1, <2>2 DEF TypeOK
<1>2. MakerCurrent'
    BY DEF TypeOK, MakerCurrent
<1>3. PublishedCurrent'
    BY DEF TypeOK, MakerCurrent, PublishedCurrent
<1>4. SoundCovered'
    BY DEF TypeOK, SoundCovered
<1>5. AcknowledgedMeansWithdrawn'
    BY DEF TypeOK, AcknowledgedMeansWithdrawn, PublishedCurrent, Affected
<1>6. QED
    BY <1>1, <1>2, <1>3, <1>4, <1>5

(* The same, when nobody renewed the hold.                                  *)
LEMMA ExpireStep == ASSUME IInv, NEW o \in Owners, Expire(o) PROVE IInv'
<1> USE DEF IInv, Expire, Forget
<1>1. TypeOK'
  <2>1. maker' \in [Makers -> Maker] /\ published' \in [Makers -> Runtime]
      BY ForgottenTyped DEF TypeOK
  <2>2. owner' \in [Owners -> Owner]
      BY DEF TypeOK, Owner
  <2>3. QED
      BY <2>1, <2>2 DEF TypeOK
<1>2. MakerCurrent'
    BY DEF TypeOK, MakerCurrent
<1>3. PublishedCurrent'
    BY DEF TypeOK, MakerCurrent, PublishedCurrent
<1>4. SoundCovered'
    BY DEF TypeOK, SoundCovered
<1>5. AcknowledgedMeansWithdrawn'
    BY DEF TypeOK, AcknowledgedMeansWithdrawn, PublishedCurrent, Affected
<1>6. QED
    BY <1>1, <1>2, <1>3, <1>4, <1>5

(* Every step keeps the invariant.                                          *)
LEMMA IInvStep == IInv /\ [Next]_vars => IInv'
<1> SUFFICES ASSUME IInv, [Next]_vars PROVE IInv'
    OBVIOUS
<1>1. CASE UNCHANGED vars
  <2>1. TypeOK' /\ MakerCurrent' /\ PublishedCurrent' /\ SoundCovered'
      BY <1>1 DEF vars, IInv, TypeOK, MakerCurrent, PublishedCurrent, SoundCovered
  <2>2. AcknowledgedMeansWithdrawn'
      BY <1>1 DEF vars, IInv, AcknowledgedMeansWithdrawn, Affected
  <2>3. QED
      BY <2>1, <2>2 DEF IInv
<1>2. ASSUME NEW m \in Makers, MakerStep(m) PROVE IInv'
    BY <1>2, ReadStep, LiveSyncStep, PlaceStep, EndLiveCycleStep, SyncStep, CancelStep,
       ResyncStep, MakerFailsStep DEF MakerStep
<1>3. ASSUME NEW m \in Makers, NEW side \in Sides, Fill(m, side) PROVE IInv'
    BY <1>3, FillStep
<1>4. ASSUME NEW o \in Owners, OwnerStep(o) \/ Expire(o) PROVE IInv'
    BY <1>4, AcquireStep, RenewStep, ProceedStep, GuardStep, KeepHoldStep, ReleaseStep,
       ExpireStep DEF OwnerStep
<1>5. QED
    BY <1>1, <1>2, <1>3, <1>4 DEF Next

(* The variables keep their types for every set of owners and makers.       *)
THEOREM TypeCorrect == Spec => []TypeOK
<1>1. IInv => TypeOK
    BY DEF IInv
<1>2. QED
    BY IInvInit, IInvStep, <1>1, PTL DEF Spec

(* An owner whose hold has lasted since the affected makers confirmed it    *)
(* trades alone on the sides that it blocks, however many owners, makers    *)
(* and failures there are.                                                  *)
THEOREM ConfirmedHoldsProtect == Spec => []AcknowledgedMeansWithdrawn
<1>1. IInv => AcknowledgedMeansWithdrawn
    BY DEF IInv
<1>2. QED
    BY IInvInit, IInvStep, <1>1, PTL DEF Spec
=============================================================================
