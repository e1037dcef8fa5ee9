----------------------------- MODULE LeaderLease -----------------------------
(***************************************************************************)
(* What the leader lease of the data directory promises, without roles,    *)
(* tasks, requests or signals.  A process trades from the moment it takes  *)
(* the lease, at most until it gives the lease up; one that has stopped    *)
(* trading does not resume within the same tenure; and only the holder     *)
(* records the program switch.  RuntimeSupervisor implements it, and so    *)
(* does BlueGreen, with a guard that holds the lease and never trades.     *)
(***************************************************************************)
CONSTANTS
    Members,    \* who may hold the lease
    Traders,    \* the members that trade when they take it
    Nobody,     \* the lease is free
    Switches    \* what may be recorded of the program switch

VARIABLES
    holder,     \* the member that has the lease
    trading,    \* the members that trade or recover order intents
    switch      \* the recorded program switch

vars == <<holder, trading, switch>>

Init ==
    /\ holder = Nobody
    /\ trading = {}
    /\ switch \in Switches

Take(p) ==
    /\ holder = Nobody
    /\ holder' = p
    /\ trading' = {p} \cap Traders
    /\ UNCHANGED switch

StopTrading(p) ==
    /\ holder = p
    /\ trading' = {}
    /\ UNCHANGED <<holder, switch>>

GiveUp(p) ==
    /\ holder = p
    /\ holder' = Nobody
    /\ trading' = {}
    /\ UNCHANGED switch

Record(p) ==
    /\ holder = p
    /\ switch' \in Switches
    /\ UNCHANGED <<holder, trading>>

Next == \E p \in Members : Take(p) \/ StopTrading(p) \/ GiveUp(p) \/ Record(p)

Spec == Init /\ [][Next]_vars
=============================================================================
