--------------------------- MODULE MCOrderJournal ---------------------------
(* Instances of OrderJournal for TLC. *)
EXTENDS OrderJournal, TLC

CONSTANTS i1, i2, i3, legacy, m, s1, s2

OneMarket == [id \in ClientIds |-> m]

(* The client ids are alike, and so are the submitting coroutines. *)
Symmetric == Permutations({i1, i2, i3}) \cup Permutations({s1, s2})
=============================================================================
