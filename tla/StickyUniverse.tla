--------------------------- MODULE StickyUniverse ---------------------------
(***************************************************************************)
(* What tradier_collector/contract_tracker.py promises for one trading     *)
(* day: once a contract is quoted it is quoted for the rest of the         *)
(* session.  For each key (a ticker on a date) the set of contracts that   *)
(* is requested only grows, over all lives of the process.                 *)
(***************************************************************************)
CONSTANTS Keys, Symbols

VARIABLE universe   \* key -> the contracts of its latest quote request

Init == universe = [k \in Keys |-> {}]

Request(k, contracts) ==
    /\ universe[k] \subseteq contracts
    /\ universe' = [universe EXCEPT ![k] = contracts]

Next == \E k \in Keys, contracts \in SUBSET Symbols : Request(k, contracts)

Spec == Init /\ [][Next]_universe
=============================================================================
