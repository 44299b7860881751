--------------------------- MODULE MCEngineHistory ---------------------------
(* Small instances of the matching engine with a memory for TLC. *)
EXTENDS MCMatchingEngine, EngineHistory, TLC

(* The referrals that TiedNeeds does not tell apart. *)
Tied == Permutations({r1, r2})

=============================================================================
