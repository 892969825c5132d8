------------------------- MODULE MCHeartbeatEngine --------------------------
(* Small instances of HeartbeatEngine: two agents of company c1, and one of *)
(* company c2 where the configuration has it.                               *)
EXTENDS HeartbeatEngine, TLC

CONSTANTS a1, a2, a3, c1, c2

MCCompanyOf == [a \in Agent |-> IF a = a3 THEN c2 ELSE c1]

BeatSymmetry == Permutations(Beat)
=============================================================================
