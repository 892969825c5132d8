--------------------------- MODULE MCIdempotency ----------------------------
(* A call and three retries; the last one has another body.                 *)
EXTENDS Idempotency

CONSTANTS r1, r2, r3, r4

MCBodyHash == [r \in Request |-> IF r = r4 THEN "h2" ELSE "h1"]
=============================================================================
