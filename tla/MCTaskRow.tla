----------------------------- MODULE MCTaskRow -----------------------------
(* A call that may create the task, one that verifies it without waiting    *)
(* for its update, a claim, a completion, a block and an update that plans. *)
(* Any AtOnce of them: calls that have not begun need not begin.            *)
EXTENDS TaskRow, TLC, FiniteSets

CONSTANTS new, check, claim, done, block, plan, AtOnce

MCKind == [c \in Calls |->
    CASE c = new -> "create" [] c = check -> "verify" [] c = claim -> "claim"
      [] c = done -> "complete" [] c = block -> "block" [] OTHER -> "plan"]

SomeCalls == Cardinality({c \in Calls : at[c] # "idle"}) <= AtOnce

============================================================================
