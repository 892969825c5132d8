------------------------ MODULE MCPromptCompletion ------------------------
(* Two beats that can resume each other's session, or two calls that share  *)
(* the session of their agent, and the reset of their company or of a       *)
(* neighbour.                                                               *)
EXTENDS PromptCompletion, TLC

CONSTANTS b1, b2, c1, c2, ann, k1, k2

MCAgentOf == (b1 :> ann) @@ (b2 :> ann)
MCCompanyOf == [a \in Agents |-> k1]

\* Beats and calls have sessions of their own and meet nowhere: the states in
\* which both kinds have started are products of those explored.  Calls get two
\* sessions, and to them it is all the same whose company is reset.
OneKind ==
    \/ (\A b \in Beats : stage[b] = "new") /\ created <= 2 /\ k1 \notin resetting
    \/ \A c \in Calls : stage[c] = "new" /\ session[c] = NoSession

===========================================================================
