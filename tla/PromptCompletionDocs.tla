----------------------- MODULE PromptCompletionDocs -----------------------
(* A statement of a comment that the code does not keep.                    *)
EXTENDS MCPromptCompletion

\* routes/company.routes.ts:68: "Reset only the authenticated user's company",
\* "so other users keep running".  A beat of another company that waits keeps
\* its entry in the map of completions while a company is reset.
OthersKeepRunning ==
    [][\A k \in Companies, b \in Beats :
         BeginReset(k) /\ session[b] # NoSession /\ CompanyOf[AgentOf[b]] # k /\ pending[session[b]] = b
            => pending'[session[b]] = b]_vars

===========================================================================
