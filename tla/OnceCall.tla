------------------------------ MODULE OnceCall ------------------------------
(***************************************************************************)
(* What one key of the replay cache promises to those who send its call:   *)
(* the call takes effect at most once, every answer is true when it is     *)
(* given, and whoever was answered causes no effect any more.  The promise *)
(* can be broken, by a request that runs without a reservation; then the   *)
(* call may take effect again, but the answers stay true.                  *)
(***************************************************************************)
CONSTANTS Request, NoRequest, BodyHash

VARIABLES
    done,       \* requests that took effect
    word,       \* word[r]: the answer r was given, "none" so far
    of,         \* of[r]: the request whose answer r was given, if any
    broken      \* a request ran without a reservation

onceVars == <<done, word, of, broken>>

OnceInit ==
    /\ done = {}
    /\ word = [r \in Request |-> "none"]
    /\ of = [r \in Request |-> NoRequest]
    /\ broken = FALSE

Silent(r) == word[r] = "none"

TakeEffect(r) ==
    /\ Silent(r)
    /\ done = {} \/ broken
    /\ done' = done \cup {r}
    /\ UNCHANGED <<word, of, broken>>

\* "Done", by r itself.
Confirm(r) ==
    /\ Silent(r)
    /\ r \in done
    /\ word' = [word EXCEPT ![r] = "ok"]
    /\ UNCHANGED <<done, of, broken>>

\* "Done", by s before: with r's own body, unless the promise is broken.
Replay(r, s) ==
    /\ Silent(r)
    /\ r \notin done
    /\ s \in done
    /\ BodyHash[s] = BodyHash[r] \/ broken
    /\ word' = [word EXCEPT ![r] = "replay"]
    /\ of' = [of EXCEPT ![r] = s]
    /\ UNCHANGED <<done, broken>>

\* "Not by you": refused, in conflict with another body, or under way already.
Deny(r) ==
    /\ Silent(r)
    /\ r \notin done
    /\ word' = [word EXCEPT ![r] = "denied"]
    /\ UNCHANGED <<done, of, broken>>

\* "Something went wrong" says nothing of the effect.
Shrug(r) ==
    /\ Silent(r)
    /\ word' = [word EXCEPT ![r] = "error"]
    /\ UNCHANGED <<done, of, broken>>

Break ==
    /\ broken' = TRUE
    /\ UNCHANGED <<done, word, of>>

OnceNext ==
    \/ \E r \in Request : TakeEffect(r) \/ Confirm(r) \/ Deny(r) \/ Shrug(r)
    \/ \E r, s \in Request : Replay(r, s)
    \/ Break

OnceSpec == OnceInit /\ [][OnceNext]_onceVars

=============================================================================
