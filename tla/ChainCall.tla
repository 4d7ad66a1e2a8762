----------------------------- MODULE ChainCall -----------------------------
(***************************************************************************)
(* One call of a verify_chain, authority's or delegation's: its arguments, *)
(* the group of checks it has reached, and how a group ends it or lets it  *)
(* go on.  The two functions differ in their checks, not in this.          *)
(***************************************************************************)
EXTENDS DTGBase

CONSTANTS
    Chains,    \* the chains the call may be given
    Requests   \* its other arguments

VARIABLES
    chain,     \* the argument `chain`
    request,   \* the other arguments
    pc,        \* the group of checks that is next
    index,     \* the loop variable of that group
    verdict,   \* "pending", "accepted", or the error returned
    granted    \* what the call returned, None until and unless it succeeds

vars == <<chain, request, pc, index, verdict, granted>>

Init ==
    /\ chain \in Chains
    /\ request \in Requests
    /\ pc = "length"
    /\ index = 1
    /\ verdict = "pending"
    /\ granted = None

\* `return Err(fault)`.  The index stays at the link that was refused.
Refuse(fault) ==
    /\ verdict' = fault
    /\ pc' = "done"
    /\ UNCHANGED <<index, granted>>

\* The next group of checks, its loop starting at link i.
GoOn(stage, i) ==
    /\ pc' = stage
    /\ index' = i
    /\ UNCHANGED <<verdict, granted>>

\* `Ok(result)`.
Return(result) ==
    /\ verdict' = "accepted"
    /\ granted' = result
    /\ pc' = "done"
    /\ UNCHANGED index

\* One round of a group: the first failing check is returned, or, none
\* failing, the call goes on.
Judge(checks, stage, i) ==
    /\ \/ \E fault \in FirstFault(checks) : Refuse(fault)
       \/ Passes(checks) /\ GoOn(stage, i)
    /\ UNCHANGED <<chain, request>>

\* The call has returned.
Returned == pc = "done" /\ UNCHANGED vars

\* The answer a caller sees, its error left out.
Answer == CASE verdict = "pending"  -> "pending"
            [] verdict = "accepted" -> "granted"
            [] OTHER                -> "refused"
=============================================================================
