-------------------------- MODULE AuthorityDecision --------------------------
(***************************************************************************)
(* The abstract verifier: asked about a chain, it answers once, and grants *)
(* exactly when the presenter is entitled.                                 *)
(***************************************************************************)
EXTENDS AuthorityTerms

VARIABLES chain, request, answer

vars == <<chain, request, answer>>

Init == /\ chain \in Seq(Link)
        /\ request \in Request
        /\ answer = "pending"

Decide == /\ answer = "pending"
          /\ answer' = IF Entitled(chain, request) THEN "granted" ELSE "refused"
          /\ UNCHANGED <<chain, request>>

Next == Decide

Spec == Init /\ [][Next]_vars /\ WF_vars(Next)
=============================================================================
