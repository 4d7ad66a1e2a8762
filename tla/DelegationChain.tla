--------------------------- MODULE DelegationChain ---------------------------
(***************************************************************************)
(* delegation::verify_chain, one check-group at a time: the length, each   *)
(* link on its own, the presenter, the walk from leaf to root, the root,   *)
(* and the act asked about.  Unlike authority's there is no loop over the  *)
(* depth below each ancestor: that the budget falls at every step of the   *)
(* walk has to be enough.                                                  *)
(***************************************************************************)
EXTENDS DelegationTerms, ChainCall

ASSUME ChainsAssumption == Chains \subseteq Seq(Link)
ASSUME RequestsAssumption == Requests \subseteq Request

Faults ==
    {"EmptyChain", "TooDeep", "NotADelegationGrant", "AcceptanceInChain",
     "NoScope", "NotValidNow", "NoExpiry", "NotTheDelegate", "Digest",
     "BrokenLink", "IssuerNotParentSubject", "RedelegationNotPermitted",
     "DepthNotNarrowed", "WidensScope", "OutlivesParent", "RootNotPrincipal",
     "ActNotAppointed"}

Stages == {"length", "links", "walk", "asked", "done"}

VerifiedDelegation == [delegate : Ref, scope : SUBSET Acts, principal : Ref]

ASSUME NoneIsNoGrant == None \notin VerifiedDelegation

(* Definitions named ...Mutant are not the code's: each is a bug one could  *)
(* plausibly make in the definition that follows it, kept to show that the  *)
(* property named beside it would notice.                                   *)

-----------------------------------------------------------------------------
(* The checks of each group, in the order the source makes them.            *)

LengthChecks ==
    << Check("EmptyChain", Len(chain) = 0),
       Check("TooDeep",    Len(chain) > MaxChainDepth) >>

\* The last instant of a window taken for the first after it
\* (ImplementsDecision).
ExpiredMutant(link, at) == link.until # None /\ link.until <= at

Expired(link, at) == link.until # None /\ link.until < at

LinkChecks(link) ==
    << Check("NotADelegationGrant", link.kind # "Delegation"),
       Check("AcceptanceInChain",   link.accepts),
       Check("NoScope",             link.scope = {}),
       Check("NotValidNow",         link.from > request.at),
       Check("NoExpiry",            link.until = None),
       Check("NotValidNow",         Expired(link, request.at)) >>

PresenterChecks ==
    << Check("NotTheDelegate",
             ~ SameReference(Leaf(chain).subject, request.presenter)) >>

\* The principal may re-delegate at any depth (DelegatorWasAppointed).
NotAppointedAboveMutant(link, parent) ==
    /\ ~ SameReference(link.issuer, parent.subject)
    /\ ~ SameReference(link.issuer, request.principal)

\* Only the party a delegation appointed may re-delegate it.
NotAppointedAbove(link, parent) == ~ SameReference(link.issuer, parent.subject)

\* An absent maxDepth permits, as a VAC's absent maxAttenuation does
\* (NeverMoreThanAppointed).
BudgetMutant(grant) ==
    IF grant.maxDepth = None THEN MaxChainDepth ELSE grant.maxDepth

\* max_depth.unwrap_or(0): how many re-delegations may lie below a grant.
Budget(grant) == IF grant.maxDepth = None THEN 0 ELSE grant.maxDepth

\* Reached only for a parent whose budget is not 0, so 0 is never decremented.
NotNarrowed(link, parent) ==
    link.maxDepth # None /\ link.maxDepth > Budget(parent) - 1

WalkChecks(link, parent) ==
    << Check("Digest",       parent.digest = None),
       Check("BrokenLink",   link.parent = None),
       Check("Digest",       link.parent # None /\ Unreadable(link.parent)),
       Check("BrokenLink",   link.parent # None
                             /\ ~ SameDigest(link.parent, parent.digest)),
       Check("IssuerNotParentSubject",   NotAppointedAbove(link, parent)),
       Check("RedelegationNotPermitted", Budget(parent) = 0),
       Check("DepthNotNarrowed",         NotNarrowed(link, parent)),
       Check("WidensScope",    ~ (link.scope \subseteq parent.scope)),
       Check("OutlivesParent", /\ link.until # None
                               /\ parent.until # None
                               /\ link.until > parent.until) >>

RootChecks ==
    << Check("RootNotPrincipal",
             ~ SameReference(Root(chain).issuer, request.principal)),
       Check("BrokenLink", Root(chain).parent # None) >>

AskedChecks ==
    << Check("ActNotAppointed", request.act \notin Leaf(chain).scope) >>

-----------------------------------------------------------------------------
CheckLength == pc = "length" /\ Judge(LengthChecks, "links", 1)

CheckLink ==
    /\ pc = "links"
    /\ index <= Len(chain)
    /\ Judge(LinkChecks(chain[index]), "links", index + 1)

\* The walk starts above the leaf, beyond a chain of one (TypeOK).
CheckPresenterMutant ==
    /\ pc = "links"
    /\ index > Len(chain)
    /\ Judge(PresenterChecks, "walk", 2)

CheckPresenter ==
    /\ pc = "links"
    /\ index > Len(chain)
    /\ Judge(PresenterChecks, "walk", 1)

WalkLink ==
    /\ pc = "walk"
    /\ index < Len(chain)
    /\ Judge(WalkChecks(chain[index], chain[index + 1]), "walk", index + 1)

CheckRoot ==
    /\ pc = "walk"
    /\ index = Len(chain)
    /\ Judge(RootChecks, "asked", 1)

Appoint ==
    Return([delegate  |-> Leaf(chain).subject,
            scope     |-> Leaf(chain).scope,
            principal |-> request.principal])

CheckAsked ==
    /\ pc = "asked"
    /\ \/ \E fault \in FirstFault(AskedChecks) : Refuse(fault)
       \/ Passes(AskedChecks) /\ Appoint
    /\ UNCHANGED <<chain, request>>

Next ==
    \/ CheckLength \/ CheckLink \/ CheckPresenter \/ WalkLink
    \/ CheckRoot \/ CheckAsked \/ Returned

\* The call runs on its caller's thread and waits for nothing.
Spec == Init /\ [][Next]_vars /\ WF_vars(Next)

-----------------------------------------------------------------------------
(* Type invariant: the call's locals stay in range, and a VerifiedDelegation*)
(* exists exactly when the verdict is "accepted".                           *)
TypeOK ==
    /\ chain \in Seq(Link)
    /\ request \in Request
    /\ pc \in Stages
    /\ index \in 1 .. Len(chain) + 1
    /\ pc = "walk" => index <= Len(chain)
    /\ verdict \in Faults \cup {"pending", "accepted"}
    /\ granted \in VerifiedDelegation \cup {None}
    /\ (pc = "done") <=> (verdict # "pending")
    /\ (granted # None) <=> (verdict = "accepted")

(* What verify_chain returns is never more than the root, or any grant      *)
(* between, appointed for, and the principal let each hop happen: the       *)
(* number of re-delegations below a link is at most the maxDepth it bears,  *)
(* one without maxDepth has none below it, and the act asked about is in    *)
(* every scope.  The code reads two neighbouring budgets at a time.         *)
NeverMoreThanAppointed ==
    granted # None =>
        \A j \in DOMAIN chain :
            /\ granted.scope \subseteq chain[j].scope
            /\ request.act \in chain[j].scope
            /\ chain[j].from <= request.at
            /\ chain[j].until # None /\ request.at <= chain[j].until
            /\ j > 1 => chain[j].maxDepth # None /\ j - 1 <= chain[j].maxDepth

(* Every hop of an accepted chain was made by a party that could, at that   *)
(* instant, have done the act in the principal's name itself: the chain     *)
(* above each link appoints that link's issuer.  So each act is attributed  *)
(* to the principal through delegates only (delegation.rs, "Only the party  *)
(* a delegation appointed may re-delegate it").                             *)
DelegatorWasAppointed ==
    granted # None =>
        \A i \in 1 .. Len(chain) - 1 :
            Appointed(SubSeq(chain, i + 1, Len(chain)),
                      [request EXCEPT !.presenter = chain[i].issuer])

(* verify_chain decides as the abstract verifier: it grants if, and only    *)
(* if, the presenter is appointed.                                          *)
Decision == INSTANCE DelegationDecision WITH answer <- Answer

ImplementsDecision == Decision!Spec
=============================================================================
