--------------------------- MODULE AuthorityChain ---------------------------
(***************************************************************************)
(* authority::verify_chain, one check-group at a time: the length, each    *)
(* link on its own, the presenter, the walk from leaf to root, the depth   *)
(* below each ancestor, the root, and what was asked for.  The first       *)
(* failing check ends the call with its AuthorityError.                    *)
(***************************************************************************)
EXTENDS AuthorityTerms, ChainCall

ASSUME ChainsAssumption == Chains \subseteq Seq(Link)
ASSUME RequestsAssumption == Requests \subseteq Request

Faults ==
    {"EmptyChain", "TooDeep", "NotAuthority", "NoActions", "NotValidNow",
     "NoExpiry", "NotThePresenter", "Digest", "BrokenLink",
     "IssuerNotParentSubject", "WidensScope", "WidensActions",
     "RaisesMaxAttenuation", "OutlivesParent", "ExceedsMaxAttenuation",
     "RootNotGoverning", "ScopeMismatch", "ActionNotGranted"}

Stages == {"length", "links", "walk", "depth", "asked", "done"}

VerifiedAuthority ==
    [subject : Ref, scope : Scopes, actions : SUBSET Actions, governing : Ref]

ASSUME NoneIsNoGrant == None \notin VerifiedAuthority

(* Definitions named ...Mutant are not the code's: each is a bug one could  *)
(* plausibly make in the definition that follows it, kept to show that the  *)
(* property named beside it would notice.                                   *)

-----------------------------------------------------------------------------
(* The checks of each group, in the order the source makes them.            *)

LengthChecks ==
    << Check("EmptyChain", Len(chain) = 0),
       Check("TooDeep",    Len(chain) > MaxChainDepth) >>

LinkChecks(link) ==
    << Check("NotAuthority", link.kind # "Authority"),
       Check("NoActions",    link.actions = {}),
       Check("NotValidNow",  link.from > request.at),
       Check("NoExpiry",     link.until = None),
       Check("NotValidNow",  link.until # None /\ link.until < request.at) >>

\* References compared as strings (ImplementsDecision).
PresenterChecksMutant ==
    << Check("NotThePresenter", Leaf(chain).subject # request.presenter) >>

PresenterChecks ==
    << Check("NotThePresenter",
             ~ SameReference(Leaf(chain).subject, request.presenter)) >>

\* A child may bear what its parent does (GrantorHoldsIt).
RaisesLimitMutant(max, parentMax) ==
    max # None /\ parentMax # None /\ max > parentMax

\* Not guarded against 0, whose decrement wraps to u32::MAX in a release build
\* and is exceeded by no limit (DepthLoopIsForBareLinks).
RaisesLimitUnderflow(max, parentMax) ==
    /\ max # None
    /\ parentMax # None
    /\ parentMax # 0 /\ max > parentMax - 1

\* A parent that bears 0 permits no child, so its limit is never decremented.
RaisesLimit(max, parentMax) ==
    /\ max # None
    /\ parentMax # None
    /\ parentMax = 0 \/ max > parentMax - 1

WalkChecks(link, parent) ==
    << Check("Digest",       parent.digest = None),
       Check("BrokenLink",   link.parent = None),
       Check("Digest",       link.parent # None /\ Unreadable(link.parent)),
       Check("BrokenLink",   link.parent # None
                             /\ ~ SameDigest(link.parent, parent.digest)),
       Check("IssuerNotParentSubject",
                             ~ SameReference(link.issuer, parent.subject)),
       Check("WidensScope",  link.scope # parent.scope),
       Check("WidensActions", ~ (link.actions \subseteq parent.actions)),
       Check("RaisesMaxAttenuation",
                             RaisesLimit(link.maxAttenuation, parent.maxAttenuation)),
       Check("OutlivesParent",
                             /\ link.until # None
                             /\ parent.until # None
                             /\ link.until > parent.until) >>

\* The depth counted as links between, not steps (NeverMoreThanConferred).
DepthChecksMutant(link, steps) ==
    << Check("ExceedsMaxAttenuation",
             link.maxAttenuation # None /\ steps - 1 > link.maxAttenuation) >>

\* `steps` is how far above the leaf the link lies.
DepthChecks(link, steps) ==
    << Check("ExceedsMaxAttenuation",
             link.maxAttenuation # None /\ steps > link.maxAttenuation) >>

RootChecks ==
    << Check("RootNotGoverning",
             ~ SameReference(Root(chain).issuer, request.governing)),
       Check("BrokenLink", Root(chain).parent # None) >>

AskedChecks ==
    << Check("ScopeMismatch",    Leaf(chain).scope # request.scope),
       Check("ActionNotGranted", request.action \notin Leaf(chain).actions) >>

-----------------------------------------------------------------------------
CheckLength == pc = "length" /\ Judge(LengthChecks, "links", 1)

CheckLink ==
    /\ pc = "links"
    /\ index <= Len(chain)
    /\ Judge(LinkChecks(chain[index]), "links", index + 1)

CheckPresenter ==
    /\ pc = "links"
    /\ index > Len(chain)
    /\ Judge(PresenterChecks, "walk", 1)

WalkLink ==
    /\ pc = "walk"
    /\ index < Len(chain)
    /\ Judge(WalkChecks(chain[index], chain[index + 1]), "walk", index + 1)

\* The depth loop starts two links above the leaf, past the end of a chain of
\* one (TypeOK).
EndWalkMutant ==
    /\ pc = "walk"
    /\ index = Len(chain)
    /\ GoOn("depth", 3)
    /\ UNCHANGED <<chain, request>>

\* The depth loop skips the leaf.
EndWalk ==
    /\ pc = "walk"
    /\ index = Len(chain)
    /\ GoOn("depth", 2)
    /\ UNCHANGED <<chain, request>>

CheckDepth ==
    /\ pc = "depth"
    /\ index <= Len(chain)
    /\ Judge(DepthChecks(chain[index], index - 1), "depth", index + 1)

CheckRoot ==
    /\ pc = "depth"
    /\ index > Len(chain)
    /\ Judge(RootChecks, "asked", 1)

Grant ==
    Return([subject   |-> Leaf(chain).subject,
            scope     |-> Leaf(chain).scope,
            actions   |-> Leaf(chain).actions,
            governing |-> request.governing])

CheckAsked ==
    /\ pc = "asked"
    /\ \/ \E fault \in FirstFault(AskedChecks) : Refuse(fault)
       \/ Passes(AskedChecks) /\ Grant
    /\ UNCHANGED <<chain, request>>

Next ==
    \/ CheckLength \/ CheckLink \/ CheckPresenter \/ WalkLink \/ EndWalk
    \/ CheckDepth \/ CheckRoot \/ CheckAsked \/ Returned

\* The call runs on its caller's thread and waits for nothing.
Spec == Init /\ [][Next]_vars /\ WF_vars(Next)

-----------------------------------------------------------------------------
(* Type invariant: the call's locals stay in range, and a VerifiedAuthority *)
(* exists exactly when the verdict is "accepted".                           *)
TypeOK ==
    /\ chain \in Seq(Link)
    /\ request \in Request
    /\ pc \in Stages
    /\ index \in 1 .. Len(chain) + 1
    /\ verdict \in Faults \cup {"pending", "accepted"}
    /\ granted \in VerifiedAuthority \cup {None}
    /\ (pc = "done") <=> (verdict # "pending")
    /\ (granted # None) <=> (verdict = "accepted")

(* What verify_chain returns is never more than the root, or any credential *)
(* between, conferred: the granted actions and scope are within every       *)
(* link's, each link is still in force, and none is further above the       *)
(* presenter than it permits.  The code compares neighbours only.           *)
NeverMoreThanConferred ==
    granted # None =>
        \A j \in DOMAIN chain :
            /\ granted.scope = chain[j].scope
            /\ granted.actions \subseteq chain[j].actions
            /\ chain[j].from <= request.at
            /\ chain[j].until # None /\ request.at <= chain[j].until
            /\ Leaf(chain).until <= chain[j].until
            /\ chain[j].maxAttenuation # None => j - 1 <= chain[j].maxAttenuation

(* A raised limit is refused where it is raised.  The depth loop is left    *)
(* what the comparison of neighbours cannot see (authority.rs, "a chain     *)
(* whose intermediate links bear no `maxAttenuation` of their own"): when   *)
(* it refuses, a link below the ancestor it names bears none.               *)
DepthLoopIsForBareLinks ==
    verdict = "ExceedsMaxAttenuation" =>
        \E i \in 1 .. index - 1 : chain[i].maxAttenuation = None

(* Whoever passed the granted authority on could, at that same instant,     *)
(* have exercised it: the chain above an accepted leaf entitles that leaf's *)
(* issuer.  Nobody lends what it does not hold now (authority.rs, "every    *)
(* link the holder relies on").                                             *)
GrantorHoldsIt ==
    (granted # None /\ Len(chain) > 1) =>
        Entitled(Tail(chain), [request EXCEPT !.presenter = chain[1].issuer])

(* A chain accepted with the sub-second timestamps of memory is accepted    *)
(* when it arrives as JSON, whose timestamps iso8601_format has cut to      *)
(* whole seconds, judged at the same second.                                *)
SurvivesTheWire ==
    granted # None =>
        Entitled(WireChain(chain), [request EXCEPT !.at = WholeSecond(@)])

(* verify_chain decides as the abstract verifier: it grants if, and only    *)
(* if, the presenter is entitled.                                           *)
Decision == INSTANCE AuthorityDecision WITH answer <- Answer

ImplementsDecision == Decision!Spec
=============================================================================
