--------------------------- MODULE AuthorityTerms ---------------------------
(***************************************************************************)
(* The terms in which an authority chain is judged: a VAC as               *)
(* authority::verify_chain reads it, what it is asked, and Entitled, the    *)
(* promise of the module documentation: the presenter holds, at this       *)
(* instant, no more than the governing party conferred and every holder on *)
(* the way passed on.                                                      *)
(***************************************************************************)
EXTENDS DTGBase

CONSTANTS
    Scopes,         \* what authority applies to
    Actions,        \* the governing party's action vocabulary
    MaxChainDepth   \* authority::MAX_CHAIN_DEPTH

ASSUME MaxChainDepthAssumption == MaxChainDepth \in Nat \ {0}

(* "NoGrant" is an AuthorityCredential without an `authority` object and    *)
(* "Other" any other type.                                                  *)
Link == [kind           : {"Authority", "NoGrant", "Other"},
         issuer         : Ref,
         subject        : Ref,
         from           : Nat,
         until          : Nat \cup {None},
         scope          : Scopes,
         actions        : SUBSET Actions,
         maxAttenuation : Nat \cup {None},
         parent         : Named \cup {None},
         digest         : Digests \cup {None}]

Request == [governing : Ref, scope : Scopes, action : Actions,
            presenter : Ref, at : Nat]

-----------------------------------------------------------------------------
(* The promise.  It compares every link with all of its ancestors, where    *)
(* the code compares neighbours.                                            *)

\* Every link is a VAC that confers something and is in force.
AllInForce(chain, request) ==
    \A i \in DOMAIN chain :
        /\ chain[i].kind = "Authority"
        /\ chain[i].actions # {}
        /\ chain[i].from <= request.at
        /\ chain[i].until # None /\ request.at <= chain[i].until

\* From the governing party to the presenter, each hand-over was made by the
\* party the authority was then held by, from exactly the claims it held.
HandedDown(chain, request) ==
    /\ SameReference(Root(chain).issuer, request.governing)
    /\ Root(chain).parent = None
    /\ \A i \in 1 .. Len(chain) - 1 :
         /\ Pinned(chain, i)
         /\ SameReference(chain[i].issuer, chain[i + 1].subject)
    /\ SameReference(Leaf(chain).subject, request.presenter)

\* No link exceeds any of its ancestors in scope, actions or lifetime.
Narrows(chain) ==
    \A j \in DOMAIN chain : \A i \in 1 .. j :
        /\ chain[i].scope = chain[j].scope
        /\ chain[i].actions \subseteq chain[j].actions
        /\ chain[i].until <= chain[j].until

\* Nothing lies further below a link than it permits, and a link that bears a
\* limit under one that does bears a lower one.
WithinDepth(chain) ==
    /\ \A j \in DOMAIN chain :
         chain[j].maxAttenuation # None => j - 1 <= chain[j].maxAttenuation
    /\ \A i \in 1 .. Len(chain) - 1 :
         (chain[i].maxAttenuation # None /\ chain[i + 1].maxAttenuation # None)
            => chain[i].maxAttenuation < chain[i + 1].maxAttenuation

Entitled(chain, request) ==
    /\ Len(chain) \in 1 .. MaxChainDepth
    /\ AllInForce(chain, request)
    /\ HandedDown(chain, request)
    /\ Narrows(chain)
    /\ WithinDepth(chain)
    /\ Leaf(chain).scope = request.scope
    /\ request.action \in Leaf(chain).actions

-----------------------------------------------------------------------------
(* What a chain becomes on the wire: both ends of every window lose their   *)
(* sub-seconds.  digest_multibase digests this form already, so the digests *)
(* of a chain and of its wire form are the same.                            *)

\* Not the code's: a validFrom that keeps its sub-seconds on the wire
\* (SurvivesTheWire).
OnTheWireMutant(link) == [link EXCEPT !.until = WholeSecondOption(@)]

OnTheWire(link) ==
    [link EXCEPT !.from = WholeSecond(@), !.until = WholeSecondOption(@)]

WireChain(chain) == [i \in DOMAIN chain |-> OnTheWire(chain[i])]
=============================================================================
