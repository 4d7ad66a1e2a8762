--------------------------- MODULE DelegationTerms ---------------------------
(***************************************************************************)
(* The terms in which a delegation chain is judged: a VDC as               *)
(* delegation::verify_chain reads it, what it is asked, and Appointed, the *)
(* promise of the module documentation: the presenter may act in the       *)
(* principal's name, for an act that the principal and every delegate on   *)
(* the way appointed for, no further from the principal than each allowed. *)
(***************************************************************************)
EXTENDS DTGBase

CONSTANTS
    Acts,           \* the vocabulary of acts
    MaxChainDepth   \* delegation::MAX_CHAIN_DEPTH

ASSUME MaxChainDepthAssumption == MaxChainDepth \in Nat \ {0}

(* "NoGrant" is a DelegationCredential without a `delegation` object and    *)
(* "Other" any other type.  An absent scope and an empty one are both {}.   *)
(* `accepts` says that the member is present, which makes the link an       *)
(* acceptance.                                                              *)
Link == [kind     : {"Delegation", "NoGrant", "Other"},
         accepts  : BOOLEAN,
         issuer   : Ref,
         subject  : Ref,
         from     : Nat,
         until    : Nat \cup {None},
         scope    : SUBSET Acts,
         maxDepth : Nat \cup {None},
         parent   : Named \cup {None},
         digest   : Digests \cup {None}]

Request == [principal : Ref, act : Acts, presenter : Ref, at : Nat]

-----------------------------------------------------------------------------
(* The promise.  It compares every link with all of its ancestors, where    *)
(* the code compares neighbours.                                            *)

\* Every link is a grant that appoints for something and is in force.
AllInForce(chain, request) ==
    \A i \in DOMAIN chain :
        /\ chain[i].kind = "Delegation"
        /\ ~ chain[i].accepts
        /\ chain[i].scope # {}
        /\ chain[i].from <= request.at
        /\ chain[i].until # None /\ request.at <= chain[i].until

\* From the principal to the presenter, each appointment was made by the party
\* appointed last, from exactly the claims that appointed it.
HandedDown(chain, request) ==
    /\ SameReference(Root(chain).issuer, request.principal)
    /\ Root(chain).parent = None
    /\ \A i \in 1 .. Len(chain) - 1 :
         /\ Pinned(chain, i)
         /\ SameReference(chain[i].issuer, chain[i + 1].subject)
    /\ SameReference(Leaf(chain).subject, request.presenter)

\* No link exceeds any of its ancestors in scope or lifetime.
Narrows(chain) ==
    \A j \in DOMAIN chain : \A i \in 1 .. j :
        /\ chain[i].scope \subseteq chain[j].scope
        /\ chain[i].until <= chain[j].until

\* Re-delegation is opt-in: every link that something was derived from says how
\* many re-delegations may lie below it, no more do, and the budget falls at
\* each one that bears it.
WithinDepth(chain) ==
    /\ \A j \in 2 .. Len(chain) :
         chain[j].maxDepth # None /\ j - 1 <= chain[j].maxDepth
    /\ \A i \in 1 .. Len(chain) - 1 :
         chain[i].maxDepth # None => chain[i].maxDepth < chain[i + 1].maxDepth

Appointed(chain, request) ==
    /\ Len(chain) \in 1 .. MaxChainDepth
    /\ AllInForce(chain, request)
    /\ HandedDown(chain, request)
    /\ Narrows(chain)
    /\ WithinDepth(chain)
    /\ request.act \in Leaf(chain).scope
=============================================================================
