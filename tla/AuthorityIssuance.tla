------------------------- MODULE AuthorityIssuance -------------------------
(***************************************************************************)
(* Building VACs: new_vac, new_community_role_vac, with_max_attenuation,   *)
(* attenuate and attenuate_from_json, over a growing ledger of signed      *)
(* credentials.  What a verifier would make of each is asked with          *)
(* Entitled, to which authority::verify_chain is equivalent                *)
(* (AuthorityChain).                                                       *)
(*                                                                         *)
(* A digest binds a child to the exact claims of its parent, so the ledger *)
(* only grows, and a position in it stands for the claims found there.     *)
(***************************************************************************)
EXTENDS AuthorityTerms

CONSTANTS
    Windows,     \* the [from, until] a caller may pass
    Limits,      \* the maxAttenuation values a caller may pass
    Spellings,   \* how a received document may be written: "ours", "v1"
    MaxVacs      \* bound on the ledger

ASSUME MaxVacsAssumption == MaxVacs \in Nat

VARIABLE ledger   \* the VACs issued so far

(* `over` is the position of the document a VAC was derived from, 0 for a   *)
(* chain root, and `by` the operation that made it.                         *)
Vac == [issuer : Ref, subject : Ref, from : Nat, until : Nat, scope : Scopes,
        actions : SUBSET Actions, maxAttenuation : Nat \cup {None},
        parent : Named \cup {None}, over : Nat,
        by : {"new_vac", "attenuate", "with_max_attenuation"},
        spelling : Spellings]

ASSUME InputsAssumption ==
    /\ Windows \subseteq [from : Nat, until : Nat]
    /\ Limits \subseteq Nat \cup {None}
    /\ "ours" \in Spellings
    /\ (1 .. MaxVacs) \X {"model", "wire"} \subseteq Digests
    /\ None \notin Named

\* A caller names its parties by plain DIDs.
Party == [did : Dids, located : {FALSE}]

Init == ledger = << >>

Issue(vac) ==
    /\ Len(ledger) < MaxVacs
    /\ ledger' = Append(ledger, vac)

-----------------------------------------------------------------------------
(* Digests.  digest_multibase() digests what this library would write for a *)
(* credential, digest_multibase_json(doc) the document itself.  They differ *)
(* for a document the library parses but would not write, such as a v1.1    *)
(* one with issuanceDate and expirationDate.                                *)

ModelDigest(i) == <<i, "model">>

WireDigest(i) ==
    IF ledger[i].spelling = "ours" THEN ModelDigest(i) ELSE <<i, "wire">>

-----------------------------------------------------------------------------
(* Roots.                                                                   *)

\* new_vac, followed by with_max_attenuation where max is not None.
NewVac(issuer, subject, scope, actions, window, max, spelling) ==
    /\ ~ EmptyWindow(window.from, window.until)
    /\ actions # {}
    /\ Issue([issuer |-> issuer, subject |-> subject,
              from |-> window.from, until |-> window.until,
              scope |-> scope, actions |-> actions, maxAttenuation |-> max,
              parent |-> None, over |-> 0, by |-> "new_vac",
              spelling |-> spelling])

\* A role is a root whose scope is the community's own DID and whose only
\* action is the role's.
NewCommunityRoleVac(community, member, role, window) ==
    /\ community.did \in Scopes
    /\ NewVac(community, member, community.did, {role}, window, None, "ours")

-----------------------------------------------------------------------------
(* Attenuation.                                                             *)

\* Not the code's: a child that asks for no limit is given none
\* (BuiltChainsVerify).
LimitBelowMutant(parentMax, requested) ==
    IF parentMax = None \/ requested = None THEN {requested}
    ELSE {n \in {requested} : n <= parentMax - 1}

\* Not the code's: 0 is decremented where no limit is asked for (TypeOK).
LimitBelowUnderflow(parentMax, requested) ==
    IF parentMax = None THEN {requested}
    ELSE IF requested = None THEN {parentMax - 1}
    ELSE {n \in {requested} : parentMax # 0 /\ n <= parentMax - 1}

\* attenuate_inner's match: the limit the child bears, {} where it is refused.
LimitBelow(parentMax, requested) ==
    IF parentMax = None THEN {requested}
    ELSE IF requested = None THEN {n \in {parentMax - 1} : parentMax # 0}
    ELSE {n \in {requested} : parentMax # 0 /\ n <= parentMax - 1}

(* attenuate_inner.  The parent's grant and subject come from the parsed    *)
(* parent or from its JSON; either way the end of its window does too.      *)
AttenuateInner(i, parentDigest, parentUntil, subject, actions, window, requested) ==
    /\ ~ EmptyWindow(window.from, window.until)
    /\ actions # {}
    /\ actions \subseteq ledger[i].actions
    /\ window.until <= parentUntil
    /\ \E max \in LimitBelow(ledger[i].maxAttenuation, requested) :
         Issue([issuer |-> ledger[i].subject, subject |-> subject,
                from |-> window.from, until |-> window.until,
                scope |-> ledger[i].scope, actions |-> actions,
                maxAttenuation |-> max,
                parent |-> [digest |-> parentDigest, base |-> "z"],
                over |-> i, by |-> "attenuate", spelling |-> "ours"])

\* The parent is in memory: just built, or parsed.
Attenuate(i, subject, actions, window, requested) ==
    AttenuateInner(i, ModelDigest(i), ledger[i].until,
                   subject, actions, window, requested)

\* The end a document bears: this library has cut it to whole seconds, another
\* implementation may not have.
WireUntil(i) ==
    IF ledger[i].spelling = "ours" THEN WholeSecond(ledger[i].until)
    ELSE ledger[i].until

\* The parent is the document received.
AttenuateFromJson(i, subject, actions, window, requested) ==
    AttenuateInner(i, WireDigest(i), WireUntil(i),
                   subject, actions, window, requested)

\* with_max_attenuation on a VAC just attenuated, before it is signed: any
\* limit is taken.
AttenuateThenLimit(i, subject, actions, window, max) ==
    /\ ~ EmptyWindow(window.from, window.until)
    /\ actions # {}
    /\ actions \subseteq ledger[i].actions
    /\ window.until <= ledger[i].until
    /\ LimitBelow(ledger[i].maxAttenuation, None) # {}
    /\ Issue([issuer |-> ledger[i].subject, subject |-> subject,
              from |-> window.from, until |-> window.until,
              scope |-> ledger[i].scope, actions |-> actions,
              maxAttenuation |-> max,
              parent |-> [digest |-> ModelDigest(i), base |-> "z"],
              over |-> i, by |-> "with_max_attenuation", spelling |-> "ours"])

IssueRoot ==
    \E issuer, subject \in Party, scope \in Scopes, actions \in SUBSET Actions,
       window \in Windows, max \in Limits, spelling \in Spellings :
        NewVac(issuer, subject, scope, actions, window, max, spelling)

IssueRole ==
    \E community, member \in Party, role \in Actions, window \in Windows :
        NewCommunityRoleVac(community, member, role, window)

Derive ==
    \E i \in DOMAIN ledger, subject \in Party, actions \in SUBSET Actions,
       window \in Windows, max \in Limits :
        \/ Attenuate(i, subject, actions, window, max)
        \/ AttenuateFromJson(i, subject, actions, window, max)
        \/ max # None /\ AttenuateThenLimit(i, subject, actions, window, max)

\* The ledger is full (MaxVacs).
Full == Len(ledger) = MaxVacs /\ UNCHANGED ledger

Next == IssueRoot \/ IssueRole \/ Derive \/ Full

Spec == Init /\ [][Next]_ledger

-----------------------------------------------------------------------------
(* A holder presents every document on the way to a root.                   *)

AsLink(i) ==
    [kind |-> "Authority", issuer |-> ledger[i].issuer,
     subject |-> ledger[i].subject, from |-> ledger[i].from,
     until |-> ledger[i].until, scope |-> ledger[i].scope,
     actions |-> ledger[i].actions, maxAttenuation |-> ledger[i].maxAttenuation,
     parent |-> ledger[i].parent, digest |-> ModelDigest(i)]

\* The positions from a VAC up to its root, for every VAC.
Lineages ==
    {path \in UNION {[1 .. n -> DOMAIN ledger] : n \in DOMAIN ledger} :
        /\ \A k \in 1 .. Len(path) - 1 : path[k + 1] = ledger[path[k]].over
        /\ ledger[path[Len(path)]].over = 0}

\* The chain as the verifier parses it from the wire.
Presented(path) == WireChain([k \in DOMAIN path |-> AsLink(path[k])])

\* What the leaf's subject would ask for with it: its own authority.
OwnRequest(path, action, at) ==
    [governing |-> ledger[path[Len(path)]].issuer,
     scope |-> ledger[path[1]].scope, action |-> action,
     presenter |-> ledger[path[1]].subject, at |-> at]

BuiltByAttenuation(path) ==
    \A k \in DOMAIN path : ledger[path[k]].by \in {"new_vac", "attenuate"}

\* Every limit with_max_attenuation set on a derived VAC is below its parent's.
LimitsFit(path) ==
    \A k \in 1 .. Len(path) - 1 :
        LET child == ledger[path[k]]
            parent == ledger[path[k + 1]]
        IN  (child.by = "with_max_attenuation" /\ parent.maxAttenuation # None) =>
                child.maxAttenuation < parent.maxAttenuation

AllOurs(path) == \A k \in DOMAIN path : ledger[path[k]].spelling = "ours"

Instants == UNION {{w.from, w.until, WholeSecond(w.from), WholeSecond(w.until)} : w \in Windows}

-----------------------------------------------------------------------------
(* Type invariant.                                                          *)
TypeOK ==
    /\ ledger \in Seq(Vac)
    /\ Len(ledger) <= MaxVacs
    /\ \A i \in DOMAIN ledger : ledger[i].over < i

(* Whatever sequence of attenuations built it, a chain of this library's    *)
(* own VACs verifies for its subject, for every action the leaf lists, at   *)
(* each instant all of its windows share, as long as it is no longer than   *)
(* the verifier's ceiling: the checks of attenuate_inner, which see one     *)
(* parent, keep the rules verify_chain applies to every ancestor.  Where    *)
(* with_max_attenuation was used after attenuate, it verifies exactly if    *)
(* each limit so set is below its parent's: one that fits does no harm to   *)
(* what was or will be derived, one that does not is caught in every chain. *)
BuiltChainsVerify ==
    \A path \in Lineages :
        (AllOurs(path) /\ Len(path) <= MaxChainDepth) =>
            LET chain == Presented(path)
            IN  \A at \in Instants, action \in ledger[path[1]].actions :
                    (\A k \in DOMAIN chain : chain[k].from <= at /\ at <= chain[k].until)
                    => (Entitled(chain, OwnRequest(path, action, at)) <=> LimitsFit(path))

(* create.rs, attenuate: "a holder should be unable to *build* a chain a    *)
(* verifier would reject, so the failure surfaces at issue time rather than *)
(* at use".  As a property: what attenuate returned is accepted at some     *)
(* instant, for neither its window nor the length of its chain rules that   *)
(* out.                                                                     *)
AttenuatedIsUsableSometime ==
    \A path \in Lineages :
        (BuiltByAttenuation(path) /\ AllOurs(path)) =>
            \E at \in Instants, action \in ledger[path[1]].actions :
                Entitled(Presented(path), OwnRequest(path, action, at))

(* create.rs, attenuate_from_json: "the `parent` digest covers the document *)
(* the verifier will recompute it over".  As a property: a VAC derived from *)
(* a received document names the digest verify_chain computes of it.        *)
VerifierRecomputesTheNamedDigest ==
    \A i \in DOMAIN ledger :
        ledger[i].parent # None =>
            SameDigest(ledger[i].parent, ModelDigest(ledger[i].over))
=============================================================================
