------------------------- MODULE DelegationIssuance -------------------------
(***************************************************************************)
(* Building VDCs: new_vdc, redelegate, redelegate_from_json and            *)
(* new_delegate_vdc_for, over a growing ledger that also receives          *)
(* documents other implementations wrote.  What a verifier makes of a      *)
(* chain of them is asked with Appointed, to which                         *)
(* delegation::verify_chain is equivalent (DelegationChain), and of a      *)
(* grant and its acceptance with Accepts.                                  *)
(*                                                                         *)
(* The JSON readers of create.rs look at members of the document, the      *)
(* parser at the model it makes of it; a member that is null is present to *)
(* the former and absent to the latter.                                    *)
(***************************************************************************)
EXTENDS DelegationTerms, SequencesExt

CONSTANTS
    Null,         \* a member that is there and null
    Garbled,      \* a validUntil that is not an RFC 3339 timestamp
    Principals,   \* bound: the references roots are issued under here
    Delegates,    \* bound: the references delegations name
    ScopeLists,   \* the scopes a caller may pass
    Windows,      \* the [from, until] a caller may pass
    Budgets,      \* the max_depth a caller may pass
    Received,     \* documents that other implementations wrote
    MaxVdcs       \* bound on the ledger

ASSUME MaxVdcsAssumption == MaxVdcs \in Nat
ASSUME MembersAssumption ==
    /\ {Null, Garbled, None} \cap Int = {}
    /\ Null # Garbled /\ None \notin {Null, Garbled}

VARIABLE ledger   \* the VDCs written so far, in either half of an edge

(* `over` is the position of the document a VDC was derived from or         *)
(* answers, 0 where there is none, and `by` the operation that made it.     *)
(* `ours` says that the document is spelled as this library writes it.      *)
Vdc == [issuer : Ref, subject : Ref, from : Nat,
        until : Nat \cup {None, Null, Garbled},
        scope : {None, Null} \cup SUBSET Acts, maxDepth : Nat \cup {None},
        parent : Named \cup {None}, accepts : Named \cup {None, Null},
        ours : BOOLEAN, over : Nat,
        by : {"new_vdc", "redelegate", "redelegate_from_json",
              "new_delegate_vdc_for", "received"}]

ASSUME InputsAssumption ==
    /\ Principals \subseteq Ref /\ Delegates \subseteq Ref
    /\ ScopeLists \subseteq SUBSET Acts
    /\ Windows \subseteq [from : Nat, until : Nat]
    /\ Budgets \subseteq Nat \cup {None}
    /\ Received \subseteq Vdc
    /\ \A vdc \in Received : vdc.over = 0 /\ vdc.by = "received"
    /\ (1 .. MaxVdcs) \X {"model", "wire"} \subseteq Digests
    /\ \A scope \in SUBSET Acts : scope # None /\ scope # Null
    /\ None \notin Named

Init == ledger = << >>

-----------------------------------------------------------------------------
(* Reading a document.                                                      *)

\* serde reads null as None.
Parsed(member) == IF member = Null THEN None ELSE member

\* The model of a document, as a parse of its wire form leaves it, to the
\* second: the digest covers no more, and instants are asked about in seconds.
Claims(vdc) ==
    [issuer |-> vdc.issuer, subject |-> vdc.subject,
     from |-> WholeSecond(vdc.from),
     until |-> IF vdc.until \in Nat THEN WholeSecond(vdc.until)
               ELSE Parsed(vdc.until),
     scope |-> Parsed(vdc.scope), maxDepth |-> vdc.maxDepth,
     parent |-> vdc.parent, accepts |-> Parsed(vdc.accepts)]

\* check_delegation_shape: exactly one half, in its one shape.
WellShaped(claims) ==
    \/ /\ claims.accepts # None
       /\ claims.scope = None /\ claims.parent = None /\ claims.maxDepth = None
    \/ /\ claims.accepts = None
       /\ claims.scope \notin {None, {}}

\* The document parses as a VDC.
Parses(vdc) == vdc.until # Garbled /\ WellShaped(Claims(vdc))

\* Every member that new documents are compared by: the same bytes.
SameDocument(v, w) ==
    /\ Claims(v) = Claims(w)
    /\ \A member \in {"until", "scope", "accepts"} :
         v[member] = Null <=> w[member] = Null
    /\ v.ours = w.ours

-----------------------------------------------------------------------------
(* Digests.  digest_multibase() covers what this library would write for    *)
(* the claims, digest_multibase_json(doc) the document itself.  A position  *)
(* of the ledger stands for the claims, or the document, first found there. *)

ModelDigest(i) ==
    << SelectInSeq(ledger, LAMBDA v : Claims(v) = Claims(ledger[i])), "model" >>

WireDigest(i) == IF ledger[i].ours THEN ModelDigest(i) ELSE << i, "wire" >>

Name(digest) == [digest |-> digest, base |-> "z"]

\* Sending the same document again adds nothing to the ledger.
Write(vdc) ==
    /\ Len(ledger) < MaxVdcs
    /\ \A j \in DOMAIN ledger : ~ SameDocument(vdc, ledger[j])
    /\ ledger' = Append(ledger, vdc)

Receive(vdc) == Write(vdc)

-----------------------------------------------------------------------------
(* Grants.                                                                  *)

NewVdc(issuer, subject, scope, window, maxDepth) ==
    /\ ~ EmptyWindow(window.from, window.until)
    /\ scope # {}
    /\ Write([issuer |-> issuer, subject |-> subject,
              from |-> window.from, until |-> window.until,
              scope |-> scope, maxDepth |-> maxDepth,
              parent |-> None, accepts |-> None,
              ours |-> TRUE, over |-> 0, by |-> "new_vdc"])

\* max_depth.unwrap_or(0).
Budget(vdc) == IF vdc.maxDepth = None THEN 0 ELSE vdc.maxDepth

\* Not the code's: the child keeps its parent's budget (BuiltChainsAppoint).
BudgetBelowMutant(vdc) == {n \in {Budget(vdc)} : Budget(vdc) # 0}

\* Not the code's: 0 is decremented (TypeOK).
BudgetBelowUnderflow(vdc) == {Budget(vdc) - 1}

\* The budget of a re-delegation, {} where none is permitted.
BudgetBelow(vdc) == {n \in {Budget(vdc) - 1} : Budget(vdc) # 0}

(* redelegate_inner.  What it takes from the parent is read off the model   *)
(* or off the JSON; a parent without an end bounds nothing.                 *)
RedelegateInner(i, parentUntil, parentDigest, subject, scope, window, by) ==
    LET parent == ledger[i]
    IN  /\ ~ EmptyWindow(window.from, window.until)
        /\ Parsed(parent.accepts) = None
        /\ scope # {}
        /\ Parsed(parent.scope) # None /\ scope \subseteq parent.scope
        /\ parentUntil # None => window.until <= parentUntil
        /\ \E maxDepth \in BudgetBelow(parent) :
             Write([issuer |-> parent.subject, subject |-> subject,
                    from |-> window.from, until |-> window.until,
                    scope |-> scope, maxDepth |-> maxDepth,
                    parent |-> Name(parentDigest), accepts |-> None,
                    ours |-> TRUE, over |-> i, by |-> by])

\* The parent is in memory: just built, or parsed.
Redelegate(i, subject, scope, window) ==
    /\ Parses(ledger[i])
    /\ RedelegateInner(i, Parsed(ledger[i].until), ModelDigest(i),
                       subject, scope, window, "redelegate")

\* read_delegation_json: an end it cannot read is no end.  The library's own
\* documents bear whole seconds; of a foreign one every digit is read.
ReadUntil(vdc) ==
    IF vdc.until \notin Nat THEN None
    ELSE IF vdc.ours THEN WholeSecond(vdc.until) ELSE vdc.until

\* The parent is the document received, which nothing has parsed.
RedelegateFromJson(i, subject, scope, window) ==
    RedelegateInner(i, ReadUntil(ledger[i]), WireDigest(i),
                    subject, scope, window, "redelegate_from_json")

-----------------------------------------------------------------------------
(* Acceptances.                                                             *)

\* Not the code's: an acceptance is told by its missing scope alone
\* (HalvesStayApart).
ReadsAsGrantMutant(vdc) == vdc.scope # None

\* read_delegation_grant: contains_key, whatever the member holds.
ReadsAsGrant(vdc) == vdc.accepts = None /\ vdc.scope # None

\* Not the code's: the acceptance may outlast the grant
\* (ConsentEndsWithEveryGrant).
WithinGrantMutant(until, vdc) == vdc.until \notin {Null, Garbled}

\* grant_valid_until and check_within_grant: an end that cannot be read is an
\* error, and null cannot be read.
WithinGrant(until, vdc) ==
    /\ vdc.until \notin {Null, Garbled}
    /\ vdc.until # None => WholeSecond(until) <= WholeSecond(vdc.until)

\* The delegate is compared verbatim.
NewDelegateVdcFor(i, delegate, window) ==
    LET grant == ledger[i]
    IN  /\ ~ EmptyWindow(window.from, window.until)
        /\ ReadsAsGrant(grant)
        /\ grant.subject = delegate
        /\ WithinGrant(window.until, grant)
        /\ Write([issuer |-> delegate, subject |-> grant.issuer,
                  from |-> window.from, until |-> window.until,
                  scope |-> None, maxDepth |-> None,
                  parent |-> None, accepts |-> Name(WireDigest(i)),
                  ours |-> TRUE, over |-> i, by |-> "new_delegate_vdc_for"])

\* accepts, of the parsed forms of documents a and g.
Accepts(a, g) ==
    LET acceptance == Claims(ledger[a])
        grant      == Claims(ledger[g])
    IN  /\ Parses(ledger[a]) /\ Parses(ledger[g])
        /\ grant.accepts = None /\ grant.scope # None
        /\ acceptance.accepts # None
        /\ SameReference(acceptance.issuer, grant.subject)
        /\ SameReference(acceptance.subject, grant.issuer)
        /\ ~ Unreadable(acceptance.accepts)
        /\ SameDigest(acceptance.accepts, ModelDigest(g))

-----------------------------------------------------------------------------
IssueGrant ==
    \E issuer \in Principals, subject \in Delegates, scope \in ScopeLists,
       window \in Windows, maxDepth \in Budgets :
        NewVdc(issuer, subject, scope, window, maxDepth)

\* A received acceptance answers a document of the ledger.
ReceiveDocument ==
    \E vdc \in Received :
        \/ Parsed(vdc.accepts) = None /\ Receive(vdc)
        \/ /\ Parsed(vdc.accepts) # None
           /\ \E i \in DOMAIN ledger :
                Receive([vdc EXCEPT !.accepts = Name(WireDigest(i)),
                                    !.issuer  = ledger[i].subject,
                                    !.subject = ledger[i].issuer])

Derive ==
    \E i \in DOMAIN ledger, subject \in Delegates, scope \in ScopeLists,
       window \in Windows :
        \/ Redelegate(i, subject, scope, window)
        \/ RedelegateFromJson(i, subject, scope, window)

Accept ==
    \E i \in DOMAIN ledger, delegate \in Delegates, window \in Windows :
        NewDelegateVdcFor(i, delegate, window)

\* The ledger is full (MaxVdcs).
Full == Len(ledger) = MaxVdcs /\ UNCHANGED ledger

Next == IssueGrant \/ ReceiveDocument \/ Derive \/ Accept \/ Full

Spec == Init /\ [][Next]_ledger

-----------------------------------------------------------------------------
(* What a verifier is presented with.                                       *)

Redelegated(i) == ledger[i].by \in {"redelegate", "redelegate_from_json"}

\* The positions from a document up to its root, for every document.
Lineages ==
    {path \in UNION {[1 .. n -> DOMAIN ledger] : n \in DOMAIN ledger} :
        /\ \A k \in 1 .. Len(path) - 1 :
             Redelegated(path[k]) /\ path[k + 1] = ledger[path[k]].over
        /\ ~ Redelegated(path[Len(path)])}

AsLink(i) ==
    LET claims == Claims(ledger[i])
    IN  [kind |-> "Delegation", accepts |-> claims.accepts # None,
         issuer |-> claims.issuer, subject |-> claims.subject,
         from |-> claims.from, until |-> claims.until,
         scope |-> IF claims.scope = None THEN {} ELSE claims.scope,
         maxDepth |-> claims.maxDepth, parent |-> claims.parent,
         digest |-> ModelDigest(i)]

Presented(path) == [k \in DOMAIN path |-> AsLink(path[k])]

\* Every link of the chain parses, and the chain appoints the last delegate.
AppointsSubject(path, act, at) ==
    /\ \A k \in DOMAIN path : Parses(ledger[path[k]])
    /\ Appointed(Presented(path),
                 [principal |-> ledger[path[Len(path)]].issuer, act |-> act,
                  presenter |-> ledger[path[1]].subject, at |-> at])

Instants == UNION {{WholeSecond(w.from), WholeSecond(w.until)} : w \in Windows}

-----------------------------------------------------------------------------
(* Type invariant.                                                          *)
TypeOK ==
    /\ ledger \in Seq(Vdc)
    /\ Len(ledger) <= MaxVdcs
    /\ \A i \in DOMAIN ledger : ledger[i].over < i

(* A re-delegation built here appoints whenever what it was derived from    *)
(* does: as long as the delegator's own chain appoints it for an act and    *)
(* the new grant lists the act and is in force, the longer chain appoints   *)
(* the new delegate, up to the verifier's ceiling.  Also where the chain    *)
(* above was written elsewhere; the parent handed over as JSON has to be    *)
(* one this library would write, or its digest is not the one the verifier  *)
(* recomputes.                                                              *)
BuiltChainsAppoint ==
    \A path \in Lineages, act \in Acts, at \in Instants :
        LET vdc == ledger[path[1]]
        IN  (/\ vdc.by \in {"new_vdc", "redelegate", "redelegate_from_json"}
             /\ vdc.by = "redelegate_from_json" => ledger[vdc.over].ours
             /\ Len(path) > 1 => AppointsSubject(Tail(path), act, at)
             /\ act \in vdc.scope
             /\ WholeSecond(vdc.from) <= at /\ at <= WholeSecond(vdc.until)
             /\ Len(path) <= MaxChainDepth)
            => AppointsSubject(path, act, at)

(* The two halves of a delegation stay apart, whichever member a reader     *)
(* tells them by: a document that some grant is answered with is never      *)
(* itself a grant to anyone; no acceptance is built over it, nothing is     *)
(* derived from it, no edge has it as its appointment.                      *)
HalvesStayApart ==
    \A i, g \in DOMAIN ledger :
        Accepts(i, g) =>
            \A j \in DOMAIN ledger : ledger[j].over # i /\ ~ Accepts(j, i)

(* Consent ends with what was consented to, and with everything above it:   *)
(* an acceptance built here that binds to the last grant of a chain some    *)
(* instant is appointed at ends no later than any grant of that chain,      *)
(* though it was compared with the one grant only, at whole seconds, and    *)
(* the grants with one another in memory.                                   *)
ConsentEndsWithEveryGrant ==
    \A a \in DOMAIN ledger, path \in Lineages :
        (/\ ledger[a].by = "new_delegate_vdc_for"
         /\ Accepts(a, path[1])
         /\ \E act \in Acts, at \in Instants : AppointsSubject(path, act, at)) =>
            \A k \in DOMAIN path :
                Claims(ledger[a]).until <= Presented(path)[k].until

(* create.rs, read_timestamp: "an expiry that cannot be read must not be    *)
(* treated as no expiry".  As a property: nothing is derived from a grant   *)
(* whose validUntil is there and cannot be read.                            *)
UnreadableEndIsNotOpenEnd ==
    \A i \in DOMAIN ledger :
        Redelegated(i) => ledger[ledger[i].over].until # Garbled
=============================================================================
