------------------------ MODULE CredentialLifecycle ------------------------
(***************************************************************************)
(* One credential from its constructor, or a parse, to a verifier: given   *)
(* an id, a status and a citation, changed through credential_mut, signed, *)
(* sent and parsed again, in any order, and put to accept-lists.  The      *)
(* VAC, VDC and acknowledgement constructors have modules of their own     *)
(* (AuthorityIssuance, DelegationIssuance, MembershipEdge).                *)
(***************************************************************************)
EXTENDS AcceptList

CONSTANTS
    Me, Other,     \* who issues here, and another party
    Windows,       \* the [from, until] a caller may pass
    Predicates,    \* the predicates a caller of new_vsc may pass
    Objects,       \* ... and the objects, of any of the core constructors too
    Credentials,   \* wire documents a statement may be about
    Sessions,      \* Trust Task documents
    Foreign,       \* wire documents of other implementations
    Lists,         \* accept-lists
    MaxCalls       \* bound on the calls after the first

ASSUME PartiesAssumption == Me # Other /\ None \notin {Me, Other}
\* What made a credential.
Makers ==
    {"new_vmc", "new_vrc", "new_vic", "new_vpc", "new_vsc", "new_endorses_vsc",
     "new_witnessed_vsc", "new_vetted_vsc", "new_presented_vsc", "received"}

\* credentialStatus, where there is one: an entry, a JSON null, one nested too deep.
StatusMembers == {"entry", "null", "deep"}

\* The members whose types serde itself refuses a document for.
Deserializes(document) ==
    LET claims == document.claims
    IN  /\ claims.from \in Nat /\ claims.until \in Nat \cup {None}
        /\ claims.scope \in IssuerScope
        /\ claims.status \in StatusMembers \cup {None}
        /\ "shape" \in DOMAIN claims.subject
        /\ claims.subject.shape = "Membership" =>
              claims.subject = MembershipSubject(claims.subject.id, claims.subject.digest)

ASSUME InputsAssumption ==
    /\ Windows \subseteq [from : Nat, until : Nat \cup {None}]
    /\ Predicates \subseteq PredicateIri
    /\ \A document \in Foreign : Deserializes(document)
    /\ None \notin Makers \cup StatusMembers
    /\ Credentials \subseteq Observed
    /\ Sessions \subseteq TaskDocument
    /\ None \notin TaskDocument \cup Observed
    /\ MaxCalls \in Nat

VARIABLES
    held,     \* the credential in memory
    by,       \* what made it, or None while there is none
    edited,   \* credential_mut has been used on it
    cited,    \* the document the last successful citation was given, or None
    about,    \* the credential new_witnessed_vsc or new_presented_vsc was given
    calls     \* bound: the calls since it was made

vars == <<held, by, edited, cited, about, calls>>

Init ==
    /\ held = None /\ by = None /\ edited = FALSE
    /\ cited = None /\ about = None /\ calls = 0

-----------------------------------------------------------------------------
(* Constructors.  One that returns a Result gives the set of at most one    *)
(* credential.                                                              *)

Build(type, scope, window, subject) ==
    [context |-> <<"v2", "dtg/v1">>, types |-> <<"VC", "DTG", type>>,
     id |-> None, issuer |-> Me, scope |-> scope,
     from |-> window.from, until |-> window.until,
     task |-> None, taskDigest |-> None, subject |-> subject,
     status |-> None, type |-> type, proof |-> None]

NewVmc(window, personhood) ==
    LET vmc == Build("Membership", Public, window, MembershipSubject(Other, None))
    IN  IF personhood THEN [vmc EXCEPT !.types = Append(@, "Personhood")] ELSE vmc

NewVrc(scope, window) == Build("Relationship", scope, window, BasicSubject(Other))
NewVic(scope, window) == Build("Invitation", scope, window, BasicSubject(Other))
NewVpc(scope, window) == Build("Persona", scope, window, BasicSubject(Other))

\* Not the code's: the window is left to validate (StatementsAreSignable).
NewVscChecksMutant(c) ==
    << Check("InvalidPredicate", ~ WellFormed(c.subject.predicate)),
       Check("JsonTooDeep",      TooDeep(c)) >> \o BeforeCitationChecks(c)

NewVscChecks(c) ==
    << Check("InvalidValidityWindow", EmptyWindow(c.from, c.until)),
       Check("InvalidPredicate",      ~ WellFormed(c.subject.predicate)),
       Check("JsonTooDeep",           TooDeep(c)) >> \o BeforeCitationChecks(c)

NewVsc(scope, window, subject, predicate, object) ==
    {c \in {Build("Statement", scope, window,
                  StatementSubject(subject, predicate, object, {}))} :
        Passes(NewVscChecks(c))}

WithTaskCitation(results, document) ==
    {Cited(c, document) : c \in {c \in results : Passes(CitationChecks(document))}}

\* What the three profile constructors that cite check first.
MayState(predicate, scope, window) ==
    /\ ~ EmptyWindow(window.from, window.until)
    /\ ~ TooNarrow(scope, CoreProfiles[predicate].minimum)

NewEndorsesVsc(scope, window, endorsement) ==
    NewVsc(scope, window, Other, ENDORSES_V1, endorsement)

NewWitnessedVsc(scope, window, witnessed, session, members) ==
    {c \in WithTaskCitation(
              {[v EXCEPT !.subject.members = members] :
                  v \in NewVsc(scope, window, witnessed.issuer, WITNESSED_V1,
                               ObjectDigest(ObservedDigest(witnessed)))}, session) :
        /\ MayState(WITNESSED_V1, scope, window)
        /\ Passes(SessionChecks(session))
        /\ ~ witnessed.deep /\ witnessed.issuer # None}

NewVettedVsc(scope, window, vetting, session) ==
    {c \in WithTaskCitation(NewVsc(scope, window, Other, VETTED_V1, vetting), session) :
        MayState(VETTED_V1, scope, window)}

NewPresentedVsc(scope, window, presented, session) ==
    {c \in WithTaskCitation(
              NewVsc(scope, window, presented.subject, PRESENTED_V1,
                     ObjectDigest(ObservedDigest(presented))), session) :
        /\ MayState(PRESENTED_V1, scope, window)
        /\ ~ presented.deep /\ presented.subject # None}

-----------------------------------------------------------------------------
(* Making it.                                                               *)

Hold(c, maker, document, observed) ==
    /\ by = None
    /\ held' = c /\ by' = maker /\ cited' = document /\ about' = observed
    /\ UNCHANGED <<edited, calls>>

Scopes == IssuerScope

MakeEdgeCredential ==
    \E window \in Windows, scope \in Scopes :
        \/ \E personhood \in BOOLEAN :
              Hold(NewVmc(window, personhood), "new_vmc", None, None)
        \/ Hold(NewVrc(scope, window), "new_vrc", None, None)
        \/ Hold(NewVic(scope, window), "new_vic", None, None)
        \/ Hold(NewVpc(scope, window), "new_vpc", None, None)

MakeVsc ==
    \E window \in Windows, scope \in Scopes, predicate \in Predicates, object \in Objects :
        \E c \in NewVsc(scope, window, Other, predicate, object) :
            Hold(c, "new_vsc", None, None)

MakeProfileStatement ==
    \E window \in Windows, scope \in Scopes :
        \/ \E object \in {o \in Objects : Kind(o) = "value"} :
              \/ \E c \in NewEndorsesVsc(scope, window, object) :
                    Hold(c, "new_endorses_vsc", None, None)
              \/ \E session \in Sessions :
                    \E c \in NewVettedVsc(scope, window, object, session) :
                        Hold(c, "new_vetted_vsc", session, None)
        \/ \E session \in Sessions, observed \in Credentials :
              \/ \E members \in {{}, {"witnessContext"}} :
                    \E c \in NewWitnessedVsc(scope, window, observed, session, members) :
                        Hold(c, "new_witnessed_vsc", session, observed)
              \/ \E c \in NewPresentedVsc(scope, window, observed, session) :
                    Hold(c, "new_presented_vsc", session, observed)

Receive ==
    \E document \in Foreign :
        Parses(document) /\ Hold(Model(document), "received", None, None)

-----------------------------------------------------------------------------
(* Afterwards.                                                              *)

Call == by # None /\ calls < MaxCalls /\ calls' = calls + 1

SetId ==
    /\ Call
    /\ held' = [held EXCEPT !.id = "urn"]
    /\ UNCHANGED <<by, edited, cited, about>>

SetCredentialStatus ==
    /\ Call
    /\ \E status \in StatusMembers : held' = [held EXCEPT !.status = status]
    /\ UNCHANGED <<by, edited, cited, about>>

\* An error leaves the credential as it was.
SetTaskCitation ==
    /\ Call
    /\ \E document \in Sessions :
          /\ held' = Cited(held, document)
          /\ cited' = IF Passes(CitationChecks(document)) THEN document ELSE cited
    /\ UNCHANGED <<by, edited, about>>

\* What a caller may do to each member through credential_mut, and through
\* statement_mut to those of a statement.
Edits(c) ==
    {[c EXCEPT !.context = context] : context \in {<<"v1.1", "dtg/v1">>, <<"v2", "dtg/v2">>}}
    \cup {[c EXCEPT !.types = types] :
            types \in {Append(c.types, "Personhood"), <<"VC", "DTG", "Membership">>}}
    \cup {[c EXCEPT !.scope = scope] : scope \in Scopes}
    \cup {[c EXCEPT !.issuer = Other], [c EXCEPT !.until = c.from],
          [c EXCEPT !.task = None], [c EXCEPT !.taskDigest = None],
          [c EXCEPT !.proof = None], [c EXCEPT !.subject = BasicSubject(Other)],
          [c EXCEPT !.subject = MembershipSubject(Other, "digest")]}
    \cup IF c.subject.shape # "Statement" THEN {}
         ELSE {[c EXCEPT !.subject.predicate = predicate] : predicate \in Predicates}
              \cup {[c EXCEPT !.subject.object = object] : object \in Objects}

CredentialMut ==
    /\ Call
    /\ held' \in Edits(held)
    /\ edited' = TRUE
    /\ UNCHANGED <<by, cited, about>>

\* sign, by whoever has a key; what a second proof covers is not known.
Sign ==
    /\ Call
    /\ held.proof = None
    /\ Valid(held)
    /\ \E signer \in {Me, Other} :
          held' = [held EXCEPT !.proof = [covers |-> Serialized(held), by |-> signer]]
    /\ UNCHANGED <<by, edited, cited, about>>

\* Serialized, and parsed by whoever it was sent to.
Send ==
    /\ Call
    /\ Parses(OnTheWire(held))
    /\ held' = Model(OnTheWire(held))
    /\ UNCHANGED <<by, edited, cited, about>>

Done == (calls = MaxCalls) /\ UNCHANGED vars

Next ==
    \/ MakeEdgeCredential \/ MakeVsc \/ MakeProfileStatement \/ Receive
    \/ SetId \/ SetCredentialStatus \/ SetTaskCitation \/ CredentialMut
    \/ Sign \/ Send \/ Done

Spec == Init /\ [][Next]_vars

-----------------------------------------------------------------------------
SameButProof(document, other) == [document EXCEPT !.proof = other.proof] = other

(* Type invariant: a credential held has every member, a proof made here    *)
(* covers what can be written, in whole seconds, and nothing is recorded of *)
(* a credential that is not there.                                          *)
TypeOK ==
    /\ by \in Makers \cup {None}
    /\ by = None => held = None /\ ~ edited /\ cited = None /\ about = None
    /\ calls \in 0 .. MaxCalls
    /\ cited \in {None} \cup Sessions /\ about \in {None} \cup Credentials
    /\ by # None =>
          /\ DOMAIN held = Member \cup {"type", "proof"}
          /\ held.scope \in Scopes /\ held.type \in Subtypes
          /\ held.status \in StatusMembers \cup {None}
          /\ held.proof \notin {None} \cup {document.proof : document \in Foreign} =>
                /\ held.proof.covers.from = WholeSecond(held.proof.covers.from)
                /\ held.proof.covers.until = WholeSecondOption(held.proof.covers.until)

(* A credential that verifies where it was signed also verifies where it    *)
(* arrives, with the same members, although the parser finds the subject's  *)
(* shape and the subtype anew: nothing sign lets through is written so that *)
(* it reads as another credential.  A status of JSON null is the exception  *)
(* (StatusSurvivesTheWire).                                                 *)
SignedTravels ==
    (by # None /\ ProofHolds(held) /\ held.status # "null") =>
        /\ Parses(OnTheWire(held))
        /\ LET arrived == Model(OnTheWire(held))
           IN  /\ ProofHolds(arrived)
               /\ arrived.type = held.type
               /\ arrived.subject = held.subject

(* What an accept-list takes in memory, whatever was done to it since it    *)
(* was built or parsed, it takes from the wire too; and a list that names   *)
(* no constraints takes no statement under witnessed/1, vetted/1 or         *)
(* presented/1 without the whole of its citation.                           *)
AcceptanceTravels ==
    \A list \in Lists :
        by # None /\ Accepts(list, held) =>
            /\ Parses(OnTheWire(held))
            /\ Accepts(list, Model(OnTheWire(held)))
            /\ held.subject.predicate \in {WITNESSED_V1, VETTED_V1, PRESENTED_V1} =>
                  held.task # None /\ held.taskDigest # None /\ held.scope # Pairwise

(* Outside of credential_mut both members of a citation come from one       *)
(* document: the last one cited is the one the credential cites, under any  *)
(* proof, and no other; a citation that failed left the earlier one whole.  *)
CitesOneDocument ==
    (by # None /\ by # "received" /\ ~ edited) =>
        /\ held.task = None <=> held.taskDigest = None
        /\ cited = None <=> held.task = None
        /\ \A document \in Sessions :
              CitesTask(held, document) <=>
                  cited # None /\ ~ document.deep /\ SameButProof(document, cited)

(* A statement built here over a credential names that credential, under    *)
(* any of its proofs, and no other, and takes the issuer for the party      *)
(* witnessed and the subject for the one who presented: through signing,    *)
(* sending and later citations, until credential_mut.                       *)
StatementsNameTheirReferent ==
    (about # None /\ ~ edited) =>
        \A document \in Credentials :
            LET same == ~ document.deep /\ SameButProof(document, about)
            IN  /\ WitnessesIssuanceOf(held, document) <=>
                      same /\ by = "new_witnessed_vsc"
                /\ WitnessesPresentationOf(held, document) <=>
                      same /\ by = "new_presented_vsc"

(* What a profile constructor returned can be signed, and so can what       *)
(* new_vsc returned, once it is cited, unless its object is a bare name     *)
(* (VscNeedsOnlyItsCitation): nothing else of either, after any of the      *)
(* setters, is left for validate to refuse but a status nested too deep.    *)
StatementsAreSignable ==
    (/\ by # None /\ ~ edited /\ held.status # "deep"
     /\ \/ by \in {"new_endorses_vsc", "new_witnessed_vsc", "new_vetted_vsc",
                   "new_presented_vsc"}
        \/ by = "new_vsc" /\ cited # None /\ held.subject.object # ObjectId("bare")) =>
    Valid(held)

(* statement.rs, new_vsc: it checks "Everything but the citation, which a   *)
(* caller adds afterwards".  As a property: once the citation is there,     *)
(* what new_vsc returned can be signed.                                     *)
VscNeedsOnlyItsCitation ==
    (by = "new_vsc" /\ ~ edited /\ cited # None /\ held.status # "deep") => Valid(held)

(* lib.rs, credential_status: "Modelled so that digests survive a round     *)
(* trip".  As a property: what is written and parsed has the digest it had, *)
(* and so its proof still holds.                                            *)
StatusSurvivesTheWire ==
    (by # None /\ ProofHolds(held)) =>
        Parses(OnTheWire(held)) /\ ProofHolds(Model(OnTheWire(held)))
=============================================================================
