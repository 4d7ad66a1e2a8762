----------------------------- MODULE Statement -----------------------------
(***************************************************************************)
(* What a statement credential (VSC) may say: its predicate, its object,   *)
(* the profile of each core predicate, the Trust Task document it cites    *)
(* and the credential it is about.  Pure definitions over one credential,  *)
(* shared by the parser, the signer and the accept-list.                   *)
(***************************************************************************)
EXTENDS DTGBase

-----------------------------------------------------------------------------
(* Correlation scopes, narrowest first.                                     *)

Pairwise == 1
Directed == 2
Public == 3

IssuerScope == Pairwise .. Public

Satisfies(declared, minimum) == declared >= minimum

-----------------------------------------------------------------------------
(* Predicates.  An IRI is compared as written; its form says which test of  *)
(* check_predicate_iri it fails, if any.                                    *)

AbsoluteForms == {"hierarchical", "urn", "did"}

PredicateIri ==
    [name : {"endorses/1", "witnessed/1", "vetted/1", "presented/1", "community"},
     form : AbsoluteForms \cup {"curie", "relative", "spaced", "not NFC"}]

WellFormed(predicate) == predicate.form \in AbsoluteForms

Core(name) == [name |-> name, form |-> "hierarchical"]

ENDORSES_V1  == Core("endorses/1")
WITNESSED_V1 == Core("witnessed/1")
VETTED_V1    == Core("vetted/1")
PRESENTED_V1 == Core("presented/1")

-----------------------------------------------------------------------------
(* Objects: exactly one of three members, and so a record of one field.  An *)
(* id is an absolute IRI or a bare name, a value is nested within the bound *)
(* or beyond it.                                                            *)

ObjectKind == {"id", "digestMultibase", "value"}

ObjectId(iri)       == [id |-> iri]
ObjectDigest(named) == [digestMultibase |-> named]
ObjectValue(value)  == [value |-> value]

Kind(object) == CHOOSE kind \in ObjectKind : kind \in DOMAIN object

-----------------------------------------------------------------------------
(* Profiles.                                                                *)

Profile == [kinds : SUBSET ObjectKind, cited : BOOLEAN,
            minimum : IssuerScope \cup {None}]

CoreProfiles ==
    [predicate \in {ENDORSES_V1, WITNESSED_V1, VETTED_V1, PRESENTED_V1} |->
        IF predicate = ENDORSES_V1
        THEN [kinds |-> {"value"}, cited |-> FALSE, minimum |-> None]
        ELSE [kinds |-> IF predicate = VETTED_V1 THEN {"value"} ELSE {"digestMultibase"},
              cited |-> TRUE, minimum |-> Directed]]

TooNarrow(scope, minimum) == minimum # None /\ ~ Satisfies(scope, minimum)

\* check_constraints, of a profile or of an accept-list entry.
ConstraintChecks(profile, c) ==
    << Check("ProfileViolation",     Kind(c.subject.object) \notin profile.kinds),
       Check("IssuerScopeTooNarrow", TooNarrow(c.scope, profile.minimum)),
       Check("MissingTaskContext",   profile.cited /\ c.task = None),
       Check("MissingTaskDigest",    profile.cited /\ c.taskDigest = None) >>

CoreChecks(c) ==
    IF c.subject.predicate \in DOMAIN CoreProfiles
    THEN ConstraintChecks(CoreProfiles[c.subject.predicate], c) ELSE << >>

\* check_statement.
StatementChecks(c) ==
    << Check("InvalidPredicate", ~ WellFormed(c.subject.predicate)),
       Check("ProfileViolation", c.subject.object = ObjectId("bare")) >>
    \o CoreChecks(c)

\* check_statement_before_citation: the profile as if nothing had to be cited.
BeforeCitationChecks(c) ==
    << Check("InvalidPredicate", ~ WellFormed(c.subject.predicate)) >>
    \o IF c.subject.predicate \in DOMAIN CoreProfiles
       THEN ConstraintChecks([CoreProfiles[c.subject.predicate] EXCEPT !.cited = FALSE], c)
       ELSE << >>

-----------------------------------------------------------------------------
(* Trust Task documents.  A digest covers a document but for its top-level  *)
(* proof and collides with no other; there is none of a document nested too *)
(* deep, and no id in one that is not an object.                            *)

TaskDocument ==
    [id : {"x1", "x2"} \cup {None}, thread : {"x1", "x2"} \cup {None},
     type : {"witness/session", "witness/session/submit", "other"},
     content : {"honest", "counterfeit"}, deep : BOOLEAN, proof : {1, 2}]

TaskDigest(document) == [document EXCEPT !.proof = 1]

\* check_witness_session.
SessionChecks(session) ==
    << Check("MalformedTaskDocument", session.id = None),
       Check("NotAWitnessSession",    session.type # "witness/session"),
       Check("NotAWitnessSession",    session.thread # session.id) >>

\* set_task_citation: what it returns early with.
CitationChecks(document) ==
    << Check("MalformedTaskDocument", document.id = None),
       Check("JsonTooDeep",           document.deep) >>

\* Not the code's: the id is set before the digest has been computed
\* (CitesOneDocument).
CitedMutant(c, document) ==
    IF document.id = None THEN c
    ELSE IF document.deep THEN [c EXCEPT !.task = document.id]
    ELSE [c EXCEPT !.task = document.id, !.taskDigest = TaskDigest(document)]

\* set_task_citation: both members from one document, neither on an error.
Cited(c, document) ==
    IF Passes(CitationChecks(document))
    THEN [c EXCEPT !.task = document.id, !.taskDigest = TaskDigest(document)]
    ELSE c

\* cites_task, for a document whose digest can be computed.
CitesTask(c, document) ==
    /\ c.task # None /\ c.taskDigest # None
    /\ c.task = document.id
    /\ c.taskDigest = TaskDigest(document)

-----------------------------------------------------------------------------
(* The credential a statement is about, in its wire form.                   *)

Observed ==
    [issuer : {"a", "b"} \cup {None}, subject : {"a", "b"} \cup {None},
     deep : BOOLEAN, proof : {1, 2}]

\* Not the code's: the proof is digested with the claims (StatementsNameTheirReferent).
ObservedDigestMutant(document) == document

\* digest_multibase_json.
ObservedDigest(document) == [document EXCEPT !.proof = 1]

\* statement_names; `party` is what the caller read off the credential.
StatementNames(c, predicate, document, party) ==
    /\ Kind(c.subject.object) = "digestMultibase"
    /\ c.subject.predicate = predicate
    /\ party # None /\ c.subject.id = party
    /\ ~ document.deep
    /\ c.subject.object = ObjectDigest(ObservedDigest(document))

WitnessesIssuanceOf(c, document) ==
    StatementNames(c, WITNESSED_V1, document, document.issuer)

WitnessesPresentationOf(c, document) ==
    StatementNames(c, PRESENTED_V1, document, document.subject)
=============================================================================
