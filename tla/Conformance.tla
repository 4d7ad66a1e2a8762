---------------------------- MODULE Conformance ----------------------------
(***************************************************************************)
(* One credential, in memory and on the wire: what is written, what a      *)
(* parse makes of it, and the checks a parse, a signature and a            *)
(* verification all hold it to.                                            *)
(***************************************************************************)
EXTENDS Statement

\* What a credential holds but its proof, and the subtype cached beside it.
\* `context` and `types` are arrays; `status` may be a JSON null.
Member == {"context", "types", "id", "issuer", "scope", "from", "until",
           "task", "taskDigest", "subject", "status"}

Claims(c) == [m \in Member |-> c[m]]

-----------------------------------------------------------------------------
(* Subjects.  An untagged match takes the first shape that fits; a          *)
(* membership without a digest is written, and so read, as { id }.          *)

BasicSubject(id) == [shape |-> "Basic", id |-> id]

MembershipSubject(id, digest) ==
    [shape |-> "Membership", id |-> id, digest |-> digest]

StatementSubject(id, predicate, object, members) ==
    [shape |-> "Statement", id |-> id, predicate |-> predicate,
     object |-> object, members |-> members]

\* An authority names actions or none, a delegation has the shape of one half
\* or of neither (DelegationIssuance).
GrantSubject(shape, id, wellShaped) ==
    [shape |-> shape, id |-> id, wellShaped |-> wellShaped]

SubjectOnTheWire(subject) ==
    IF subject.shape = "Membership" /\ subject.digest = None
    THEN BasicSubject(subject.id) ELSE subject

\* Not the code's: the subject stays as the untagged match found it
\* (SignedTravels).
NormalizedMutant(type, subject) == subject

\* TryFrom<DTGCommon>: { id } under a membership type is a grant.
Normalized(type, subject) ==
    IF type = "Membership" /\ subject.shape = "Basic"
    THEN MembershipSubject(subject.id, None) ELSE subject

-----------------------------------------------------------------------------
(* @context and type.                                                       *)

Subtypes == {"Membership", "Relationship", "Delegation", "Invitation",
             "Persona", "Statement", "Authority"}

ContextChecks(context) ==
    << Check("UnknownVCVersion", Len(context) < 1 \/ context[1] \notin {"v2", "v1.1"}),
       Check("InvalidContext",   Len(context) < 2 \/ context[2] # "dtg/v1") >>

TypeNames(types) == {types[i] : i \in DOMAIN types}

\* check_type, its errors in the order they can be told apart.
TypeChecks(types) ==
    << Check("InvalidType", TypeNames(types) \ (Subtypes \cup {"VC", "DTG", "Personhood"}) # {}),
       Check("InvalidType", Cardinality(TypeNames(types)) < Len(types)),
       Check("InvalidType", Cardinality(TypeNames(types) \cap Subtypes) > 1),
       Check("InvalidType", ~ ({"VC", "DTG"} \subseteq TypeNames(types))),
       Check("UnknownCredential", TypeNames(types) \cap Subtypes = {}),
       Check("InvalidType", "Personhood" \in TypeNames(types) /\ "Membership" \notin TypeNames(types)) >>

SubtypeOf(types) == CHOOSE t \in TypeNames(types) : t \in Subtypes

-----------------------------------------------------------------------------
(* check_conformance and validate.                                          *)

ShapeFor(type) ==
    CASE type \in {"Relationship", "Invitation", "Persona"} -> "Basic"
      [] OTHER -> type

SubjectChecks(c) ==
    CASE c.type = "Membership" ->
           << Check("IssuerScopeTooNarrow", c.subject.digest = None /\ c.scope # Public) >>
      [] c.type = "Statement" -> StatementChecks(c)
      [] c.type = "Authority" -> << Check("EmptyAuthorityActions", ~ c.subject.wellShaped) >>
      [] c.type = "Delegation" -> << Check("MalformedDelegation", ~ c.subject.wellShaped) >>
      [] OTHER -> << >>

\* Not the code's: the type array is not compared with the cached subtype
\* (SignedTravels).
ArrayNamesMutant(c) == TRUE

ArrayNames(c) == SubtypeOf(c.types) = c.type

ConformanceChecks(c) ==
    LET arrays == ContextChecks(c.context) \o TypeChecks(c.types)
    IN  IF ~ Passes(arrays) THEN arrays
        ELSE << Check("InvalidType", ~ ArrayNames(c)),
                Check("UnknownCredential", c.subject.shape # ShapeFor(c.type)) >>
             \o IF c.subject.shape = ShapeFor(c.type) THEN SubjectChecks(c) ELSE << >>

\* DTGCommon::check_depth: the open members that may cross the bound (JsonDepth).
TooDeep(c) ==
    \/ c.status = "deep"
    \/ c.subject.shape = "Statement" /\ c.subject.object = ObjectValue("deep")

ValidityChecks(c) ==
    << Check("InvalidValidityWindow", EmptyWindow(c.from, c.until)),
       Check("JsonTooDeep", TooDeep(c)) >> \o ConformanceChecks(c)

Valid(c) == Passes(ValidityChecks(c))

-----------------------------------------------------------------------------
(* The wire.                                                                *)

\* Not the code's: fractions of a second stay on the wire (TypeOK).
SerializedMutant(c) == [Claims(c) EXCEPT !.subject = SubjectOnTheWire(@)]

\* What is serialized, signed and digested: whole seconds, and a membership
\* grant's subject as { id }.
Serialized(c) ==
    [Claims(c) EXCEPT !.from = WholeSecond(@), !.until = WholeSecondOption(@),
                      !.subject = SubjectOnTheWire(@)]

OnTheWire(c) == [claims |-> Serialized(c), proof |-> c.proof]

\* TryFrom<Value>, past the arrays: null members are read as absent.
Model(document) ==
    LET claims == document.claims
        type   == SubtypeOf(claims.types)
    IN  [m \in Member \cup {"type", "proof"} |->
            CASE m = "type"    -> type
              [] m = "proof"   -> document.proof
              [] m = "subject" -> Normalized(type, claims.subject)
              [] m = "status"  -> IF claims.status = "null" THEN None ELSE claims.status
              [] OTHER         -> claims[m]]

Parses(document) ==
    /\ Passes(ContextChecks(document.claims.context))
    /\ Passes(TypeChecks(document.claims.types))
    /\ Passes(ConformanceChecks(Model(document)))

\* verify_proof_with_public_key, with the key of the issuer: the proof is over
\* what the credential now says, and of a method of its issuer.
ProofHolds(c) ==
    /\ Valid(c)
    /\ c.proof # None
    /\ c.proof.covers = Serialized(c)
    /\ c.proof.by = c.issuer
=============================================================================
