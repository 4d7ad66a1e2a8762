------------------------ MODULE MCCredentialLifecycle ------------------------
(***************************************************************************)
(* One window with fractions of a second at both ends and one that is empty *)
(* on the wire (a foreign document has an open one); credentials and Trust *)
(* Task documents that differ in one thing each; foreign documents that a  *)
(* parser has to take or to refuse.                                        *)
(***************************************************************************)
EXTENDS CredentialLifecycle, TLC

Window(from, until) == [from |-> from, until |-> until]

\* At SubSeconds = 2.
MCWindows == {Window(1, 5), Window(2, 3)}

Community == [name |-> "community", form |-> "urn"]
Curie == [name |-> "witnessed/1", form |-> "curie"]

MCPredicates == {WITNESSED_V1, Community, Curie}

Vrc == [issuer |-> "a", subject |-> "b", deep |-> FALSE, proof |-> 1]

MCCredentials ==
    {Vrc, [Vrc EXCEPT !.proof = 2], [Vrc EXCEPT !.issuer = None],
     [Vrc EXCEPT !.subject = None], [Vrc EXCEPT !.deep = TRUE]}

Session ==
    [id |-> "x1", thread |-> "x1", type |-> "witness/session",
     content |-> "honest", deep |-> FALSE, proof |-> 1]

MCSessions ==
    {Session, [Session EXCEPT !.proof = 2], [Session EXCEPT !.content = "counterfeit"],
     [Session EXCEPT !.id = "x2"], [Session EXCEPT !.id = None],
     [Session EXCEPT !.deep = TRUE], [Session EXCEPT !.type = "witness/session/submit"]}

MCObjects ==
    {ObjectId("iri"), ObjectId("bare"), ObjectDigest(ObservedDigest(Vrc)),
     ObjectValue("flat"), ObjectValue("deep")}

-----------------------------------------------------------------------------
Wire(c) == [claims |-> Claims(c), proof |-> None]

ForeignVmc == NewVmc(Window(1, 5), TRUE)
ForeignVsc ==
    [Build("Statement", Directed, Window(1, 5),
           StatementSubject("b", WITNESSED_V1, ObjectDigest(Vrc), {"note"}))
        EXCEPT !.task = "x1", !.taskDigest = TaskDigest(Session)]
Listed(type, subject) == Build(type, Public, Window(0, None), subject)

MCForeign ==
    {Wire(c) : c \in
        {[ForeignVmc EXCEPT !.subject = BasicSubject("b")],
         [ForeignVmc EXCEPT !.subject = MembershipSubject("b", "digest"),
                            !.scope = Pairwise],
         [ForeignVmc EXCEPT !.scope = Directed],
         [ForeignVmc EXCEPT !.types = Append(@, "DTG")],
         [ForeignVmc EXCEPT !.types = Append(@, "Persona")],
         [ForeignVmc EXCEPT !.types = Append(@, "retired")],
         [ForeignVmc EXCEPT !.types = <<"DTG", "Membership">>],
         [ForeignVmc EXCEPT !.types = <<"DTG", "VC">>],
         [ForeignVmc EXCEPT !.context = <<"dtg/v1", "v2">>],
         [ForeignVmc EXCEPT !.context = <<"v1.1", "dtg/v1", "status/v1">>],
         [ForeignVmc EXCEPT !.context = <<"v2">>],
         [Listed("Invitation", BasicSubject("b")) EXCEPT !.types = Append(@, "Personhood")],
         ForeignVsc,
         [ForeignVsc EXCEPT !.task = None],
         [ForeignVsc EXCEPT !.subject.predicate = Community, !.task = None],
         [ForeignVsc EXCEPT !.subject.predicate = Curie],
         [ForeignVsc EXCEPT !.subject.predicate = Community,
                            !.subject.object = ObjectValue("deep")],
         [ForeignVsc EXCEPT !.subject.predicate = Community,
                            !.subject.object = ObjectId("bare")],
         [ForeignVsc EXCEPT !.status = "null"],
         Listed("Authority", GrantSubject("Authority", "b", TRUE)),
         Listed("Authority", GrantSubject("Authority", "b", FALSE)),
         Listed("Delegation", GrantSubject("Delegation", "b", TRUE)),
         Listed("Delegation", GrantSubject("Delegation", "b", FALSE)),
         Listed("Delegation", GrantSubject("Authority", "b", TRUE))}}

-----------------------------------------------------------------------------
Constrained(status, kinds, required) ==
    [status |-> status, kinds |-> kinds, cited |-> FALSE,
     minimum |-> None, required |-> required]

Registry ==
    WITNESSED_V1 :> Constrained("standard", {"digestMultibase"}, {"witnessContext"})
    @@ Community :> [Constrained("candidate", {"value", "id"}, {})
                        EXCEPT !.cited = TRUE, !.minimum = Directed]
    @@ VETTED_V1 :> Constrained("deprecated", {"value"}, {})
    @@ Curie     :> Constrained("draft", {"digestMultibase"}, {})

MCLists ==
    FromIris({WITNESSED_V1, PRESENTED_V1, VETTED_V1, ENDORSES_V1, Community})
    \cup FromIris({WITNESSED_V1, Curie})
    \cup FromRegistry(Registry, {"candidate", "standard"})
    \cup FromRegistry(Registry, {"deprecated"})
    \cup FromRegistry(Registry, Statuses)
    \cup FromRegistry(Registry, {})
=============================================================================
