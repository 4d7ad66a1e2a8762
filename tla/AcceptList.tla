----------------------------- MODULE AcceptList -----------------------------
(***************************************************************************)
(* PredicateAcceptList: the predicates a verifier takes statements under,  *)
(* each with the constraints of its registry entry, if the list was built  *)
(* from a registry.                                                        *)
(***************************************************************************)
EXTENDS Conformance

Statuses == {"draft", "candidate", "standard", "deprecated"}

\* AcceptListEntry: a profile, its status, and the members it adds that are
\* REQUIRED of a statement.
Entry == [status : Statuses, kinds : SUBSET ObjectKind, cited : BOOLEAN,
          minimum : IssuerScope \cup {None}, required : SUBSET STRING]

(* A list maps the predicates it takes to their entries, or to None; the    *)
(* two constructors refuse a list with an IRI that is not absolute and NFC. *)

Built(list) == {l \in {list} : \A predicate \in DOMAIN l : WellFormed(predicate)}

FromIris(iris) == Built([predicate \in iris |-> None])

FromRegistry(registry, statuses) ==
    LET selected == {p \in DOMAIN registry : registry[p].status \in statuses}
    IN  Built([predicate \in selected |-> registry[predicate]])

EntryChecks(entry, c) ==
    ConstraintChecks(entry, c)
    \o << Check("ProfileViolation", ~ (entry.required \subseteq c.subject.members)) >>

\* Not the code's: what held when the statement was parsed is not checked
\* again (AcceptanceTravels).
AcceptChecksMutant(list, c) ==
    << Check("WrongCredentialType", c.type # "Statement" \/ c.subject.shape # "Statement") >>
    \o IF c.subject.shape # "Statement" THEN << >>
       ELSE << Check("PredicateNotAccepted", c.subject.predicate \notin DOMAIN list) >>
            \o IF c.subject.predicate \notin DOMAIN list \/ list[c.subject.predicate] = None
               THEN << >> ELSE EntryChecks(list[c.subject.predicate], c)

\* accept.
AcceptChecks(list, c) ==
    << Check("WrongCredentialType", c.type # "Statement" \/ c.subject.shape # "Statement") >>
    \o IF c.subject.shape # "Statement" THEN << >>
       ELSE ValidityChecks(c)
            \o << Check("PredicateNotAccepted", c.subject.predicate \notin DOMAIN list) >>
            \o IF c.subject.predicate \notin DOMAIN list \/ list[c.subject.predicate] = None
               THEN << >> ELSE EntryChecks(list[c.subject.predicate], c)

Accepts(list, c) == Passes(AcceptChecks(list, c))
=============================================================================
