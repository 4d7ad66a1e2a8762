---------------------- MODULE CredentialLifecycleProofs ----------------------
(***************************************************************************)
(* What a credential cites, and what a statement is about, through any     *)
(* number of setters, signatures and parses; and that what was signed or   *)
(* taken by an accept-list here is the same where it arrives.              *)
(*                                                                         *)
(* Two invariants: IInv, of what is recorded of a credential's making, and *)
(* FInv, of its members.  The checks of a credential are sequences put     *)
(* together from parts; PassesBoth takes them apart, and each of the *Read *)
(* lemmas says what one of them amounts to.                                *)
(***************************************************************************)
EXTENDS CredentialLifecycle, DTGBaseProofs, FiniteSetTheorems

-----------------------------------------------------------------------------
(* Digests.                                                                 *)

\* Two Trust Task documents have one digest exactly when they differ in their
\* proof at most.
LEMMA SameTaskDigest ==
    ASSUME NEW d \in TaskDocument, NEW e \in TaskDocument
    PROVE  TaskDigest(d) = TaskDigest(e) <=> SameButProof(d, e)
<1>1. /\ d = [id |-> d.id, thread |-> d.thread, type |-> d.type,
              content |-> d.content, deep |-> d.deep, proof |-> d.proof]
      /\ e = [id |-> e.id, thread |-> e.thread, type |-> e.type,
              content |-> e.content, deep |-> e.deep, proof |-> e.proof]
  BY DEF TaskDocument
<1>2. /\ TaskDigest(d) = [id |-> d.id, thread |-> d.thread, type |-> d.type,
                          content |-> d.content, deep |-> d.deep, proof |-> 1]
      /\ TaskDigest(e) = [id |-> e.id, thread |-> e.thread, type |-> e.type,
                          content |-> e.content, deep |-> e.deep, proof |-> 1]
      /\ [d EXCEPT !.proof = e.proof] =
            [id |-> d.id, thread |-> d.thread, type |-> d.type,
             content |-> d.content, deep |-> d.deep, proof |-> e.proof]
  BY DEF TaskDocument, TaskDigest
<1> QED
  BY <1>1, <1>2 DEF SameButProof

LEMMA SameObservedDigest ==
    ASSUME NEW d \in Observed, NEW e \in Observed
    PROVE  ObservedDigest(d) = ObservedDigest(e) <=> SameButProof(d, e)
<1>1. /\ d = [issuer |-> d.issuer, subject |-> d.subject, deep |-> d.deep, proof |-> d.proof]
      /\ e = [issuer |-> e.issuer, subject |-> e.subject, deep |-> e.deep, proof |-> e.proof]
  BY DEF Observed
<1>2. /\ ObservedDigest(d) = [issuer |-> d.issuer, subject |-> d.subject,
                              deep |-> d.deep, proof |-> 1]
      /\ ObservedDigest(e) = [issuer |-> e.issuer, subject |-> e.subject,
                              deep |-> e.deep, proof |-> 1]
      /\ [d EXCEPT !.proof = e.proof] =
            [issuer |-> d.issuer, subject |-> d.subject, deep |-> d.deep, proof |-> e.proof]
  BY DEF Observed, ObservedDigest
<1> QED
  BY <1>1, <1>2 DEF SameButProof

-----------------------------------------------------------------------------
(* The invariant.                                                           *)

Members == Member \cup {"type", "proof"}

\* `c` cites the document, and nothing where there is none.
Citing(c, document) ==
    /\ document = None => c.task = None /\ c.taskDigest = None
    /\ document # None =>
          /\ document \in Sessions /\ ~ document.deep
          /\ document.id # None /\ c.task = document.id
          /\ c.taskDigest = TaskDigest(document)

\* `c` is the statement `maker` makes about the document.
Stating(c, maker, document) ==
    /\ document \in Credentials /\ ~ document.deep
    /\ c.subject.shape = "Statement"
    /\ c.subject.object = ObjectDigest(ObservedDigest(document))
    /\ \/ /\ maker = "new_witnessed_vsc" /\ c.subject.predicate = WITNESSED_V1
          /\ document.issuer # None /\ c.subject.id = document.issuer
       \/ /\ maker = "new_presented_vsc" /\ c.subject.predicate = PRESENTED_V1
          /\ document.subject # None /\ c.subject.id = document.subject

IInv ==
    /\ by # None => DOMAIN held = Members
    /\ (by # None /\ by # "received" /\ ~ edited) => Citing(held, cited)
    /\ (about # None /\ ~ edited) => Stating(held, by, about)

LEMMA CitationPasses ==
    ASSUME NEW document
    PROVE  Passes(CitationChecks(document)) <=> document.id # None /\ ~ document.deep
BY Passes2 DEF CitationChecks

\* A call that keeps the credential's members, its subject and its citation, or
\* replaces the citation as a whole.
LEMMA CallInvariant ==
    ASSUME IInv, by # None, UNCHANGED <<by, edited, about>>,
           DOMAIN held' = Members, held'.subject = held.subject,
           \/ /\ held'.task = held.task /\ held'.taskDigest = held.taskDigest
              /\ UNCHANGED cited
           \/ /\ cited' \in Sessions /\ ~ cited'.deep /\ cited'.id # None
              /\ held'.task = cited'.id /\ held'.taskDigest = TaskDigest(cited')
    PROVE  IInv'
<1>1. ASSUME (by # "received" /\ ~ edited)' PROVE Citing(held, cited)'
  <2>1. Citing(held, cited)
    BY <1>1 DEF IInv
  <2>2. cited' \in Sessions => cited' # None
    BY InputsAssumption
  <2> QED
    BY <2>1, <2>2 DEF Citing
<1>2. ASSUME (about # None /\ ~ edited)' PROVE Stating(held, by, about)'
  <2>1. Stating(held, by, about)
    BY <1>2 DEF IInv
  <2> QED
    BY <2>1 DEF Stating
<1> QED
  BY <1>1, <1>2 DEF IInv

LEMMA HoldInvariant ==
    ASSUME IInv, NEW c, NEW maker, NEW document, NEW observed,
           Hold(c, maker, document, observed),
           DOMAIN c = Members,
           maker # "received" => Citing(c, document),
           observed # None => Stating(c, maker, observed)
    PROVE  IInv'
BY DEF Hold, IInv

LEMMA BuildMembers ==
    ASSUME NEW type, NEW scope, NEW window, NEW subject
    PROVE  LET c == Build(type, scope, window, subject)
           IN  /\ DOMAIN c = Members /\ c.subject = subject
               /\ c.task = None /\ c.taskDigest = None
BY DEF Build, Members, Member

\* What a constructor that cites returns cites what it was given.
LEMMA CitedMembers ==
    ASSUME NEW results, NEW document \in Sessions,
           NEW c \in WithTaskCitation(results, document),
           \A r \in results : DOMAIN r = Members
    PROVE  /\ Citing(c, document) /\ document # None
           /\ \E r \in results : c.subject = r.subject
           /\ DOMAIN c = Members
<1>1. PICK r \in results :
        c = Cited(r, document) /\ Passes(CitationChecks(document))
  BY DEF WithTaskCitation
<1>2. document.id # None /\ ~ document.deep
  BY <1>1, CitationPasses
<1>3. c = [r EXCEPT !.task = document.id, !.taskDigest = TaskDigest(document)]
  BY <1>1 DEF Cited
<1>4. DOMAIN r = Members /\ {"task", "taskDigest", "subject"} \subseteq Members
  BY DEF Members, Member
<1>5. /\ c.task = document.id /\ c.taskDigest = TaskDigest(document)
      /\ c.subject = r.subject /\ DOMAIN c = Members
  BY <1>3, <1>4
<1>6. document # None
  BY InputsAssumption
<1> QED
  BY <1>2, <1>5, <1>6 DEF Citing

-----------------------------------------------------------------------------
(* Making it.                                                               *)

LEMMA MakeEdgeInvariant ==
    ASSUME IInv, MakeEdgeCredential
    PROVE  IInv'
<1>1. PICK window \in Windows, scope \in Scopes :
        \/ \E personhood \in BOOLEAN :
              Hold(NewVmc(window, personhood), "new_vmc", None, None)
        \/ Hold(NewVrc(scope, window), "new_vrc", None, None)
        \/ Hold(NewVic(scope, window), "new_vic", None, None)
        \/ Hold(NewVpc(scope, window), "new_vpc", None, None)
  BY DEF MakeEdgeCredential
<1>2. ASSUME NEW c, NEW maker, Hold(c, maker, None, None), DOMAIN c = Members,
             c.task = None, c.taskDigest = None
      PROVE  IInv'
  BY <1>2, HoldInvariant DEF Citing
<1>3. ASSUME NEW personhood \in BOOLEAN,
             Hold(NewVmc(window, personhood), "new_vmc", None, None)
      PROVE  IInv'
  <2> DEFINE vmc == Build("Membership", Public, window, MembershipSubject(Other, None))
             c == NewVmc(window, personhood)
  <2>1. DOMAIN vmc = Members /\ vmc.task = None /\ vmc.taskDigest = None
    BY BuildMembers
  <2>2. c = vmc \/ c = [vmc EXCEPT !.types = Append(@, "Personhood")]
    BY DEF NewVmc
  <2>3. "task" \in Members /\ "taskDigest" \in Members
    BY DEF Members, Member
  <2> HIDE DEF vmc, c
  <2>4. DOMAIN c = Members /\ c.task = None /\ c.taskDigest = None
    BY <2>1, <2>2, <2>3
  <2> QED
    BY <1>2, <1>3, <2>4 DEF c
<1>4. \A type, subject :
         LET c == Build(type, scope, window, subject)
         IN  DOMAIN c = Members /\ c.task = None /\ c.taskDigest = None
  BY BuildMembers
<1>5. CASE Hold(NewVrc(scope, window), "new_vrc", None, None)
  BY <1>2, <1>4, <1>5 DEF NewVrc
<1>6. CASE Hold(NewVic(scope, window), "new_vic", None, None)
  BY <1>2, <1>4, <1>6 DEF NewVic
<1>7. CASE Hold(NewVpc(scope, window), "new_vpc", None, None)
  BY <1>2, <1>4, <1>7 DEF NewVpc
<1> QED
  BY <1>1, <1>3, <1>5, <1>6, <1>7

LEMMA NewVscMembers ==
    ASSUME NEW scope, NEW window, NEW subject, NEW predicate, NEW object,
           NEW c \in NewVsc(scope, window, subject, predicate, object)
    PROVE  /\ DOMAIN c = Members /\ c.task = None /\ c.taskDigest = None
           /\ c.subject = StatementSubject(subject, predicate, object, {})
BY BuildMembers DEF NewVsc

LEMMA MakeVscInvariant ==
    ASSUME IInv, MakeVsc
    PROVE  IInv'
<1>1. PICK window \in Windows, scope \in Scopes, predicate \in Predicates,
           object \in Objects :
        \E c \in NewVsc(scope, window, Other, predicate, object) :
            Hold(c, "new_vsc", None, None)
  BY DEF MakeVsc
<1>2. PICK c \in NewVsc(scope, window, Other, predicate, object) :
        Hold(c, "new_vsc", None, None)
  BY <1>1
<1>3. DOMAIN c = Members /\ c.task = None /\ c.taskDigest = None
  BY <1>2, NewVscMembers
<1>4. Citing(c, None)
  BY <1>3 DEF Citing
<1> QED
  BY <1>2, <1>3, <1>4, HoldInvariant

LEMMA WitnessedInvariant ==
    ASSUME IInv, NEW scope, NEW window, NEW session \in Sessions,
           NEW observed \in Credentials, NEW members,
           NEW c \in NewWitnessedVsc(scope, window, observed, session, members),
           Hold(c, "new_witnessed_vsc", session, observed)
    PROVE  IInv'
<1> DEFINE object == ObjectDigest(ObservedDigest(observed))
           base == NewVsc(scope, window, observed.issuer, WITNESSED_V1, object)
           results == {[v EXCEPT !.subject.members = members] : v \in base}
<1>1. /\ c \in WithTaskCitation(results, session)
      /\ ~ observed.deep /\ observed.issuer # None
  BY DEF NewWitnessedVsc
<1>2. ASSUME NEW r \in results
      PROVE  /\ DOMAIN r = Members
             /\ r.subject.shape = "Statement" /\ r.subject.object = object
             /\ r.subject.predicate = WITNESSED_V1
             /\ r.subject.id = observed.issuer
  <2>1. PICK v \in base : r = [v EXCEPT !.subject.members = members]
    OBVIOUS
  <2>2. /\ DOMAIN v = Members
        /\ v.subject = StatementSubject(observed.issuer, WITNESSED_V1, object, {})
    BY NewVscMembers
  <2>3. "subject" \in Members
    BY DEF Members, Member
  <2>4. DOMAIN r = Members /\ r.subject = [v.subject EXCEPT !.members = members]
    BY <2>1, <2>2, <2>3
  <2> QED
    BY <2>2, <2>4 DEF StatementSubject
<1> HIDE DEF results, object
<1>3. /\ Citing(c, session) /\ DOMAIN c = Members
      /\ \E r \in results : c.subject = r.subject
  BY <1>1, <1>2, CitedMembers
<1>4. Stating(c, "new_witnessed_vsc", observed)
  BY <1>1, <1>2, <1>3 DEF Stating, object
<1> QED
  BY <1>3, <1>4, HoldInvariant

LEMMA PresentedInvariant ==
    ASSUME IInv, NEW scope, NEW window, NEW session \in Sessions,
           NEW observed \in Credentials,
           NEW c \in NewPresentedVsc(scope, window, observed, session),
           Hold(c, "new_presented_vsc", session, observed)
    PROVE  IInv'
<1> DEFINE object == ObjectDigest(ObservedDigest(observed))
           results == NewVsc(scope, window, observed.subject, PRESENTED_V1, object)
<1>1. /\ c \in WithTaskCitation(results, session)
      /\ ~ observed.deep /\ observed.subject # None
  BY DEF NewPresentedVsc
<1>2. ASSUME NEW r \in results
      PROVE  /\ DOMAIN r = Members
             /\ r.subject.shape = "Statement" /\ r.subject.object = object
             /\ r.subject.predicate = PRESENTED_V1
             /\ r.subject.id = observed.subject
  <2>1. /\ DOMAIN r = Members
        /\ r.subject = StatementSubject(observed.subject, PRESENTED_V1, object, {})
    BY NewVscMembers
  <2> HIDE DEF object
  <2> QED
    BY <2>1 DEF StatementSubject
<1> HIDE DEF results, object
<1>3. /\ Citing(c, session) /\ DOMAIN c = Members
      /\ \E r \in results : c.subject = r.subject
  BY <1>1, <1>2, CitedMembers
<1>4. Stating(c, "new_presented_vsc", observed)
  BY <1>1, <1>2, <1>3 DEF Stating, object
<1> QED
  BY <1>3, <1>4, HoldInvariant

LEMMA ProfileInvariant ==
    ASSUME IInv, MakeProfileStatement
    PROVE  IInv'
<1>1. PICK window \in Windows, scope \in Scopes :
        \/ \E object \in {o \in Objects : Kind(o) = "value"} :
              \/ \E c \in NewEndorsesVsc(scope, window, object) :
                    Hold(c, "new_endorses_vsc", None, None)
              \/ \E session \in Sessions :
                    \E c \in NewVettedVsc(scope, window, object, session) :
                        Hold(c, "new_vetted_vsc", session, None)
        \/ \E session \in Sessions, observed \in Credentials :
              \/ \E members \in {{}, {"witnessContext"}} :
                    \E c \in NewWitnessedVsc(scope, window, observed, session, members) :
                        Hold(c, "new_witnessed_vsc", session, observed)
              \/ \E c \in NewPresentedVsc(scope, window, observed, session) :
                    Hold(c, "new_presented_vsc", session, observed)
  BY DEF MakeProfileStatement
<1>2. ASSUME NEW object, NEW c \in NewEndorsesVsc(scope, window, object),
             Hold(c, "new_endorses_vsc", None, None)
      PROVE  IInv'
  <2>1. DOMAIN c = Members /\ c.task = None /\ c.taskDigest = None
    BY NewVscMembers DEF NewEndorsesVsc
  <2>2. Citing(c, None)
    BY <2>1 DEF Citing
  <2> QED
    BY <1>2, <2>1, <2>2, HoldInvariant
<1>3. ASSUME NEW object, NEW session \in Sessions,
             NEW c \in NewVettedVsc(scope, window, object, session),
             Hold(c, "new_vetted_vsc", session, None)
      PROVE  IInv'
  <2> DEFINE results == NewVsc(scope, window, Other, VETTED_V1, object)
  <2>1. c \in WithTaskCitation(results, session)
    BY DEF NewVettedVsc
  <2>2. \A r \in results : DOMAIN r = Members
    BY NewVscMembers
  <2> HIDE DEF results
  <2>3. Citing(c, session) /\ DOMAIN c = Members
    BY <2>1, <2>2, CitedMembers
  <2> QED
    BY <1>3, <2>3, HoldInvariant
<1> QED
  BY <1>1, <1>2, <1>3, WitnessedInvariant, PresentedInvariant

LEMMA ModelMembers ==
    ASSUME NEW document
    PROVE  /\ DOMAIN Model(document) = Members
           /\ Model(document).task = document.claims.task
           /\ Model(document).taskDigest = document.claims.taskDigest
           /\ Model(document).subject =
                 Normalized(SubtypeOf(document.claims.types), document.claims.subject)
<1>1. {"task", "taskDigest", "subject"} \subseteq Members
  BY DEF Members, Member
<1> QED
  BY <1>1 DEF Model, Members

LEMMA ReceiveInvariant ==
    ASSUME IInv, Receive
    PROVE  IInv'
BY HoldInvariant, ModelMembers DEF Receive

-----------------------------------------------------------------------------
(* Afterwards.                                                              *)

LEMMA SetCitationInvariant ==
    ASSUME IInv, SetTaskCitation
    PROVE  IInv'
<1>1. PICK document \in Sessions :
        /\ held' = Cited(held, document)
        /\ cited' = IF Passes(CitationChecks(document)) THEN document ELSE cited
  BY DEF SetTaskCitation
<1>2. by # None /\ UNCHANGED <<by, edited, about>>
  BY DEF SetTaskCitation, Call
<1>3. DOMAIN held = Members /\ {"task", "taskDigest", "subject"} \subseteq Members
  BY <1>2 DEF IInv, Members, Member
<1>4. CASE Passes(CitationChecks(document))
  <2>1. document.id # None /\ ~ document.deep
    BY <1>4, CitationPasses
  <2>2. /\ held' = [held EXCEPT !.task = document.id, !.taskDigest = TaskDigest(document)]
        /\ cited' = document
    BY <1>1, <1>4 DEF Cited
  <2>3. /\ DOMAIN held' = Members /\ held'.subject = held.subject
        /\ held'.task = document.id /\ held'.taskDigest = TaskDigest(document)
    BY <1>3, <2>2
  <2> QED
    BY <1>2, <2>1, <2>2, <2>3, CallInvariant
<1>5. CASE ~ Passes(CitationChecks(document))
  <2>1. held' = held /\ cited' = cited
    BY <1>1, <1>5 DEF Cited
  <2> QED
    BY <1>2, <1>3, <2>1, CallInvariant
<1> QED
  BY <1>4, <1>5

LEMMA EditInvariant ==
    ASSUME IInv, CredentialMut
    PROVE  IInv'
<1>1. by # None /\ held' \in Edits(held) /\ edited' = TRUE
  BY DEF CredentialMut, Call
<1>2. DOMAIN held = Members
  BY <1>1 DEF IInv
<1>3. DOMAIN held' = DOMAIN held
  BY <1>1 DEF Edits
<1> QED
  BY <1>1, <1>2, <1>3 DEF IInv

\* A statement is written, and read, as itself.
LEMMA SendInvariant ==
    ASSUME IInv, Send
    PROVE  IInv'
<1> DEFINE document == OnTheWire(held)
<1>1. /\ by # None /\ held' = Model(document)
      /\ UNCHANGED <<by, edited, cited, about>>
  BY DEF Send, Call
<1>2. DOMAIN held = Members
  BY <1>1 DEF IInv
<1>3. /\ document.claims.task = held.task
      /\ document.claims.taskDigest = held.taskDigest
      /\ document.claims.subject = SubjectOnTheWire(held.subject)
  BY DEF OnTheWire, Serialized, Claims, Member
<1>4. /\ DOMAIN held' = Members
      /\ held'.task = held.task /\ held'.taskDigest = held.taskDigest
      /\ held'.subject =
            Normalized(SubtypeOf(document.claims.types), SubjectOnTheWire(held.subject))
  BY <1>1, <1>3, ModelMembers
<1>5. held.subject.shape = "Statement" => held'.subject = held.subject
  BY <1>4 DEF SubjectOnTheWire, Normalized
<1> HIDE DEF document
<1>6. ASSUME (by # "received" /\ ~ edited)' PROVE Citing(held, cited)'
  <2>1. Citing(held, cited)
    BY <1>1, <1>6 DEF IInv
  <2> QED
    BY <1>1, <1>4, <2>1 DEF Citing
<1>7. ASSUME (about # None /\ ~ edited)' PROVE Stating(held, by, about)'
  <2>1. Stating(held, by, about)
    BY <1>1, <1>7 DEF IInv
  <2>2. held'.subject = held.subject
    BY <1>5, <2>1 DEF Stating
  <2> QED
    BY <1>1, <2>1, <2>2 DEF Stating
<1> QED
  BY <1>4, <1>6, <1>7 DEF IInv

LEMMA SettersInvariant ==
    ASSUME IInv, SetId \/ SetCredentialStatus \/ Sign
    PROVE  IInv'
<1>1. by # None /\ UNCHANGED <<by, edited, cited, about>>
  BY DEF SetId, SetCredentialStatus, Sign, Call
<1>2. DOMAIN held = Members /\ {"task", "taskDigest", "subject"} \subseteq Members
  BY <1>1 DEF IInv, Members, Member
<1>3. \/ held' = [held EXCEPT !.id = "urn"]
      \/ \E status : held' = [held EXCEPT !.status = status]
      \/ \E proof : held' = [held EXCEPT !.proof = proof]
  BY DEF SetId, SetCredentialStatus, Sign
<1>4. /\ DOMAIN held' = Members /\ held'.subject = held.subject
      /\ held'.task = held.task /\ held'.taskDigest = held.taskDigest
  BY <1>2, <1>3
<1> QED
  BY <1>1, <1>4, CallInvariant

LEMMA Invariant == Spec => []IInv
<1>1. Init => IInv
  BY DEF Init, IInv
<1>2. IInv /\ [Next]_vars => IInv'
  <2>1. IInv /\ UNCHANGED vars => IInv'
    BY DEF IInv, vars, Citing, Stating
  <2> QED
    BY <2>1, MakeEdgeInvariant, MakeVscInvariant, ProfileInvariant, ReceiveInvariant,
       SettersInvariant, SetCitationInvariant, EditInvariant, SendInvariant
       DEF Next, Done
<1> QED
  BY <1>1, <1>2, PTL DEF Spec

-----------------------------------------------------------------------------
(* The theorems.                                                            *)

(* Outside of credential_mut the id and the digest of a citation always     *)
(* come from one document, the last one set_task_citation took, and a       *)
(* citation that failed, or a signature or a parse since, left them so.     *)
THEOREM AlwaysCitesOneDocument == Spec => []CitesOneDocument
<1>1. IInv => CitesOneDocument
  <2> SUFFICES ASSUME IInv, by # None, by # "received", ~ edited
               PROVE  /\ held.task = None <=> held.taskDigest = None
                      /\ cited = None <=> held.task = None
                      /\ \A document \in Sessions :
                            CitesTask(held, document) <=>
                                cited # None /\ ~ document.deep /\ SameButProof(document, cited)
    BY DEF CitesOneDocument
  <2>1. Citing(held, cited)
    BY DEF IInv
  <2>2. CASE cited = None
    BY <2>1, <2>2 DEF Citing, CitesTask
  <2>3. CASE cited # None
    <3>1. /\ cited \in Sessions /\ cited \in TaskDocument /\ ~ cited.deep
          /\ cited.id # None /\ held.task = cited.id
          /\ held.taskDigest = TaskDigest(cited)
      BY <2>1, <2>3, InputsAssumption DEF Citing
    <3>2. TaskDigest(cited) \in TaskDocument
      BY <3>1 DEF TaskDigest, TaskDocument
    <3>3. held.taskDigest # None
      BY <3>1, <3>2, InputsAssumption
    <3>4. ASSUME NEW document \in Sessions
          PROVE  CitesTask(held, document) <=> ~ document.deep /\ SameButProof(document, cited)
      <4>1. document \in TaskDocument
        BY InputsAssumption
      <4>2. TaskDigest(document) = TaskDigest(cited) <=> SameButProof(document, cited)
        BY <3>1, <4>1, SameTaskDigest
      <4>3. TaskDigest(document) = TaskDigest(cited) =>
               document.id = cited.id /\ document.deep = cited.deep
        <5>1. /\ TaskDigest(document).id = document.id
              /\ TaskDigest(document).deep = document.deep
              /\ TaskDigest(cited).id = cited.id /\ TaskDigest(cited).deep = cited.deep
          BY <3>1, <4>1 DEF TaskDigest, TaskDocument
        <5> QED
          BY <5>1
      <4> QED
        BY <3>1, <3>3, <4>2, <4>3 DEF CitesTask
    <3> QED
      BY <2>3, <3>1, <3>3, <3>4
  <2> QED
    BY <2>2, <2>3
<1> QED
  BY Invariant, <1>1, PTL

LEMMA ObjectDigestNames ==
    ASSUME NEW c, NEW named, c.subject.object = ObjectDigest(named)
    PROVE  /\ Kind(c.subject.object) = "digestMultibase"
           /\ \A other : c.subject.object = ObjectDigest(other) <=> other = named
<1>1. DOMAIN c.subject.object = {"digestMultibase"}
  BY DEF ObjectDigest
<1>2. Kind(c.subject.object) = "digestMultibase"
  BY <1>1 DEF Kind, ObjectKind
<1>3. \A other : ObjectDigest(other) = ObjectDigest(named) <=> other = named
  <2>1. \A other : ObjectDigest(other).digestMultibase = other
    BY DEF ObjectDigest
  <2> QED
    BY <2>1
<1> QED
  BY <1>2, <1>3

(* A statement built here over a credential names that credential, under    *)
(* any proof of it, and no other, and in the one role its constructor gave  *)
(* its subject, through any setters, signatures and parses.                 *)
THEOREM StatementsAlwaysNameTheirReferent == Spec => []StatementsNameTheirReferent
<1>1. IInv => StatementsNameTheirReferent
  <2> SUFFICES ASSUME IInv, about # None, ~ edited, NEW document \in Credentials
               PROVE  LET same == ~ document.deep /\ SameButProof(document, about)
                      IN  /\ WitnessesIssuanceOf(held, document) <=>
                                same /\ by = "new_witnessed_vsc"
                          /\ WitnessesPresentationOf(held, document) <=>
                                same /\ by = "new_presented_vsc"
    BY DEF StatementsNameTheirReferent
  <2> DEFINE subject == held.subject
             same == ~ document.deep /\ SameButProof(document, about)
  <2>1. Stating(held, by, about)
    BY DEF IInv
  <2>2. /\ about \in Observed /\ document \in Observed /\ ~ about.deep
        /\ subject.object = ObjectDigest(ObservedDigest(about))
    BY <2>1, InputsAssumption DEF Stating
  <2>3. /\ Kind(subject.object) = "digestMultibase"
        /\ subject.object = ObjectDigest(ObservedDigest(document)) <=>
              ObservedDigest(document) = ObservedDigest(about)
    BY <2>2, ObjectDigestNames
  <2>4. ObservedDigest(document) = ObservedDigest(about) <=> SameButProof(document, about)
    BY <2>2, SameObservedDigest
  <2>5. SameButProof(document, about) =>
           document.issuer = about.issuer /\ document.subject = about.subject
    <3>1. /\ [document EXCEPT !.proof = about.proof].issuer = document.issuer
          /\ [document EXCEPT !.proof = about.proof].subject = document.subject
      BY <2>2 DEF Observed
    <3> QED
      BY <3>1 DEF SameButProof
  <2>6. WITNESSED_V1 # PRESENTED_V1
    <3>1. WITNESSED_V1.name = "witnessed/1" /\ PRESENTED_V1.name = "presented/1"
      BY DEF WITNESSED_V1, PRESENTED_V1, Core
    <3> QED
      BY <3>1
  <2>7. \/ /\ by = "new_witnessed_vsc" /\ subject.predicate = WITNESSED_V1
           /\ about.issuer # None /\ subject.id = about.issuer
        \/ /\ by = "new_presented_vsc" /\ subject.predicate = PRESENTED_V1
           /\ about.subject # None /\ subject.id = about.subject
    BY <2>1 DEF Stating
  <2>8. WitnessesIssuanceOf(held, document) <=> same /\ by = "new_witnessed_vsc"
    BY <2>2, <2>3, <2>4, <2>5, <2>6, <2>7 DEF WitnessesIssuanceOf, StatementNames
  <2>9. WitnessesPresentationOf(held, document) <=> same /\ by = "new_presented_vsc"
    BY <2>2, <2>3, <2>4, <2>5, <2>6, <2>7 DEF WitnessesPresentationOf, StatementNames
  <2> QED
    BY <2>8, <2>9
<1> QED
  BY Invariant, <1>1, PTL

-----------------------------------------------------------------------------
(* Checks put one after the other.                                          *)

IsChecks(checks) == \E S : checks \in Seq(S)

\* Checks in a row pass exactly when all of them do.
LEMMA PassesBoth ==
    ASSUME NEW a, NEW b, IsChecks(a), IsChecks(b)
    PROVE  /\ IsChecks(a \o b)
           /\ Passes(a \o b) <=> Passes(a) /\ Passes(b)
<1>1. PICK S : a \in Seq(S)
  BY DEF IsChecks
<1>2. PICK T : b \in Seq(T)
  BY DEF IsChecks
<1>3. a \in Seq(S \cup T) /\ b \in Seq(S \cup T)
  BY <1>1, <1>2
<1>4. /\ a \o b \in Seq(S \cup T)
      /\ Len(a) \in Nat /\ Len(b) \in Nat
      /\ DOMAIN a = 1 .. Len(a) /\ DOMAIN b = 1 .. Len(b)
      /\ DOMAIN (a \o b) = 1 .. Len(a) + Len(b)
      /\ \A i \in 1 .. Len(a) + Len(b) :
            (a \o b)[i] = IF i <= Len(a) THEN a[i] ELSE b[i - Len(a)]
  BY <1>3
<1>5. ASSUME Passes(a \o b) PROVE Passes(a) /\ Passes(b)
  <2>1. ASSUME NEW k \in DOMAIN a PROVE ~ a[k].when
    <3>1. k \in DOMAIN (a \o b) /\ (a \o b)[k] = a[k]
      BY <1>4
    <3> QED
      BY <3>1, <1>5 DEF Passes
  <2>2. ASSUME NEW k \in DOMAIN b PROVE ~ b[k].when
    <3>1. k + Len(a) \in DOMAIN (a \o b) /\ (a \o b)[k + Len(a)] = b[k]
      BY <1>4
    <3> QED
      BY <3>1, <1>5 DEF Passes
  <2> QED
    BY <2>1, <2>2 DEF Passes
<1>6. ASSUME Passes(a), Passes(b) PROVE Passes(a \o b)
  <2> SUFFICES ASSUME NEW k \in DOMAIN (a \o b) PROVE ~ (a \o b)[k].when
    BY DEF Passes
  <2>1. CASE k <= Len(a)
    <3>1. k \in DOMAIN a /\ (a \o b)[k] = a[k]
      BY <1>4, <2>1
    <3> QED
      BY <3>1, <1>6 DEF Passes
  <2>2. CASE ~ k <= Len(a)
    <3>1. k - Len(a) \in DOMAIN b /\ (a \o b)[k] = b[k - Len(a)]
      BY <1>4, <2>2
    <3> QED
      BY <3>1, <1>6 DEF Passes
  <2> QED
    BY <2>1, <2>2
<1> QED
  BY <1>4, <1>5, <1>6 DEF IsChecks

\* No checks.
LEMMA NoChecks == IsChecks(<< >>) /\ Passes(<< >>)
  BY DEF IsChecks, Passes

LEMMA OneCheck ==
    ASSUME NEW f, NEW p
    PROVE  IsChecks(<<Check(f, p)>>)
<1>1. <<Check(f, p)>> \in Seq({Check(f, p)})
  OBVIOUS
<1> QED
  BY <1>1 DEF IsChecks

LEMMA TwoChecks ==
    ASSUME NEW f1, NEW f2, NEW p1, NEW p2
    PROVE  IsChecks(<<Check(f1, p1), Check(f2, p2)>>)
<1>1. <<Check(f1, p1), Check(f2, p2)>> \in Seq({Check(f1, p1), Check(f2, p2)})
  OBVIOUS
<1> QED
  BY <1>1 DEF IsChecks

LEMMA ThreeChecks ==
    ASSUME NEW f1, NEW f2, NEW f3, NEW p1, NEW p2, NEW p3
    PROVE  /\ IsChecks(<<Check(f1, p1), Check(f2, p2), Check(f3, p3)>>)
           /\ Passes(<<Check(f1, p1), Check(f2, p2), Check(f3, p3)>>)
                 <=> ~ p1 /\ ~ p2 /\ ~ p3
<1> DEFINE checks == <<Check(f1, p1), Check(f2, p2), Check(f3, p3)>>
<1>1. checks \in Seq({Check(f1, p1), Check(f2, p2), Check(f3, p3)})
  OBVIOUS
<1>2. Passes(checks) <=> ~ p1 /\ ~ p2 /\ ~ p3
  BY DEF Passes, Check
<1> QED
  BY <1>1, <1>2 DEF IsChecks

LEMMA FourChecks ==
    ASSUME NEW f1, NEW f2, NEW f3, NEW f4, NEW p1, NEW p2, NEW p3, NEW p4
    PROVE  /\ IsChecks(<<Check(f1, p1), Check(f2, p2), Check(f3, p3), Check(f4, p4)>>)
           /\ Passes(<<Check(f1, p1), Check(f2, p2), Check(f3, p3), Check(f4, p4)>>)
                 <=> ~ p1 /\ ~ p2 /\ ~ p3 /\ ~ p4
<1> DEFINE checks == <<Check(f1, p1), Check(f2, p2), Check(f3, p3), Check(f4, p4)>>
<1>1. checks \in Seq({Check(f1, p1), Check(f2, p2), Check(f3, p3), Check(f4, p4)})
  OBVIOUS
<1>2. Passes(checks) <=> ~ p1 /\ ~ p2 /\ ~ p3 /\ ~ p4
  BY DEF Passes, Check
<1> QED
  BY <1>1, <1>2 DEF IsChecks

LEMMA SixChecks ==
    ASSUME NEW f1, NEW f2, NEW f3, NEW f4, NEW f5, NEW f6,
           NEW p1, NEW p2, NEW p3, NEW p4, NEW p5, NEW p6
    PROVE  /\ IsChecks(<<Check(f1, p1), Check(f2, p2), Check(f3, p3), Check(f4, p4),
                       Check(f5, p5), Check(f6, p6)>>)
           /\ Passes(<<Check(f1, p1), Check(f2, p2), Check(f3, p3), Check(f4, p4),
                     Check(f5, p5), Check(f6, p6)>>)
                 <=> ~ p1 /\ ~ p2 /\ ~ p3 /\ ~ p4 /\ ~ p5 /\ ~ p6
<1> DEFINE checks == <<Check(f1, p1), Check(f2, p2), Check(f3, p3), Check(f4, p4),
                     Check(f5, p5), Check(f6, p6)>>
<1>1. checks \in Seq({Check(f1, p1), Check(f2, p2), Check(f3, p3), Check(f4, p4),
                    Check(f5, p5), Check(f6, p6)})
  OBVIOUS
<1>2. Passes(checks) <=> ~ p1 /\ ~ p2 /\ ~ p3 /\ ~ p4 /\ ~ p5 /\ ~ p6
  BY DEF Passes, Check
<1> QED
  BY <1>1, <1>2 DEF IsChecks

-----------------------------------------------------------------------------
(* What the checks of one credential amount to.                             *)

LEMMA ConstraintsRead ==
    ASSUME NEW profile, NEW c
    PROVE  /\ IsChecks(ConstraintChecks(profile, c))
           /\ Passes(ConstraintChecks(profile, c)) <=>
                 /\ Kind(c.subject.object) \in profile.kinds
                 /\ ~ TooNarrow(c.scope, profile.minimum)
                 /\ ~ (profile.cited /\ c.task = None)
                 /\ ~ (profile.cited /\ c.taskDigest = None)
<1> DEFINE wrong == Kind(c.subject.object) \notin profile.kinds
           narrow == TooNarrow(c.scope, profile.minimum)
           noTask == profile.cited /\ c.task = None
           noDigest == profile.cited /\ c.taskDigest = None
           checks == << Check("ProfileViolation", wrong), Check("IssuerScopeTooNarrow", narrow),
                        Check("MissingTaskContext", noTask), Check("MissingTaskDigest", noDigest) >>
<1>1. ConstraintChecks(profile, c) = checks
  BY DEF ConstraintChecks
<1> HIDE DEF wrong, narrow, noTask, noDigest
<1>2. /\ IsChecks(checks)
      /\ Passes(checks) <=> ~ wrong /\ ~ narrow /\ ~ noTask /\ ~ noDigest
  BY FourChecks, Zenon
<1> HIDE DEF checks
<1> QED
  BY <1>1, <1>2 DEF wrong, narrow, noTask, noDigest

LEMMA StatementRead ==
    ASSUME NEW c
    PROVE  /\ IsChecks(StatementChecks(c))
           /\ Passes(StatementChecks(c)) <=>
                 /\ WellFormed(c.subject.predicate)
                 /\ c.subject.object # ObjectId("bare")
                 /\ c.subject.predicate \in DOMAIN CoreProfiles =>
                       Passes(ConstraintChecks(CoreProfiles[c.subject.predicate], c))
<1> DEFINE profile == CoreProfiles[c.subject.predicate]
           first == << Check("InvalidPredicate", ~ WellFormed(c.subject.predicate)),
                       Check("ProfileViolation", c.subject.object = ObjectId("bare")) >>
<1>1. /\ IsChecks(CoreChecks(c))
      /\ Passes(CoreChecks(c)) <=>
            (c.subject.predicate \in DOMAIN CoreProfiles =>
                Passes(ConstraintChecks(profile, c)))
  <2> HIDE DEF profile
  <2>1. CASE c.subject.predicate \in DOMAIN CoreProfiles
    BY <2>1, ConstraintsRead DEF CoreChecks, profile
  <2>2. CASE c.subject.predicate \notin DOMAIN CoreProfiles
    BY <2>2, NoChecks DEF CoreChecks
  <2> QED
    BY <2>1, <2>2
<1>2. /\ IsChecks(first)
      /\ Passes(first) <=>
            WellFormed(c.subject.predicate) /\ c.subject.object # ObjectId("bare")
  BY TwoChecks, Passes2
<1>3. StatementChecks(c) = first \o CoreChecks(c)
  BY DEF StatementChecks
<1> HIDE DEF first, profile
<1>4. /\ IsChecks(StatementChecks(c))
      /\ Passes(StatementChecks(c)) <=> Passes(first) /\ Passes(CoreChecks(c))
  BY <1>1, <1>2, <1>3, PassesBoth
<1> QED
  BY <1>1, <1>2, <1>4 DEF profile

LEMMA SubjectIsChecks ==
    ASSUME NEW c
    PROVE  IsChecks(SubjectChecks(c))
BY OneCheck, NoChecks, StatementRead DEF SubjectChecks

LEMMA ConformanceRead ==
    ASSUME NEW c
    PROVE  /\ IsChecks(ConformanceChecks(c))
           /\ Passes(ConformanceChecks(c)) <=>
                 /\ Passes(ContextChecks(c.context))
                 /\ Passes(TypeChecks(c.types))
                 /\ ArrayNames(c)
                 /\ c.subject.shape = ShapeFor(c.type)
                 /\ Passes(SubjectChecks(c))
<1> DEFINE arrays == ContextChecks(c.context) \o TypeChecks(c.types)
           names  == << Check("InvalidType", ~ ArrayNames(c)),
                        Check("UnknownCredential", c.subject.shape # ShapeFor(c.type)) >>
           subject == IF c.subject.shape = ShapeFor(c.type) THEN SubjectChecks(c) ELSE << >>
<1>1. IsChecks(ContextChecks(c.context)) /\ IsChecks(TypeChecks(c.types))
  <2>1. IsChecks(ContextChecks(c.context))
    BY TwoChecks DEF ContextChecks
  <2>2. IsChecks(TypeChecks(c.types))
    BY SixChecks DEF TypeChecks
  <2> QED
    BY <2>1, <2>2
<1>2. /\ IsChecks(arrays)
      /\ Passes(arrays) <=> Passes(ContextChecks(c.context)) /\ Passes(TypeChecks(c.types))
  BY <1>1, PassesBoth
<1>3. /\ IsChecks(names)
      /\ Passes(names) <=> ArrayNames(c) /\ c.subject.shape = ShapeFor(c.type)
  BY TwoChecks, Passes2
<1>4. IsChecks(subject)
  BY SubjectIsChecks, NoChecks
<1>5. ConformanceChecks(c) = IF ~ Passes(arrays) THEN arrays ELSE names \o subject
  BY DEF ConformanceChecks
<1>6. c.subject.shape = ShapeFor(c.type) => subject = SubjectChecks(c)
  OBVIOUS
<1> HIDE DEF arrays, names, subject
<1>7. /\ IsChecks(names \o subject)
      /\ Passes(names \o subject) <=> Passes(names) /\ Passes(subject)
  BY <1>3, <1>4, PassesBoth
<1> QED
  BY <1>2, <1>3, <1>5, <1>6, <1>7

LEMMA ValidityRead ==
    ASSUME NEW c
    PROVE  /\ IsChecks(ValidityChecks(c))
           /\ Passes(ValidityChecks(c)) <=> Valid(c)
           /\ Valid(c) <=> /\ ~ EmptyWindow(c.from, c.until)
                           /\ ~ TooDeep(c)
                           /\ Passes(ConformanceChecks(c))
<1> DEFINE first == << Check("InvalidValidityWindow", EmptyWindow(c.from, c.until)),
                       Check("JsonTooDeep", TooDeep(c)) >>
<1>1. /\ IsChecks(first)
      /\ Passes(first) <=> ~ EmptyWindow(c.from, c.until) /\ ~ TooDeep(c)
  BY TwoChecks, Passes2
<1>2. ValidityChecks(c) = first \o ConformanceChecks(c)
  BY DEF ValidityChecks
<1> HIDE DEF first
<1> QED
  BY <1>1, <1>2, ConformanceRead, PassesBoth DEF Valid

LEMMA AcceptRead ==
    ASSUME NEW list, NEW c
    PROVE  Accepts(list, c) <=>
              /\ c.type = "Statement" /\ c.subject.shape = "Statement"
              /\ Valid(c)
              /\ c.subject.predicate \in DOMAIN list
              /\ \/ list[c.subject.predicate] = None
                 \/ Passes(EntryChecks(list[c.subject.predicate], c))
<1> DEFINE predicate == c.subject.predicate
           kind  == << Check("WrongCredentialType",
                             c.type # "Statement" \/ c.subject.shape # "Statement") >>
           taken == << Check("PredicateNotAccepted", predicate \notin DOMAIN list) >>
           entry == IF predicate \notin DOMAIN list \/ list[predicate] = None
                    THEN << >> ELSE EntryChecks(list[predicate], c)
<1>1. /\ IsChecks(kind)
      /\ Passes(kind) <=> c.type = "Statement" /\ c.subject.shape = "Statement"
  BY OneCheck, Passes1
<1>2. /\ IsChecks(taken)
      /\ Passes(taken) <=> predicate \in DOMAIN list
  BY OneCheck, Passes1
<1>3. IsChecks(EntryChecks(list[predicate], c))
  BY ConstraintsRead, OneCheck, PassesBoth DEF EntryChecks
<1>4. /\ IsChecks(entry)
      /\ predicate \in DOMAIN list =>
            (Passes(entry) <=> \/ list[predicate] = None
                               \/ Passes(EntryChecks(list[predicate], c)))
  BY <1>3, NoChecks
<1>5. AcceptChecks(list, c) =
         kind \o IF c.subject.shape # "Statement" THEN << >>
                 ELSE ValidityChecks(c) \o taken \o entry
  BY DEF AcceptChecks
<1> HIDE DEF kind, taken, entry
<1>6. CASE c.subject.shape # "Statement"
  BY <1>1, <1>5, <1>6, NoChecks, PassesBoth DEF Accepts
<1>7. CASE c.subject.shape = "Statement"
  <2>1. /\ IsChecks(ValidityChecks(c) \o taken)
        /\ Passes(ValidityChecks(c) \o taken) <=> Valid(c) /\ Passes(taken)
    BY <1>2, ValidityRead, PassesBoth
  <2>2. /\ IsChecks(ValidityChecks(c) \o taken \o entry)
        /\ Passes(ValidityChecks(c) \o taken \o entry)
              <=> Valid(c) /\ Passes(taken) /\ Passes(entry)
    BY <2>1, <1>4, PassesBoth
  <2>3. Accepts(list, c) <=> Passes(kind) /\ Valid(c) /\ Passes(taken) /\ Passes(entry)
    BY <1>1, <1>5, <1>7, <2>2, PassesBoth DEF Accepts
  <2> QED
    BY <2>3, <1>1, <1>2, <1>4
<1> QED
  BY <1>6, <1>7

-----------------------------------------------------------------------------
(* Subtypes, profiles and objects.                                          *)

LEMMA SubjectChecksRead ==
    ASSUME NEW c
    PROVE  /\ c.type = "Statement" => SubjectChecks(c) = StatementChecks(c)
           /\ c.type = "Membership" =>
                SubjectChecks(c) = << Check("IssuerScopeTooNarrow",
                                            c.subject.digest = None /\ c.scope # Public) >>
           /\ c.type = "Authority" =>
                SubjectChecks(c) = << Check("EmptyAuthorityActions", ~ c.subject.wellShaped) >>
           /\ c.type = "Delegation" =>
                SubjectChecks(c) = << Check("MalformedDelegation", ~ c.subject.wellShaped) >>
           /\ c.type \notin {"Statement", "Membership", "Authority", "Delegation"} =>
                SubjectChecks(c) = << >>
<1>1. c.type = "Statement" => SubjectChecks(c) = StatementChecks(c)
  BY Zenon DEF SubjectChecks
<1>2. c.type = "Membership" =>
        SubjectChecks(c) = << Check("IssuerScopeTooNarrow",
                                    c.subject.digest = None /\ c.scope # Public) >>
  BY Zenon DEF SubjectChecks
<1>3. c.type = "Authority" =>
        SubjectChecks(c) = << Check("EmptyAuthorityActions", ~ c.subject.wellShaped) >>
  BY Zenon DEF SubjectChecks
<1>4. c.type = "Delegation" =>
        SubjectChecks(c) = << Check("MalformedDelegation", ~ c.subject.wellShaped) >>
  BY Zenon DEF SubjectChecks
<1>5. c.type \notin {"Statement", "Membership", "Authority", "Delegation"} =>
        SubjectChecks(c) = << >>
  BY Zenon DEF SubjectChecks
<1> QED
  BY <1>1, <1>2, <1>3, <1>4, <1>5

\* Only a membership has the shape of one, and only a statement that of one.
LEMMA ShapesRead ==
    /\ ShapeFor("Statement") = "Statement"
    /\ \A type : ShapeFor(type) = "Membership" <=> type = "Membership"
<1>1. \A type : type \in {"Relationship", "Invitation", "Persona"} => ShapeFor(type) = "Basic"
  BY Zenon DEF ShapeFor
<1>2. \A type : type \notin {"Relationship", "Invitation", "Persona"} => ShapeFor(type) = type
  BY Zenon DEF ShapeFor
<1>3. /\ "Statement" \notin {"Relationship", "Invitation", "Persona"}
      /\ "Membership" \notin {"Relationship", "Invitation", "Persona"}
      /\ "Basic" # "Membership"
  OBVIOUS
<1> QED
  BY <1>1, <1>2, <1>3

\* A type array that passes names one of the subtypes.
LEMMA SubtypeNamed ==
    ASSUME NEW types, Passes(TypeChecks(types))
    PROVE  SubtypeOf(types) \in Subtypes
<1> DEFINE checks == TypeChecks(types)
<1>1. checks[5].when <=> TypeNames(types) \cap Subtypes = {}
  BY DEF TypeChecks, Check
<1>2. 5 \in DOMAIN checks
  BY DEF TypeChecks
<1>3. TypeNames(types) \cap Subtypes # {}
  BY <1>1, <1>2 DEF Passes
<1> QED
  BY <1>3 DEF SubtypeOf

LEMMA ProfilesRead ==
    /\ DOMAIN CoreProfiles = {ENDORSES_V1, WITNESSED_V1, VETTED_V1, PRESENTED_V1}
    /\ CoreProfiles[ENDORSES_V1] = [kinds |-> {"value"}, cited |-> FALSE, minimum |-> None]
    /\ CoreProfiles[VETTED_V1] = [kinds |-> {"value"}, cited |-> TRUE, minimum |-> Directed]
    /\ \A predicate \in {WITNESSED_V1, PRESENTED_V1} :
          CoreProfiles[predicate] =
             [kinds |-> {"digestMultibase"}, cited |-> TRUE, minimum |-> Directed]
    /\ \A predicate \in DOMAIN CoreProfiles : WellFormed(predicate)
<1>1. /\ ENDORSES_V1.name = "endorses/1" /\ WITNESSED_V1.name = "witnessed/1"
      /\ VETTED_V1.name = "vetted/1" /\ PRESENTED_V1.name = "presented/1"
  BY DEF ENDORSES_V1, WITNESSED_V1, VETTED_V1, PRESENTED_V1, Core
<1>2. /\ ENDORSES_V1 # WITNESSED_V1 /\ ENDORSES_V1 # VETTED_V1 /\ ENDORSES_V1 # PRESENTED_V1
      /\ WITNESSED_V1 # VETTED_V1 /\ PRESENTED_V1 # VETTED_V1
  BY <1>1
<1>3. \A predicate \in DOMAIN CoreProfiles : WellFormed(predicate)
  BY DEF CoreProfiles, WellFormed, AbsoluteForms, ENDORSES_V1, WITNESSED_V1, VETTED_V1,
         PRESENTED_V1, Core
<1> QED
  BY <1>2, <1>3 DEF CoreProfiles

\* What an object of each kind is not.
LEMMA KindsRead ==
    ASSUME NEW object
    PROVE  Kind(object) # "id" => object # ObjectId("bare")
<1>1. DOMAIN ObjectId("bare") = {"id"}
  BY DEF ObjectId
<1>2. Kind(ObjectId("bare")) = "id"
  BY <1>1 DEF Kind, ObjectKind
<1> QED
  BY <1>2

\* A citation only makes a credential conform.
LEMMA ConformanceCarries ==
    ASSUME NEW c, NEW d, Passes(ConformanceChecks(c)),
           d.context = c.context, d.types = c.types, d.type = c.type,
           d.subject = c.subject, d.scope = c.scope,
           c.task # None => d.task # None,
           c.taskDigest # None => d.taskDigest # None
    PROVE  Passes(ConformanceChecks(d))
<1>1. ArrayNames(d) <=> ArrayNames(c)
  BY DEF ArrayNames
<1>2. Passes(SubjectChecks(c))
  BY ConformanceRead
<1>3. Passes(SubjectChecks(d))
  <2>1. CASE c.type = "Statement"
    <3>1. Passes(StatementChecks(c))
      BY <1>2, <2>1, SubjectChecksRead
    <3>2. Passes(StatementChecks(d))
      BY <3>1, StatementRead, ConstraintsRead
    <3> QED
      BY <2>1, <3>2, SubjectChecksRead
  <2>2. CASE c.type # "Statement"
    <3>1. SubjectChecks(d) = SubjectChecks(c)
      BY <2>2, SubjectChecksRead
    <3> QED
      BY <1>2, <3>1
  <2> QED
    BY <2>1, <2>2
<1> QED
  BY <1>1, <1>3, ConformanceRead

-----------------------------------------------------------------------------
(* The wire.                                                                *)

LEMMA SerializedRead ==
    ASSUME NEW c
    PROVE  /\ DOMAIN Serialized(c) = Member
           /\ \A m \in Member \ {"from", "until", "subject"} : Serialized(c)[m] = c[m]
           /\ Serialized(c).from = WholeSecond(c.from)
           /\ Serialized(c).until = WholeSecondOption(c.until)
           /\ Serialized(c).subject = SubjectOnTheWire(c.subject)
           /\ Serialized(c) = [m \in Member |-> Serialized(c)[m]]
<1>1. DOMAIN Claims(c) = Member /\ \A m \in Member : Claims(c)[m] = c[m]
  BY DEF Claims
<1>2. {"from", "until", "subject"} \subseteq Member
  BY DEF Member
<1> QED
  BY <1>1, <1>2 DEF Serialized

LEMMA ModelRead ==
    ASSUME NEW document
    PROVE  LET c == Model(document)
               claims == document.claims
           IN  /\ DOMAIN c = Members
               /\ c.type = SubtypeOf(claims.types)
               /\ c.proof = document.proof
               /\ c.subject = Normalized(c.type, claims.subject)
               /\ c.status = IF claims.status = "null" THEN None ELSE claims.status
               /\ \A m \in Member \ {"subject", "status"} : c[m] = claims[m]
<1> DEFINE claims == document.claims
           type == SubtypeOf(claims.types)
           c == Model(document)
           value(m) == CASE m = "type"    -> type
                         [] m = "proof"   -> document.proof
                         [] m = "subject" -> Normalized(type, claims.subject)
                         [] m = "status"  -> IF claims.status = "null" THEN None ELSE claims.status
                         [] OTHER         -> claims[m]
<1>1. c = [m \in Members |-> value(m)]
  BY Zenon DEF Model, Members
<1>2. /\ value("type") = type
      /\ value("proof") = document.proof
      /\ value("subject") = Normalized(type, claims.subject)
      /\ value("status") = IF claims.status = "null" THEN None ELSE claims.status
  OBVIOUS
<1>3. \A m : m \notin {"type", "proof", "subject", "status"} => value(m) = claims[m]
  BY Zenon
<1> HIDE DEF value, c
<1>4. {"type", "proof", "subject", "status"} \subseteq Members /\ Member \subseteq Members
      /\ "type" \notin Member /\ "proof" \notin Member
  BY DEF Members, Member
<1>5. /\ DOMAIN c = Members /\ c.type = type /\ c.proof = document.proof
      /\ c.subject = Normalized(type, claims.subject)
      /\ c.status = IF claims.status = "null" THEN None ELSE claims.status
  BY <1>1, <1>2, <1>4
<1>6. \A m \in Member \ {"subject", "status"} : c[m] = claims[m]
  BY <1>1, <1>3, <1>4
<1> QED
  BY <1>5, <1>6 DEF c

\* A subject has a shape, and a membership no member but its two.
SubjectForm(subject) ==
    /\ "shape" \in DOMAIN subject
    /\ subject.shape = "Membership" =>
          subject = MembershipSubject(subject.id, subject.digest)

\* The members of a credential that have a type of their own.
Formed(c) ==
    /\ DOMAIN c = Members
    /\ c.scope \in Scopes /\ c.type \in Subtypes
    /\ c.status \in StatusMembers \cup {None}
    /\ c.from \in Nat /\ c.until \in Nat \cup {None}
    /\ SubjectForm(c.subject)

\* A proof that is neither absent nor another implementation's covers whole seconds.
ProofForm(proof) ==
    proof \notin {None} \cup {document.proof : document \in Foreign} =>
        /\ proof.covers.from = WholeSecond(proof.covers.from)
        /\ proof.covers.until = WholeSecondOption(proof.covers.until)

Typed ==
    /\ by \in Makers \cup {None}
    /\ by = None => held = None /\ ~ edited /\ cited = None /\ about = None
    /\ calls \in 0 .. MaxCalls
    /\ cited \in {None} \cup Sessions /\ about \in {None} \cup Credentials
    /\ by # None => Formed(held) /\ ProofForm(held.proof)

LEMMA TypedIsTypeOK == Typed => TypeOK
BY DEF Typed, TypeOK, Formed, ProofForm, Members

\* What a credential that is well formed is written as, and what it reads as.
LEMMA ArrivalRead ==
    ASSUME NEW c, Formed(c)
    PROVE  LET document == OnTheWire(c)
               arrived == Model(document)
           IN  /\ Deserializes(document)
               /\ document.claims.context = c.context /\ document.claims.types = c.types
               /\ DOMAIN arrived = Members
               /\ arrived.type = SubtypeOf(c.types) /\ arrived.proof = c.proof
               /\ \A m \in {"context", "types", "id", "issuer", "scope", "task", "taskDigest"} :
                     arrived[m] = c[m]
               /\ arrived.from = WholeSecond(c.from)
               /\ arrived.until = WholeSecondOption(c.until)
               /\ arrived.status = IF c.status = "null" THEN None ELSE c.status
               /\ arrived.subject = Normalized(arrived.type, SubjectOnTheWire(c.subject))
<1> DEFINE document == OnTheWire(c)
           claims == document.claims
           arrived == Model(document)
<1>1. claims = Serialized(c) /\ document.proof = c.proof
  BY DEF OnTheWire
<1>2. /\ \A m \in {"context", "types", "id", "issuer", "scope", "task", "taskDigest"} :
            /\ m \in Member \ {"from", "until", "subject"}
            /\ m \in Member \ {"subject", "status"}
      /\ "status" \in Member \ {"from", "until", "subject"}
      /\ {"from", "until"} \subseteq Member \ {"subject", "status"}
  BY DEF Member
<1>3. /\ \A m \in {"context", "types", "id", "issuer", "scope", "task", "taskDigest"} :
            claims[m] = c[m]
      /\ claims.status = c.status
      /\ claims.from = WholeSecond(c.from) /\ claims.until = WholeSecondOption(c.until)
      /\ claims.subject = SubjectOnTheWire(c.subject)
  BY <1>1, <1>2, SerializedRead
<1>4. /\ DOMAIN arrived = Members
      /\ arrived.type = SubtypeOf(claims.types) /\ arrived.proof = c.proof
      /\ arrived.subject = Normalized(arrived.type, claims.subject)
      /\ arrived.status = IF claims.status = "null" THEN None ELSE claims.status
      /\ \A m \in Member \ {"subject", "status"} : arrived[m] = claims[m]
  BY <1>1, ModelRead
<1>5. /\ \A m \in {"context", "types", "id", "issuer", "scope", "task", "taskDigest"} :
            arrived[m] = c[m]
      /\ arrived.from = WholeSecond(c.from) /\ arrived.until = WholeSecondOption(c.until)
  BY <1>2, <1>3, <1>4
<1>6. Deserializes(document)
  <2>1. claims.from \in Nat /\ claims.until \in Nat \cup {None}
    BY <1>3, CutTwice DEF Formed
  <2>2. claims.scope \in IssuerScope
    BY <1>3 DEF Formed, Scopes
  <2>3. claims.status \in StatusMembers \cup {None}
    BY <1>3 DEF Formed
  <2>4. /\ "shape" \in DOMAIN claims.subject
        /\ claims.subject.shape = "Membership" =>
              claims.subject = MembershipSubject(claims.subject.id, claims.subject.digest)
    BY <1>3 DEF Formed, SubjectForm, SubjectOnTheWire, BasicSubject
  <2> HIDE DEF document
  <2> QED
    BY <2>1, <2>2, <2>3, <2>4 DEF Deserializes
<1>7. /\ arrived.type = SubtypeOf(c.types)
      /\ arrived.subject = Normalized(arrived.type, SubjectOnTheWire(c.subject))
      /\ arrived.status = IF c.status = "null" THEN None ELSE c.status
      /\ claims.context = c.context /\ claims.types = c.types
  BY <1>3, <1>4
<1> HIDE DEF document, arrived
<1> QED
  BY <1>4, <1>5, <1>6, <1>7 DEF document, arrived

\* A subject that fits its credential's type is read as it was.
LEMMA SubjectTravels ==
    ASSUME NEW type, NEW subject, SubjectForm(subject), subject.shape = ShapeFor(type)
    PROVE  LET read == Normalized(type, SubjectOnTheWire(subject))
           IN  /\ read = subject
               /\ SubjectOnTheWire(read) = SubjectOnTheWire(subject)
<1>1. subject.shape = "Membership" <=> type = "Membership"
  BY ShapesRead
<1>2. CASE subject.shape = "Membership" /\ subject.digest = None
  <2>1. SubjectOnTheWire(subject) = BasicSubject(subject.id)
    BY <1>2 DEF SubjectOnTheWire
  <2>2. Normalized(type, BasicSubject(subject.id)) = MembershipSubject(subject.id, None)
    BY <1>1, <1>2 DEF Normalized, BasicSubject
  <2> QED
    BY <1>2, <2>1, <2>2 DEF SubjectForm
<1>3. CASE ~ (subject.shape = "Membership" /\ subject.digest = None)
  <2>1. SubjectOnTheWire(subject) = subject
    BY <1>3 DEF SubjectOnTheWire
  <2>2. Normalized(type, subject) = subject
    BY <1>1 DEF Normalized
  <2> QED
    BY <2>1, <2>2
<1> QED
  BY <1>2, <1>3

(* A credential that conforms arrives: it parses, conforms there too, and   *)
(* says of its type, subject, arrays and citation what it said here.        *)
LEMMA ConformingArrives ==
    ASSUME NEW c, Formed(c), Passes(ConformanceChecks(c))
    PROVE  LET arrived == Model(OnTheWire(c))
           IN  /\ Parses(OnTheWire(c))
               /\ Passes(ConformanceChecks(arrived))
               /\ arrived.type = c.type /\ arrived.subject = c.subject
<1> DEFINE document == OnTheWire(c)
           arrived == Model(document)
<1>1. /\ Passes(ContextChecks(c.context)) /\ Passes(TypeChecks(c.types))
      /\ ArrayNames(c) /\ c.subject.shape = ShapeFor(c.type)
  BY ConformanceRead
<1>2. /\ document.claims.context = c.context /\ document.claims.types = c.types
      /\ arrived.type = SubtypeOf(c.types)
      /\ \A m \in {"context", "types", "id", "issuer", "scope", "task", "taskDigest"} :
            arrived[m] = c[m]
      /\ arrived.subject = Normalized(arrived.type, SubjectOnTheWire(c.subject))
  BY ArrivalRead
<1>3. arrived.type = c.type
  BY <1>1, <1>2 DEF ArrayNames
<1>4. arrived.subject = c.subject
  BY <1>1, <1>2, <1>3, SubjectTravels DEF Formed
<1>5. /\ arrived.context = c.context /\ arrived.types = c.types /\ arrived.scope = c.scope
      /\ arrived.task = c.task /\ arrived.taskDigest = c.taskDigest
  BY <1>2
<1> HIDE DEF document, arrived
<1>6. Passes(ConformanceChecks(arrived))
  BY <1>3, <1>4, <1>5, ConformanceCarries
<1>7. Parses(document)
  BY <1>1, <1>2, <1>6 DEF Parses, arrived
<1> QED
  BY <1>3, <1>4, <1>6, <1>7 DEF document, arrived

\* What arrives of a valid credential is valid, and but for a null status it
\* is written again as it was.
LEMMA ValidArrives ==
    ASSUME NEW c, Formed(c), Valid(c)
    PROVE  LET arrived == Model(OnTheWire(c))
           IN  /\ Parses(OnTheWire(c)) /\ Valid(arrived)
               /\ c.status # "null" => Serialized(arrived) = Serialized(c)
<1> DEFINE arrived == Model(OnTheWire(c))
<1>1. /\ ~ EmptyWindow(c.from, c.until) /\ ~ TooDeep(c) /\ Passes(ConformanceChecks(c))
  BY ValidityRead
<1>2. /\ Parses(OnTheWire(c)) /\ Passes(ConformanceChecks(arrived))
      /\ arrived.type = c.type /\ arrived.subject = c.subject
  BY <1>1, ConformingArrives
<1>3. /\ \A m \in {"context", "types", "id", "issuer", "scope", "task", "taskDigest"} :
            arrived[m] = c[m]
      /\ arrived.from = WholeSecond(c.from) /\ arrived.until = WholeSecondOption(c.until)
      /\ arrived.status = IF c.status = "null" THEN None ELSE c.status
  BY ArrivalRead
<1> HIDE DEF arrived
<1>4. ~ EmptyWindow(arrived.from, arrived.until)
  <2>1. c.from \in Nat /\ c.until \in Nat \cup {None}
    BY DEF Formed
  <2>2. ~ EmptyWindow(WholeSecond(c.from), WholeSecondOption(c.until))
    BY <1>1, <2>1, CutTwice
  <2> QED
    BY <1>3, <2>2
<1>5. ~ TooDeep(arrived)
  <2>1. arrived.status = "deep" => c.status = "deep"
    BY <1>3, InputsAssumption DEF StatusMembers
  <2> QED
    BY <1>1, <1>2, <2>1 DEF TooDeep
<1>6. Valid(arrived)
  BY <1>2, <1>4, <1>5, ValidityRead
<1>7. ASSUME c.status # "null" PROVE Serialized(arrived) = Serialized(c)
  <2>1. /\ Serialized(arrived).from = Serialized(c).from
        /\ Serialized(arrived).until = Serialized(c).until
        /\ Serialized(arrived).subject = Serialized(c).subject
    BY <1>2, <1>3, SerializedRead, CutTwice DEF Formed
  <2>2. ASSUME NEW m \in Member \ {"from", "until", "subject"}
        PROVE  Serialized(arrived)[m] = Serialized(c)[m]
    <3>1. arrived[m] = c[m]
      BY <1>3, <1>7 DEF Member
    <3> QED
      BY <3>1, SerializedRead
  <2>3. \A m \in Member : Serialized(arrived)[m] = Serialized(c)[m]
    BY <2>1, <2>2
  <2>4. /\ Serialized(arrived) = [m \in Member |-> Serialized(arrived)[m]]
        /\ Serialized(c) = [m \in Member |-> Serialized(c)[m]]
    BY SerializedRead
  <2> QED
    BY <2>3, <2>4
<1> QED
  BY <1>2, <1>6, <1>7 DEF arrived

-----------------------------------------------------------------------------
(* Constructors.                                                            *)

(* What new_vsc has made sure of, and no setter undoes.                     *)
Drafted(c) ==
    /\ c.context = <<"v2", "dtg/v1">> /\ c.types = <<"VC", "DTG", "Statement">>
    /\ ~ EmptyWindow(c.from, c.until)
    /\ c.type = "Statement" /\ c.subject.shape = "Statement"
    /\ c.subject.object # ObjectValue("deep")
    /\ WellFormed(c.subject.predicate)
    /\ c.subject.predicate \in DOMAIN CoreProfiles =>
          LET profile == CoreProfiles[c.subject.predicate]
          IN  Kind(c.subject.object) \in profile.kinds /\ ~ TooNarrow(c.scope, profile.minimum)

(* And what a profile constructor has: nothing but a status is left.        *)
Sound(c) ==
    /\ Drafted(c)
    /\ c.subject.object # ObjectId("bare")
    /\ c.subject.predicate \in DOMAIN CoreProfiles =>
          (CoreProfiles[c.subject.predicate].cited => c.task # None /\ c.taskDigest # None)

(* What a profile constructor makes before it cites.                        *)
Uncited(c) ==
    Formed(c) /\ c.proof = None /\ Drafted(c) /\ c.subject.object # ObjectId("bare")

\* What the two arrays are held to.
LEMMA ArraysRead ==
    ASSUME NEW context, NEW types,
           ~ (Len(context) < 1 \/ context[1] \notin {"v2", "v1.1"}),
           ~ (Len(context) < 2 \/ context[2] # "dtg/v1"),
           TypeNames(types) \ (Subtypes \cup {"VC", "DTG", "Personhood"}) = {},
           ~ Cardinality(TypeNames(types)) < Len(types),
           ~ Cardinality(TypeNames(types) \cap Subtypes) > 1,
           {"VC", "DTG"} \subseteq TypeNames(types),
           TypeNames(types) \cap Subtypes # {},
           "Personhood" \notin TypeNames(types)
    PROVE  Passes(ContextChecks(context)) /\ Passes(TypeChecks(types))
<1>1. Passes(ContextChecks(context))
  <2> DEFINE version == Len(context) < 1 \/ context[1] \notin {"v2", "v1.1"}
             dtg == Len(context) < 2 \/ context[2] # "dtg/v1"
             checks == << Check("UnknownVCVersion", version), Check("InvalidContext", dtg) >>
  <2>1. ContextChecks(context) = checks
    BY DEF ContextChecks
  <2>2. ~ version /\ ~ dtg
    OBVIOUS
  <2> HIDE DEF version, dtg
  <2>3. Passes(checks)
    BY <2>2, Passes2, Zenon
  <2> QED
    BY <2>1, <2>3
<1>2. Passes(TypeChecks(types))
  <2> DEFINE names == TypeNames(types)
             unknown == names \ (Subtypes \cup {"VC", "DTG", "Personhood"}) # {}
             repeated == Cardinality(names) < Len(types)
             several == Cardinality(names \cap Subtypes) > 1
             neither == ~ ({"VC", "DTG"} \subseteq names)
             none == names \cap Subtypes = {}
             person == "Personhood" \in names /\ "Membership" \notin names
             checks == << Check("InvalidType", unknown), Check("InvalidType", repeated),
                          Check("InvalidType", several), Check("InvalidType", neither),
                          Check("UnknownCredential", none), Check("InvalidType", person) >>
  <2>1. TypeChecks(types) = checks
    BY Zenon DEF TypeChecks
  <2>2. ~ unknown /\ ~ repeated /\ ~ several /\ ~ neither /\ ~ none /\ ~ person
    OBVIOUS
  <2> HIDE DEF unknown, repeated, several, neither, none, person
  <2>3. Passes(checks)
    BY <2>2 DEF Passes, Check
  <2> QED
    BY <2>1, <2>3
<1> QED
  BY <1>1, <1>2

\* The arrays every statement built here has.
LEMMA StatementArrays ==
    /\ Passes(ContextChecks(<<"v2", "dtg/v1">>))
    /\ Passes(TypeChecks(<<"VC", "DTG", "Statement">>))
    /\ SubtypeOf(<<"VC", "DTG", "Statement">>) = "Statement"
<1> DEFINE context == <<"v2", "dtg/v1">>
           types == <<"VC", "DTG", "Statement">>
           names == TypeNames(types)
<1>1. /\ ~ (Len(context) < 1 \/ context[1] \notin {"v2", "v1.1"})
      /\ ~ (Len(context) < 2 \/ context[2] # "dtg/v1")
  OBVIOUS
<1>2. names = {"VC", "DTG", "Statement"}
  BY DEF TypeNames
<1>3. names \cap Subtypes = {"Statement"}
  BY <1>2 DEF Subtypes
<1>4. SubtypeOf(types) = "Statement"
  BY <1>3 DEF SubtypeOf
<1>5. Cardinality({"Statement"}) = 1 /\ IsFiniteSet({"Statement"})
  BY FS_Singleton
<1>6. Cardinality({"DTG", "Statement"}) = 2 /\ IsFiniteSet({"DTG", "Statement"})
  <2>1. {"DTG", "Statement"} = {"Statement"} \cup {"DTG"} /\ "DTG" \notin {"Statement"}
    OBVIOUS
  <2> QED
    BY <1>5, <2>1, FS_AddElement
<1>7. Cardinality(names) = 3
  <2>1. names = {"DTG", "Statement"} \cup {"VC"} /\ "VC" \notin {"DTG", "Statement"}
    BY <1>2
  <2> QED
    BY <1>6, <2>1, FS_AddElement
<1>8. Passes(ContextChecks(context)) /\ Passes(TypeChecks(types))
  <2>1. names \ (Subtypes \cup {"VC", "DTG", "Personhood"}) = {}
    BY <1>2, <1>3
  <2>2. ~ (Cardinality(names) < Len(types)) /\ ~ (Cardinality(names \cap Subtypes) > 1)
    BY <1>3, <1>5, <1>7
  <2>3. {"VC", "DTG"} \subseteq names /\ "Personhood" \notin names /\ names \cap Subtypes # {}
    BY <1>2, <1>3
  <2> HIDE DEF context, types
  <2> QED
    BY <1>1, <2>1, <2>2, <2>3, ArraysRead DEF names
<1> QED
  BY <1>4, <1>8

LEMMA BuildFormed ==
    ASSUME NEW type \in Subtypes, NEW scope \in Scopes, NEW window \in Windows, NEW subject,
           SubjectForm(subject)
    PROVE  Formed(Build(type, scope, window, subject))
<1>1. window.from \in Nat /\ window.until \in Nat \cup {None}
  BY InputsAssumption
<1> QED
  BY <1>1 DEF Build, Members, Member, Formed

(* What new_vsc returns.                                                    *)
LEMMA VscFormed ==
    ASSUME NEW scope \in Scopes, NEW window \in Windows, NEW subject, NEW predicate, NEW object,
           NEW c \in NewVsc(scope, window, subject, predicate, object)
    PROVE  /\ Formed(c) /\ c.proof = None
           /\ c.type = "Statement" /\ c.types = <<"VC", "DTG", "Statement">>
           /\ c.context = <<"v2", "dtg/v1">> /\ c.scope = scope
<1> DEFINE built == StatementSubject(subject, predicate, object, {})
<1>1. c = Build("Statement", scope, window, built)
  BY DEF NewVsc
<1>2. SubjectForm(built) /\ "Statement" \in Subtypes
  BY DEF SubjectForm, StatementSubject, Subtypes
<1>3. /\ c.proof = None /\ c.type = "Statement" /\ c.types = <<"VC", "DTG", "Statement">>
      /\ c.context = <<"v2", "dtg/v1">> /\ c.scope = scope
  BY <1>1 DEF Build
<1> HIDE DEF built
<1>4. Formed(c)
  BY <1>1, <1>2, BuildFormed
<1> QED
  BY <1>3, <1>4

LEMMA VscDrafted ==
    ASSUME NEW scope \in Scopes, NEW window \in Windows, NEW subject, NEW predicate, NEW object,
           NEW c \in NewVsc(scope, window, subject, predicate, object)
    PROVE  Drafted(c)
<1> DEFINE first == << Check("InvalidValidityWindow", EmptyWindow(c.from, c.until)),
                       Check("InvalidPredicate", ~ WellFormed(c.subject.predicate)),
                       Check("JsonTooDeep", TooDeep(c)) >>
           formed == << Check("InvalidPredicate", ~ WellFormed(c.subject.predicate)) >>
           profile == [CoreProfiles[predicate] EXCEPT !.cited = FALSE]
           core == IF predicate \in DOMAIN CoreProfiles THEN ConstraintChecks(profile, c) ELSE << >>
<1>1. Passes(NewVscChecks(c))
  BY DEF NewVsc
<1>2. c.subject.shape = "Statement" /\ c.subject.predicate = predicate /\ c.subject.object = object
  <2>1. c.subject = StatementSubject(subject, predicate, object, {})
    BY NewVscMembers
  <2> QED
    BY <2>1 DEF StatementSubject
<1>3. /\ c.type = "Statement"
      /\ c.types = <<"VC", "DTG", "Statement">> /\ c.context = <<"v2", "dtg/v1">>
  BY VscFormed
<1>4. /\ IsChecks(first)
      /\ Passes(first) =>
            ~ EmptyWindow(c.from, c.until) /\ WellFormed(c.subject.predicate) /\ ~ TooDeep(c)
  <2> DEFINE empty == EmptyWindow(c.from, c.until)
             badIri == ~ WellFormed(c.subject.predicate)
             tooDeep == TooDeep(c)
  <2> HIDE DEF empty, badIri, tooDeep
  <2>1. LET checks == << Check("InvalidValidityWindow", empty),
                         Check("InvalidPredicate", badIri), Check("JsonTooDeep", tooDeep) >>
        IN  IsChecks(checks) /\ (Passes(checks) => ~ empty /\ ~ badIri /\ ~ tooDeep)
    BY ThreeChecks, Zenon
  <2> QED
    BY <2>1 DEF empty, badIri, tooDeep
<1>5. IsChecks(formed) /\ IsChecks(core)
  BY OneCheck, NoChecks, ConstraintsRead
<1>6. NewVscChecks(c) = first \o (formed \o core)
  BY <1>2 DEF NewVscChecks, BeforeCitationChecks
<1>7. Passes(first) /\ Passes(core)
  <2> HIDE DEF first, formed, core
  <2>1. IsChecks(formed \o core) /\ (Passes(formed \o core) => Passes(core))
    BY <1>5, PassesBoth
  <2> QED
    BY <1>1, <1>4, <1>6, <2>1, PassesBoth
<1>8. /\ ~ EmptyWindow(c.from, c.until) /\ WellFormed(predicate)
      /\ object # ObjectValue("deep")
  BY <1>2, <1>4, <1>7 DEF TooDeep
<1>9. ASSUME predicate \in DOMAIN CoreProfiles
      PROVE  /\ Kind(object) \in CoreProfiles[predicate].kinds
             /\ ~ TooNarrow(c.scope, CoreProfiles[predicate].minimum)
  <2>1. Passes(ConstraintChecks(profile, c))
    BY <1>7, <1>9
  <2>2. /\ profile.kinds = CoreProfiles[predicate].kinds
        /\ profile.minimum = CoreProfiles[predicate].minimum
    BY <1>9 DEF CoreProfiles
  <2> HIDE DEF profile
  <2> QED
    BY <1>2, <2>1, <2>2, ConstraintsRead
<1> QED
  BY <1>2, <1>3, <1>8, <1>9 DEF Drafted

LEMMA VscUncited ==
    ASSUME NEW scope \in Scopes, NEW window \in Windows, NEW subject, NEW predicate,
           NEW object, object # ObjectId("bare"),
           NEW c \in NewVsc(scope, window, subject, predicate, object)
    PROVE  Uncited(c)
<1>1. c.subject.object = object
  <2>1. c.subject = StatementSubject(subject, predicate, object, {})
    BY NewVscMembers
  <2> QED
    BY <2>1 DEF StatementSubject
<1>2. Formed(c) /\ c.proof = None
  BY VscFormed
<1>3. Drafted(c)
  BY VscDrafted
<1> QED
  BY <1>1, <1>2, <1>3 DEF Uncited

(* A draft with the citation its profile asks for conforms, unless its      *)
(* object is a bare name.                                                   *)
LEMMA SoundConforms ==
    ASSUME NEW c, Sound(c)
    PROVE  Passes(ConformanceChecks(c))
<1> DEFINE profile == CoreProfiles[c.subject.predicate]
<1>1. Drafted(c)
  BY DEF Sound
<1>2. /\ Passes(ContextChecks(c.context)) /\ Passes(TypeChecks(c.types)) /\ ArrayNames(c)
  BY <1>1, StatementArrays DEF Drafted, ArrayNames
<1>3. ASSUME c.subject.predicate \in DOMAIN CoreProfiles
      PROVE  Passes(ConstraintChecks(profile, c))
  <2>1. /\ Kind(c.subject.object) \in profile.kinds /\ ~ TooNarrow(c.scope, profile.minimum)
        /\ profile.cited => c.task # None /\ c.taskDigest # None
    BY <1>1, <1>3 DEF Drafted, Sound
  <2> HIDE DEF profile
  <2> QED
    BY <2>1, ConstraintsRead
<1>4. Passes(StatementChecks(c))
  BY <1>1, <1>3, StatementRead DEF Drafted, Sound
<1>5. Passes(SubjectChecks(c)) /\ c.subject.shape = ShapeFor(c.type)
  BY <1>1, <1>4, SubjectChecksRead, ShapesRead DEF Drafted
<1> QED
  BY <1>2, <1>5, ConformanceRead

\* A citation that is taken is of a document with an id and a digest.
LEMMA CitedRead ==
    ASSUME NEW c, DOMAIN c = Members, NEW document \in Sessions
    PROVE  LET d == Cited(c, document)
           IN  /\ DOMAIN d = Members
               /\ \A m \in Members \ {"task", "taskDigest"} : d[m] = c[m]
               /\ Passes(CitationChecks(document)) => d.task # None /\ d.taskDigest # None
               /\ ~ Passes(CitationChecks(document)) => d = c
<1>1. CASE Passes(CitationChecks(document))
  <2>1. document.id # None
    BY <1>1, CitationPasses
  <2>2. document \in TaskDocument
    BY InputsAssumption
  <2>3. TaskDigest(document) \in TaskDocument
    BY <2>2 DEF TaskDigest, TaskDocument
  <2>4. TaskDigest(document) # None
    BY <2>3, InputsAssumption
  <2>5. {"task", "taskDigest"} \subseteq Members
    BY DEF Members, Member
  <2>6. Cited(c, document) =
          [c EXCEPT !.task = document.id, !.taskDigest = TaskDigest(document)]
    BY <1>1 DEF Cited
  <2> QED
    BY <1>1, <2>1, <2>4, <2>5, <2>6
<1>2. CASE ~ Passes(CitationChecks(document))
  BY <1>2 DEF Cited
<1> QED
  BY <1>1, <1>2

LEMMA CitedSound ==
    ASSUME NEW results, NEW session \in Sessions, NEW c \in WithTaskCitation(results, session),
           \A r \in results : Uncited(r)
    PROVE  Formed(c) /\ c.proof = None /\ Sound(c)
<1>1. PICK r \in results : c = Cited(r, session) /\ Passes(CitationChecks(session))
  BY DEF WithTaskCitation
<1>2. Uncited(r) /\ DOMAIN r = Members
  BY <1>1 DEF Uncited, Formed
<1>3. /\ DOMAIN c = Members
      /\ \A m \in Members \ {"task", "taskDigest"} : c[m] = r[m]
      /\ c.task # None /\ c.taskDigest # None
  BY <1>1, <1>2, CitedRead
<1>4. {"scope", "type", "status", "from", "until", "subject", "context", "types", "proof"}
        \subseteq Members \ {"task", "taskDigest"}
  BY DEF Members, Member
<1>5. /\ c.scope = r.scope /\ c.type = r.type /\ c.status = r.status /\ c.from = r.from
      /\ c.until = r.until /\ c.subject = r.subject /\ c.context = r.context
      /\ c.types = r.types /\ c.proof = r.proof
  BY <1>3, <1>4
<1>6. Formed(c)
  BY <1>2, <1>3, <1>5 DEF Uncited, Formed
<1>7. Drafted(c) /\ c.subject.object # ObjectId("bare")
  BY <1>2, <1>5 DEF Uncited, Drafted
<1> QED
  BY <1>2, <1>3, <1>5, <1>6, <1>7 DEF Sound, Uncited

-----------------------------------------------------------------------------
(* The invariant of the members: a credential is formed, and one a profile  *)
(* constructor made is sound until credential_mut.                          *)

ProfileMakers ==
    {"new_endorses_vsc", "new_witnessed_vsc", "new_vetted_vsc", "new_presented_vsc"}

FInv ==
    /\ Typed
    /\ (by = "new_vsc" /\ ~ edited) => Drafted(held)
    /\ (by \in ProfileMakers /\ ~ edited) => Sound(held)

LEMMA HoldFormed ==
    ASSUME FInv, NEW c, NEW maker, NEW document, NEW observed,
           Hold(c, maker, document, observed), maker \in Makers,
           document \in {None} \cup Sessions, observed \in {None} \cup Credentials,
           Formed(c), ProofForm(c.proof),
           maker = "new_vsc" => Drafted(c),
           maker \in ProfileMakers => Sound(c)
    PROVE  FInv'
<1>1. /\ held' = c /\ by' = maker /\ cited' = document /\ about' = observed
      /\ calls' = calls
  BY DEF Hold
<1>2. by' # None
  BY <1>1, InputsAssumption
<1>3. Typed'
  BY <1>1, <1>2 DEF FInv, Typed
<1> QED
  BY <1>1, <1>3 DEF FInv

\* No proof, and a proof that came with a document, are not held to anything.
LEMMA GivenProofs ==
    /\ ProofForm(None)
    /\ \A document \in Foreign : ProofForm(document.proof)
BY DEF ProofForm

LEMMA MakeEdgeFormed ==
    ASSUME FInv, MakeEdgeCredential
    PROVE  FInv'
<1>1. PICK window \in Windows, scope \in Scopes :
        \/ \E personhood \in BOOLEAN :
              Hold(NewVmc(window, personhood), "new_vmc", None, None)
        \/ Hold(NewVrc(scope, window), "new_vrc", None, None)
        \/ Hold(NewVic(scope, window), "new_vic", None, None)
        \/ Hold(NewVpc(scope, window), "new_vpc", None, None)
  BY DEF MakeEdgeCredential
<1>2. ASSUME NEW c, NEW maker \in {"new_vmc", "new_vrc", "new_vic", "new_vpc"},
             Hold(c, maker, None, None), Formed(c), c.proof = None
      PROVE  FInv'
  <2>1. maker \in Makers /\ maker \notin ProfileMakers /\ maker # "new_vsc"
    BY DEF Makers, ProfileMakers
  <2> QED
    BY <1>2, <2>1, HoldFormed, GivenProofs
<1>3. ASSUME NEW type \in {"Relationship", "Invitation", "Persona"}
      PROVE  /\ Formed(Build(type, scope, window, BasicSubject(Other)))
             /\ Build(type, scope, window, BasicSubject(Other)).proof = None
  <2>1. SubjectForm(BasicSubject(Other)) /\ type \in Subtypes
    BY DEF SubjectForm, BasicSubject, Subtypes
  <2>2. Build(type, scope, window, BasicSubject(Other)).proof = None
    BY DEF Build
  <2> QED
    BY <1>1, <2>1, <2>2, BuildFormed
<1>4. ASSUME NEW personhood \in BOOLEAN
      PROVE  Formed(NewVmc(window, personhood)) /\ NewVmc(window, personhood).proof = None
  <2> DEFINE subject == MembershipSubject(Other, None)
             vmc == Build("Membership", Public, window, subject)
             c == NewVmc(window, personhood)
  <2>1. SubjectForm(subject) /\ "Membership" \in Subtypes /\ Public \in Scopes
    BY DEF SubjectForm, MembershipSubject, Subtypes, Scopes, IssuerScope, Pairwise, Public
  <2>2. Formed(vmc) /\ vmc.proof = None
    <3>1. vmc.proof = None
      BY DEF Build
    <3> HIDE DEF subject
    <3> QED
      BY <1>1, <2>1, <3>1, BuildFormed
  <2>3. c = vmc \/ c = [vmc EXCEPT !.types = Append(@, "Personhood")]
    BY DEF NewVmc
  <2>4. {"types", "scope", "type", "status", "from", "until", "subject", "proof"} \subseteq Members
    BY DEF Members, Member
  <2> HIDE DEF vmc, c
  <2> QED
    BY <2>2, <2>3, <2>4 DEF Formed, c
<1> QED
  BY <1>1, <1>2, <1>3, <1>4 DEF NewVrc, NewVic, NewVpc

LEMMA MakeVscFormed ==
    ASSUME FInv, MakeVsc
    PROVE  FInv'
<1>1. PICK window \in Windows, scope \in Scopes, predicate \in Predicates, object \in Objects :
        \E c \in NewVsc(scope, window, Other, predicate, object) :
            Hold(c, "new_vsc", None, None)
  BY DEF MakeVsc
<1>2. PICK c \in NewVsc(scope, window, Other, predicate, object) :
        Hold(c, "new_vsc", None, None)
  BY <1>1
<1>3. Formed(c) /\ c.proof = None
  BY <1>1, <1>2, VscFormed
<1>4. Drafted(c)
  BY <1>1, <1>2, VscDrafted
<1>5. "new_vsc" \in Makers /\ "new_vsc" \notin ProfileMakers
  BY DEF Makers, ProfileMakers
<1> QED
  BY <1>2, <1>3, <1>4, <1>5, HoldFormed, GivenProofs

LEMMA EndorsesFormed ==
    ASSUME FInv, NEW scope \in Scopes, NEW window \in Windows, NEW object,
           Kind(object) = "value", NEW c \in NewEndorsesVsc(scope, window, object),
           Hold(c, "new_endorses_vsc", None, None)
    PROVE  FInv'
<1>1. /\ c \in NewVsc(scope, window, Other, ENDORSES_V1, object)
      /\ object # ObjectId("bare")
  BY KindsRead DEF NewEndorsesVsc
<1>2. Uncited(c)
  BY <1>1, VscUncited
<1>3. c.subject.predicate = ENDORSES_V1
  <2>1. c.subject = StatementSubject(Other, ENDORSES_V1, object, {})
    BY <1>1, NewVscMembers
  <2> QED
    BY <2>1 DEF StatementSubject
<1>4. Sound(c)
  BY <1>2, <1>3, ProfilesRead DEF Uncited, Sound
<1>5. "new_endorses_vsc" \in Makers
  BY DEF Makers
<1> QED
  BY <1>2, <1>4, <1>5, HoldFormed, GivenProofs DEF Uncited

LEMMA VettedFormed ==
    ASSUME FInv, NEW scope \in Scopes, NEW window \in Windows, NEW object,
           Kind(object) = "value", NEW session \in Sessions,
           NEW c \in NewVettedVsc(scope, window, object, session),
           Hold(c, "new_vetted_vsc", session, None)
    PROVE  FInv'
<1> DEFINE results == NewVsc(scope, window, Other, VETTED_V1, object)
<1>1. c \in WithTaskCitation(results, session)
  BY DEF NewVettedVsc
<1>2. object # ObjectId("bare")
  BY KindsRead
<1>3. \A r \in results : Uncited(r)
  BY <1>2, VscUncited
<1> HIDE DEF results
<1>4. Formed(c) /\ c.proof = None /\ Sound(c)
  BY <1>1, <1>3, CitedSound
<1>5. "new_vetted_vsc" \in Makers
  BY DEF Makers
<1> QED
  BY <1>4, <1>5, HoldFormed, GivenProofs

LEMMA WitnessedFormed ==
    ASSUME FInv, NEW scope \in Scopes, NEW window \in Windows, NEW session \in Sessions,
           NEW observed \in Credentials, NEW members,
           NEW c \in NewWitnessedVsc(scope, window, observed, session, members),
           Hold(c, "new_witnessed_vsc", session, observed)
    PROVE  FInv'
<1> DEFINE object == ObjectDigest(ObservedDigest(observed))
           base == NewVsc(scope, window, observed.issuer, WITNESSED_V1, object)
           results == {[v EXCEPT !.subject.members = members] : v \in base}
<1>1. c \in WithTaskCitation(results, session)
  BY DEF NewWitnessedVsc
<1>2. object # ObjectId("bare")
  <2>1. DOMAIN object = {"digestMultibase"}
    BY DEF ObjectDigest
  <2>2. Kind(object) = "digestMultibase"
    BY <2>1 DEF Kind, ObjectKind
  <2> HIDE DEF object
  <2> QED
    BY <2>2, KindsRead
<1>3. ASSUME NEW r \in results PROVE Uncited(r)
  <2>1. PICK v \in base : r = [v EXCEPT !.subject.members = members]
    OBVIOUS
  <2>2. /\ Uncited(v)
        /\ v.subject = StatementSubject(observed.issuer, WITNESSED_V1, object, {})
    <3>1. Uncited(v)
      <4> HIDE DEF object
      <4> QED
        BY <1>2, VscUncited
    <3> QED
      BY <3>1, NewVscMembers
  <2>3. DOMAIN v = Members
    BY <2>2 DEF Uncited, Formed
  <2>4. {"scope", "type", "status", "from", "until", "subject", "context", "types", "proof"}
          \subseteq Members
    BY DEF Members, Member
  <2>5. /\ DOMAIN r = Members /\ r.scope = v.scope /\ r.type = v.type /\ r.status = v.status
        /\ r.from = v.from /\ r.until = v.until /\ r.context = v.context
        /\ r.types = v.types /\ r.proof = v.proof
        /\ r.subject = [v.subject EXCEPT !.members = members]
    BY <2>1, <2>3, <2>4
  <2>6. /\ r.subject.shape = v.subject.shape /\ r.subject.object = v.subject.object
        /\ r.subject.predicate = v.subject.predicate
        /\ "shape" \in DOMAIN r.subject /\ v.subject.shape = "Statement"
    BY <2>2, <2>5 DEF StatementSubject
  <2>7. Formed(r)
    BY <2>2, <2>5, <2>6 DEF Uncited, Formed, SubjectForm
  <2> QED
    BY <2>2, <2>5, <2>6, <2>7 DEF Uncited, Drafted
<1> HIDE DEF results
<1>4. Formed(c) /\ c.proof = None /\ Sound(c)
  BY <1>1, <1>3, CitedSound
<1>5. "new_witnessed_vsc" \in Makers
  BY DEF Makers
<1> QED
  BY <1>4, <1>5, HoldFormed, GivenProofs

LEMMA PresentedFormed ==
    ASSUME FInv, NEW scope \in Scopes, NEW window \in Windows, NEW session \in Sessions,
           NEW observed \in Credentials,
           NEW c \in NewPresentedVsc(scope, window, observed, session),
           Hold(c, "new_presented_vsc", session, observed)
    PROVE  FInv'
<1> DEFINE object == ObjectDigest(ObservedDigest(observed))
           results == NewVsc(scope, window, observed.subject, PRESENTED_V1, object)
<1>1. c \in WithTaskCitation(results, session)
  BY DEF NewPresentedVsc
<1>2. object # ObjectId("bare")
  <2>1. DOMAIN object = {"digestMultibase"}
    BY DEF ObjectDigest
  <2>2. Kind(object) = "digestMultibase"
    BY <2>1 DEF Kind, ObjectKind
  <2> HIDE DEF object
  <2> QED
    BY <2>2, KindsRead
<1> HIDE DEF object
<1>3. \A r \in results : Uncited(r)
  BY <1>2, VscUncited
<1> HIDE DEF results
<1>4. Formed(c) /\ c.proof = None /\ Sound(c)
  BY <1>1, <1>3, CitedSound
<1>5. "new_presented_vsc" \in Makers
  BY DEF Makers
<1> QED
  BY <1>4, <1>5, HoldFormed, GivenProofs

LEMMA MakeProfileFormed ==
    ASSUME FInv, MakeProfileStatement
    PROVE  FInv'
BY EndorsesFormed, VettedFormed, WitnessedFormed, PresentedFormed DEF MakeProfileStatement

\* What a parse makes of a document serde takes is formed.
LEMMA ModelFormed ==
    ASSUME NEW document, Deserializes(document), Parses(document)
    PROVE  Formed(Model(document)) /\ Model(document).proof = document.proof
<1> DEFINE claims == document.claims
           c == Model(document)
<1>1. /\ DOMAIN c = Members
      /\ c.type = SubtypeOf(claims.types) /\ c.proof = document.proof
      /\ c.subject = Normalized(c.type, claims.subject)
      /\ c.status = IF claims.status = "null" THEN None ELSE claims.status
      /\ \A m \in Member \ {"subject", "status"} : c[m] = claims[m]
  BY ModelRead
<1>2. c.scope = claims.scope /\ c.from = claims.from /\ c.until = claims.until
  BY <1>1 DEF Member
<1>3. c.type \in Subtypes
  BY <1>1, SubtypeNamed DEF Parses
<1>4. SubjectForm(c.subject)
  BY <1>1 DEF Deserializes, Normalized, SubjectForm, MembershipSubject
<1> HIDE DEF c
<1>5. Formed(c)
  BY <1>1, <1>2, <1>3, <1>4 DEF Formed, Deserializes, Scopes
<1> QED
  BY <1>1, <1>5 DEF c

LEMMA ReceiveFormed ==
    ASSUME FInv, Receive
    PROVE  FInv'
<1>1. PICK document \in Foreign :
        Parses(document) /\ Hold(Model(document), "received", None, None)
  BY DEF Receive
<1>2. Formed(Model(document)) /\ Model(document).proof = document.proof
  BY <1>1, ModelFormed, InputsAssumption
<1>3. "received" \in Makers \ ProfileMakers /\ "received" # "new_vsc"
  BY DEF Makers, ProfileMakers
<1> QED
  BY <1>1, <1>2, <1>3, HoldFormed, GivenProofs

-----------------------------------------------------------------------------
(* Calls on it.                                                             *)

LEMMA CallFormed ==
    ASSUME FInv, Call, UNCHANGED <<by, about>>,
           cited' \in {cited} \cup Sessions,
           Formed(held'), ProofForm(held'.proof),
           ~ edited' => (Drafted(held) => Drafted(held')) /\ (Sound(held) => Sound(held')),
           edited => edited'
    PROVE  FInv'
<1>1. by # None /\ calls' = calls + 1 /\ calls < MaxCalls
  BY DEF Call
<1>2. calls' \in 0 .. MaxCalls
  BY <1>1, InputsAssumption DEF FInv, Typed
<1>3. Typed'
  BY <1>1, <1>2 DEF FInv, Typed
<1> QED
  BY <1>3 DEF FInv

\* A credential that keeps what the checks read stays as drafted, and sound.
LEMMA SoundCarries ==
    ASSUME NEW c, NEW d,
           d.context = c.context, d.types = c.types, d.type = c.type,
           d.subject = c.subject, d.scope = c.scope,
           EmptyWindow(d.from, d.until) => EmptyWindow(c.from, c.until),
           c.task # None => d.task # None,
           c.taskDigest # None => d.taskDigest # None
    PROVE  (Drafted(c) => Drafted(d)) /\ (Sound(c) => Sound(d))
<1>1. Drafted(c) => Drafted(d)
  BY DEF Drafted
<1> QED
  BY <1>1 DEF Sound

LEMMA SetterFormed ==
    ASSUME FInv, SetId \/ SetCredentialStatus
    PROVE  FInv'
<1>1. Call /\ UNCHANGED <<by, edited, cited, about>> /\ by # None
  BY DEF SetId, SetCredentialStatus, Call
<1>2. Formed(held) /\ ProofForm(held.proof)
  BY <1>1 DEF FInv, Typed
<1>3. \/ held' = [held EXCEPT !.id = "urn"]
      \/ \E status \in StatusMembers : held' = [held EXCEPT !.status = status]
  BY DEF SetId, SetCredentialStatus
<1>4. Members = {"context", "types", "id", "issuer", "scope", "from", "until", "task",
                 "taskDigest", "subject", "status", "type", "proof"}
  BY DEF Members, Member
<1>5. /\ DOMAIN held' = Members /\ held'.scope = held.scope /\ held'.type = held.type
      /\ held'.from = held.from /\ held'.until = held.until /\ held'.subject = held.subject
      /\ held'.context = held.context /\ held'.types = held.types
      /\ held'.task = held.task /\ held'.taskDigest = held.taskDigest
      /\ held'.proof = held.proof /\ held'.status \in StatusMembers \cup {held.status}
  BY <1>2, <1>3, <1>4 DEF Formed
<1>6. Formed(held')
  BY <1>2, <1>5 DEF Formed
<1>7. (Drafted(held) => Drafted(held')) /\ (Sound(held) => Sound(held'))
  BY <1>5, SoundCarries
<1> QED
  BY <1>1, <1>2, <1>5, <1>6, <1>7, CallFormed DEF FInv

LEMMA SignFormed ==
    ASSUME FInv, Sign
    PROVE  FInv'
<1>1. Call /\ UNCHANGED <<by, edited, cited, about>> /\ by # None
  BY DEF Sign, Call
<1>2. PICK signer \in {Me, Other} :
        held' = [held EXCEPT !.proof = [covers |-> Serialized(held), by |-> signer]]
  BY DEF Sign
<1>3. Formed(held) /\ "proof" \in Members
  BY <1>1 DEF FInv, Typed, Members
<1>4. /\ DOMAIN held' = Members /\ held'.proof.covers = Serialized(held)
      /\ \A m \in Members \ {"proof"} : held'[m] = held[m]
  BY <1>2, <1>3 DEF Formed
<1>5. Members \ {"proof"} =
        {"context", "types", "id", "issuer", "scope", "from", "until", "task",
         "taskDigest", "subject", "status", "type"}
  BY DEF Members, Member
<1>6. /\ held'.scope = held.scope /\ held'.type = held.type
      /\ held'.from = held.from /\ held'.until = held.until /\ held'.subject = held.subject
      /\ held'.context = held.context /\ held'.types = held.types
      /\ held'.task = held.task /\ held'.taskDigest = held.taskDigest
      /\ held'.status = held.status
  BY <1>4, <1>5
<1>7. Formed(held')
  BY <1>3, <1>4, <1>6 DEF Formed
<1>8. ProofForm(held'.proof)
  <2>1. held.from \in Nat /\ held.until \in Nat \cup {None}
    BY <1>3 DEF Formed
  <2>2. /\ held'.proof.covers.from = WholeSecond(held.from)
        /\ held'.proof.covers.until = WholeSecondOption(held.until)
    BY <1>4, SerializedRead
  <2> QED
    BY <2>1, <2>2, CutTwice DEF ProofForm
<1>9. (Drafted(held) => Drafted(held')) /\ (Sound(held) => Sound(held'))
  BY <1>6, SoundCarries
<1> QED
  BY <1>1, <1>7, <1>8, <1>9, CallFormed DEF FInv

LEMMA SetCitationFormed ==
    ASSUME FInv, SetTaskCitation
    PROVE  FInv'
<1>1. PICK document \in Sessions :
        /\ held' = Cited(held, document)
        /\ cited' = IF Passes(CitationChecks(document)) THEN document ELSE cited
  BY DEF SetTaskCitation
<1>2. Call /\ UNCHANGED <<by, edited, about>> /\ by # None
  BY DEF SetTaskCitation, Call
<1>3. Formed(held) /\ ProofForm(held.proof) /\ DOMAIN held = Members
  BY <1>2 DEF FInv, Typed, Formed
<1>4. /\ DOMAIN held' = Members
      /\ \A m \in Members \ {"task", "taskDigest"} : held'[m] = held[m]
      /\ held' = held \/ (held'.task # None /\ held'.taskDigest # None)
  BY <1>1, <1>3, CitedRead
<1>5. Members \ {"task", "taskDigest"} =
        {"context", "types", "id", "issuer", "scope", "from", "until", "subject",
         "status", "type", "proof"}
  BY DEF Members, Member
<1>6. /\ held'.scope = held.scope /\ held'.type = held.type
      /\ held'.from = held.from /\ held'.until = held.until /\ held'.subject = held.subject
      /\ held'.context = held.context /\ held'.types = held.types
      /\ held'.proof = held.proof /\ held'.status = held.status
  BY <1>4, <1>5
<1>7. Formed(held')
  BY <1>3, <1>4, <1>6 DEF Formed
<1>8. (Drafted(held) => Drafted(held')) /\ (Sound(held) => Sound(held'))
  BY <1>4, <1>6, SoundCarries
<1>9. cited' \in {cited} \cup Sessions
  BY <1>1
<1> QED
  BY <1>2, <1>3, <1>6, <1>7, <1>8, <1>9, CallFormed DEF FInv

LEMMA EditFormed ==
    ASSUME FInv, CredentialMut
    PROVE  FInv'
<1>1. Call /\ UNCHANGED <<by, cited, about>> /\ by # None /\ edited' = TRUE
      /\ held' \in Edits(held)
  BY DEF CredentialMut, Call
<1>2. Formed(held) /\ ProofForm(held.proof) /\ DOMAIN held = Members
  BY <1>1 DEF FInv, Typed, Formed
<1>3. Members = {"context", "types", "id", "issuer", "scope", "from", "until", "task",
                 "taskDigest", "subject", "status", "type", "proof"}
  BY DEF Members, Member
<1>4. ASSUME NEW value, held' = [held EXCEPT !.subject = value], SubjectForm(value)
      PROVE  Formed(held') /\ held'.proof = held.proof
  BY <1>2, <1>3, <1>4 DEF Formed
<1>5. ASSUME NEW value, \/ held' = [held EXCEPT !.context = value]
                        \/ held' = [held EXCEPT !.types = value]
                        \/ held' = [held EXCEPT !.issuer = value]
                        \/ held' = [held EXCEPT !.task = value]
                        \/ held' = [held EXCEPT !.taskDigest = value]
      PROVE  Formed(held') /\ held'.proof = held.proof
  BY <1>2, <1>3, <1>5 DEF Formed
<1>6. ASSUME NEW scope \in Scopes, held' = [held EXCEPT !.scope = scope]
      PROVE  Formed(held') /\ held'.proof = held.proof
  BY <1>2, <1>3, <1>6 DEF Formed
<1>7. ASSUME held' = [held EXCEPT !.until = held.from]
      PROVE  Formed(held') /\ held'.proof = held.proof
  BY <1>2, <1>3, <1>7 DEF Formed
<1>8. ASSUME held' = [held EXCEPT !.proof = None]
      PROVE  Formed(held') /\ held'.proof = None
  BY <1>2, <1>3, <1>8 DEF Formed
<1>9. /\ SubjectForm(BasicSubject(Other)) /\ SubjectForm(MembershipSubject(Other, "digest"))
      /\ held.subject.shape = "Statement" =>
            \A value : /\ SubjectForm([held.subject EXCEPT !.predicate = value])
                       /\ SubjectForm([held.subject EXCEPT !.object = value])
  BY <1>2 DEF SubjectForm, BasicSubject, MembershipSubject, Formed
<1>10. \/ held' \in {[held EXCEPT !.subject = BasicSubject(Other)],
                     [held EXCEPT !.subject = MembershipSubject(Other, "digest")]}
       \/ /\ held.subject.shape = "Statement"
          /\ \E value : \/ held' = [held EXCEPT !.subject.predicate = value]
                        \/ held' = [held EXCEPT !.subject.object = value]
       \/ \E value : \/ held' = [held EXCEPT !.context = value]
                     \/ held' = [held EXCEPT !.types = value]
                     \/ held' = [held EXCEPT !.issuer = value]
                     \/ held' = [held EXCEPT !.task = value]
                     \/ held' = [held EXCEPT !.taskDigest = value]
       \/ \E scope \in Scopes : held' = [held EXCEPT !.scope = scope]
       \/ held' = [held EXCEPT !.until = held.from]
       \/ held' = [held EXCEPT !.proof = None]
  BY <1>1, Zenon DEF Edits
<1>11. Formed(held') /\ held'.proof \in {held.proof, None}
  <2>1. CASE held' \in {[held EXCEPT !.subject = BasicSubject(Other)],
                       [held EXCEPT !.subject = MembershipSubject(Other, "digest")]}
    BY <1>4, <1>9, <2>1
  <2>2. CASE /\ held.subject.shape = "Statement"
             /\ \E value : \/ held' = [held EXCEPT !.subject.predicate = value]
                           \/ held' = [held EXCEPT !.subject.object = value]
    <3>1. PICK value :
             \/ held' = [held EXCEPT !.subject = [held.subject EXCEPT !.predicate = value]]
             \/ held' = [held EXCEPT !.subject = [held.subject EXCEPT !.object = value]]
      BY <1>2, <1>3, <2>2
    <3> QED
      BY <1>4, <1>9, <2>2, <3>1
  <2> QED
    BY <1>5, <1>6, <1>7, <1>8, <1>10, <2>1, <2>2
<1>12. ProofForm(held'.proof)
  BY <1>2, <1>11, GivenProofs
<1> QED
  BY <1>1, <1>11, <1>12, CallFormed

LEMMA SendFormed ==
    ASSUME FInv, Send
    PROVE  FInv'
<1> DEFINE arrived == Model(OnTheWire(held))
<1>1. Call /\ UNCHANGED <<by, edited, cited, about>> /\ by # None
      /\ held' = arrived /\ Parses(OnTheWire(held))
  BY DEF Send, Call
<1>2. Formed(held) /\ ProofForm(held.proof)
  BY <1>1 DEF FInv, Typed
<1>3. Deserializes(OnTheWire(held)) /\ OnTheWire(held).proof = held.proof
  BY <1>2, ArrivalRead DEF OnTheWire
<1>4. Formed(arrived) /\ arrived.proof = held.proof
  BY <1>1, <1>3, ModelFormed
<1>5. (Drafted(held) => Drafted(arrived)) /\ (Sound(held) => Sound(arrived))
  <2> SUFFICES ASSUME Drafted(held)
               PROVE  Drafted(arrived) /\ (Sound(held) => Sound(arrived))
    BY DEF Sound
  <2>1. /\ arrived.context = held.context /\ arrived.types = held.types
        /\ arrived.scope = held.scope
        /\ arrived.task = held.task /\ arrived.taskDigest = held.taskDigest
        /\ arrived.type = SubtypeOf(held.types)
        /\ arrived.subject = Normalized(arrived.type, SubjectOnTheWire(held.subject))
        /\ arrived.from = WholeSecond(held.from) /\ arrived.until = WholeSecondOption(held.until)
    BY <1>2, ArrivalRead
  <2>2. held.from \in Nat /\ held.until \in Nat \cup {None}
    BY <1>2 DEF Formed
  <2>3. EmptyWindow(arrived.from, arrived.until) => EmptyWindow(held.from, held.until)
    <3>1. EmptyWindow(WholeSecond(held.from), WholeSecondOption(held.until))
             => EmptyWindow(held.from, held.until)
      BY <2>2, CutTwice
    <3> QED
      BY <2>1, <3>1
  <2>4. arrived.type = held.type
    BY <2>1, StatementArrays DEF Drafted
  <2>5. arrived.subject = held.subject
    BY <2>1 DEF Drafted, SubjectOnTheWire, Normalized
  <2> HIDE DEF arrived
  <2> QED
    BY <2>1, <2>3, <2>4, <2>5, SoundCarries
<1> HIDE DEF arrived
<1> QED
  BY <1>1, <1>2, <1>4, <1>5, CallFormed DEF FInv

LEMMA FormedInvariant == Spec => []FInv
<1>1. Init => FInv
  <2> SUFFICES ASSUME Init PROVE FInv
    OBVIOUS
  <2>1. by = None /\ by \notin ProfileMakers /\ by # "new_vsc"
    BY InputsAssumption DEF Init, Makers, ProfileMakers
  <2>2. 0 \in 0 .. MaxCalls
    BY InputsAssumption
  <2> QED
    BY <2>1, <2>2 DEF Init, FInv, Typed
<1>2. FInv /\ [Next]_vars => FInv'
  <2>1. FInv /\ UNCHANGED vars => FInv'
    BY DEF FInv, vars, Typed
  <2> QED
    BY <2>1, MakeEdgeFormed, MakeVscFormed, MakeProfileFormed, ReceiveFormed, SetterFormed,
       SetCitationFormed, EditFormed, SignFormed, SendFormed DEF Next, Done
<1> QED
  BY <1>1, <1>2, PTL DEF Spec

-----------------------------------------------------------------------------
(* The theorems of the members.                                             *)

(* Every credential that is held has its members, each of its type, however *)
(* it was made, parsed, set or edited, and a proof made here is over whole  *)
(* seconds.                                                                 *)
THEOREM TypeCorrect == Spec => []TypeOK
<1>1. FInv => TypeOK
  BY TypedIsTypeOK DEF FInv
<1> QED
  BY FormedInvariant, <1>1, PTL

(* A credential that verifies where it was signed verifies where it arrives *)
(* too, with the subtype and the subject it had: what sign lets through is  *)
(* read as no other credential, by serde's untagged match or otherwise.     *)
THEOREM SignedAlwaysTravels == Spec => []SignedTravels
<1>1. FInv => SignedTravels
  <2> DEFINE arrived == Model(OnTheWire(held))
  <2> SUFFICES ASSUME FInv, by # None, ProofHolds(held), held.status # "null"
               PROVE  /\ Parses(OnTheWire(held)) /\ ProofHolds(arrived)
                      /\ arrived.type = held.type /\ arrived.subject = held.subject
    BY DEF SignedTravels
  <2>1. Formed(held)
    BY DEF FInv, Typed
  <2>2. /\ Valid(held) /\ held.proof # None /\ held.proof.covers = Serialized(held)
        /\ held.proof.by = held.issuer
    BY DEF ProofHolds
  <2>3. Parses(OnTheWire(held)) /\ Valid(arrived) /\ Serialized(arrived) = Serialized(held)
    BY <2>1, <2>2, ValidArrives
  <2>4. arrived.proof = held.proof /\ arrived.issuer = held.issuer
    BY <2>1, ArrivalRead
  <2>5. arrived.type = held.type /\ arrived.subject = held.subject
    BY <2>1, <2>2, ValidityRead, ConformingArrives
  <2> HIDE DEF arrived
  <2>6. ProofHolds(arrived)
    BY <2>2, <2>3, <2>4 DEF ProofHolds
  <2> QED
    BY <2>3, <2>5, <2>6
<1> QED
  BY FormedInvariant, <1>1, PTL

(* Parsing settles: what a parse made of any document it took is written    *)
(* and parsed again as the same subtype with the same subject, and from     *)
(* then on a credential is read as itself, its window in whole seconds and  *)
(* no status of JSON null left in it.                                       *)
THEOREM ParsingSettles ==
    ASSUME NEW document, Deserializes(document), Parses(document)
    PROVE  LET c == Model(document)
               again == Model(OnTheWire(c))
           IN  /\ Parses(OnTheWire(c)) /\ Parses(OnTheWire(again))
               /\ again.type = c.type /\ again.subject = c.subject
               /\ Model(OnTheWire(again)) = again
<1> DEFINE c == Model(document)
           again == Model(OnTheWire(c))
           settled == Model(OnTheWire(again))
<1>1. Formed(c) /\ Passes(ConformanceChecks(c))
  BY ModelFormed DEF Parses
<1>2. /\ Parses(OnTheWire(c)) /\ Passes(ConformanceChecks(again))
      /\ again.type = c.type /\ again.subject = c.subject
  <2> HIDE DEF c
  <2> QED
    BY <1>1, ConformingArrives
<1>3. Formed(again)
  <2>1. Deserializes(OnTheWire(c))
    <3> HIDE DEF c
    <3> QED
      BY <1>1, ArrivalRead
  <2> HIDE DEF c
  <2> QED
    BY <1>2, <2>1, ModelFormed
<1>4. /\ again.from = WholeSecond(c.from) /\ again.until = WholeSecondOption(c.until)
      /\ again.status = IF c.status = "null" THEN None ELSE c.status
  <2> HIDE DEF c
  <2> QED
    BY <1>1, ArrivalRead
<1> HIDE DEF again
<1>5. Parses(OnTheWire(again)) /\ settled.type = again.type /\ settled.subject = again.subject
  BY <1>2, <1>3, ConformingArrives
<1>6. /\ DOMAIN settled = Members /\ settled.proof = again.proof
      /\ \A m \in {"context", "types", "id", "issuer", "scope", "task", "taskDigest"} :
            settled[m] = again[m]
      /\ settled.from = WholeSecond(again.from) /\ settled.until = WholeSecondOption(again.until)
      /\ settled.status = IF again.status = "null" THEN None ELSE again.status
  BY <1>3, ArrivalRead
<1>7. settled.from = again.from /\ settled.until = again.until
  <2>1. c.from \in Nat /\ c.until \in Nat \cup {None}
    BY <1>1 DEF Formed
  <2> HIDE DEF c, settled
  <2> QED
    BY <1>4, <1>6, <2>1, CutTwice
<1>8. settled.status = again.status
  <2>1. again.status # "null"
    BY <1>4, InputsAssumption DEF StatusMembers
  <2> QED
    BY <1>6, <2>1
<1> HIDE DEF settled
<1>9. \A m \in Members : settled[m] = again[m]
  BY <1>5, <1>6, <1>7, <1>8 DEF Members, Member
<1>10. again = [m \in Members |-> again[m]] /\ settled = [m \in Members |-> settled[m]]
  BY DEF again, settled, Model, Members
<1> QED
  BY <1>2, <1>5, <1>9, <1>10 DEF again, settled

(* A statement an accept-list takes in memory it takes from the wire, and a *)
(* statement under a predicate whose profile cites carries its citation     *)
(* whole and a scope above pairwise wherever any list takes it.             *)
THEOREM AcceptanceAlwaysTravels == Spec => []AcceptanceTravels
<1>1. FInv => AcceptanceTravels
  <2> DEFINE arrived == Model(OnTheWire(held))
  <2> SUFFICES ASSUME FInv, NEW list \in Lists, by # None, Accepts(list, held)
               PROVE  /\ Parses(OnTheWire(held)) /\ Accepts(list, arrived)
                      /\ held.subject.predicate \in {WITNESSED_V1, VETTED_V1, PRESENTED_V1} =>
                            held.task # None /\ held.taskDigest # None /\ held.scope # Pairwise
    BY DEF AcceptanceTravels
  <2> DEFINE predicate == held.subject.predicate
             entry == list[predicate]
  <2>1. Formed(held)
    BY DEF FInv, Typed
  <2>2. /\ held.type = "Statement" /\ held.subject.shape = "Statement" /\ Valid(held)
        /\ predicate \in DOMAIN list
        /\ entry = None \/ Passes(EntryChecks(entry, held))
    BY AcceptRead
  <2>3. Parses(OnTheWire(held)) /\ Valid(arrived)
    BY <2>1, <2>2, ValidArrives
  <2>4. arrived.type = held.type /\ arrived.subject = held.subject
    BY <2>1, <2>2, ValidityRead, ConformingArrives
  <2>5. /\ arrived.scope = held.scope /\ arrived.task = held.task
        /\ arrived.taskDigest = held.taskDigest
    BY <2>1, ArrivalRead
  <2> HIDE DEF arrived
  <2>6. Passes(EntryChecks(entry, held)) => Passes(EntryChecks(entry, arrived))
    <3>1. EntryChecks(entry, arrived) = EntryChecks(entry, held)
      BY <2>4, <2>5 DEF EntryChecks, ConstraintChecks
    <3> QED
      BY <3>1
  <2>7. Accepts(list, arrived)
    BY <2>2, <2>3, <2>4, <2>6, AcceptRead
  <2>8. ASSUME predicate \in {WITNESSED_V1, VETTED_V1, PRESENTED_V1}
        PROVE  held.task # None /\ held.taskDigest # None /\ held.scope # Pairwise
    <3>1. Passes(StatementChecks(held))
      BY <2>2, ValidityRead, ConformanceRead, SubjectChecksRead
    <3>2. /\ predicate \in DOMAIN CoreProfiles /\ CoreProfiles[predicate].cited
          /\ CoreProfiles[predicate].minimum = Directed
      BY <2>8, ProfilesRead
    <3>3. /\ ~ TooNarrow(held.scope, Directed)
          /\ held.task # None /\ held.taskDigest # None
      BY <3>1, <3>2, StatementRead, ConstraintsRead
    <3>4. held.scope # Pairwise
      BY <3>3, NoneAssumption DEF TooNarrow, Satisfies, Pairwise, Directed
    <3> QED
      BY <3>3, <3>4
  <2> QED
    BY <2>3, <2>7, <2>8
<1> QED
  BY FormedInvariant, <1>1, PTL

(* What one of the four profile constructors returned, and what new_vsc     *)
(* returned once it is cited and unless its object is a bare name, validate *)
(* finds nothing in to refuse, through any number of setters, signatures    *)
(* and parses: only credential_mut, or a status nested too deep, can break  *)
(* it.                                                                      *)
THEOREM StatementsAlwaysSignable == Spec => []StatementsAreSignable
<1>1. FInv /\ CitesOneDocument => StatementsAreSignable
  <2> SUFFICES ASSUME FInv, CitesOneDocument, by # None, ~ edited, held.status # "deep",
                      \/ by \in ProfileMakers
                      \/ by = "new_vsc" /\ cited # None /\ held.subject.object # ObjectId("bare")
               PROVE  Valid(held)
    BY DEF StatementsAreSignable, ProfileMakers
  <2>1. Sound(held)
    <3>1. CASE by \in ProfileMakers
      BY <3>1 DEF FInv
    <3>2. CASE by = "new_vsc" /\ cited # None /\ held.subject.object # ObjectId("bare")
      <4>1. held.task # None /\ held.taskDigest # None
        BY <3>2 DEF CitesOneDocument
      <4> QED
        BY <3>2, <4>1 DEF FInv, Sound
    <3> QED
      BY <3>1, <3>2
  <2>2. Passes(ConformanceChecks(held))
    BY <2>1, SoundConforms
  <2> QED
    BY <2>1, <2>2, ValidityRead DEF Sound, Drafted, TooDeep
<1> QED
  BY FormedInvariant, AlwaysCitesOneDocument, <1>1, PTL

=============================================================================
