--------------------------- MODULE MembershipEdge ---------------------------
(***************************************************************************)
(* A membership edge: the community's VMC (the grant), the member's VMC    *)
(* (the acknowledgement, which names the grant by digest), and what        *)
(* whoever holds both may conclude.  new_vmc, new_member_vmc_for, sign,    *)
(* verify_grant_with_public_key, verify_proof_with_public_key and          *)
(* acknowledges, over all the documents sent so far: any party may have    *)
(* received any of them, in any order, or not at all.  A document may also *)
(* come from another implementation, or through a relay that spells it     *)
(* anew; the library then writes what it has read in a form of its own.    *)
(*                                                                         *)
(* Keys and signatures belong to affinidi-data-integrity.  A signature     *)
(* verifies under the key that made it, over the claims it was made over.  *)
(***************************************************************************)
EXTENDS DTGBase

CONSTANTS
    Refs,          \* the references the parties go by
    Pairs,         \* the communities and members that issue grants to each other
    Windows,       \* the [from, until] a caller may pass
    MaxDocuments   \* bound on the documents sent

ASSUME RefsAssumption == Refs \subseteq Ref
ASSUME PairsAssumption == Pairs \subseteq Refs \X Refs
ASSUME WindowsAssumption == Windows \subseteq [from : Nat, until : Nat \cup {None}]
ASSUME MaxDocumentsAssumption == MaxDocuments \in Nat

VARIABLES
    sent,      \* the documents sent: claims, and the proof they carry
    signed,    \* who has signed which claims
    answers    \* the claims new_member_vmc_for has built

vars == <<sent, signed, answers>>

-----------------------------------------------------------------------------
(* Claims are a VMC without its proof.  A digest covers exactly them and    *)
(* collides with no other, so it is written as the claims it covers; `names`*)
(* is credentialSubject.digestMultibase.  `ours` tells the form in which    *)
(* this library writes timestamps from every other.                         *)

Naming(N) == [issuer : Ref, subject : Ref, public : BOOLEAN, ours : BOOLEAN,
              from : Nat, until : Nat \cup {None}, names : N]

Grant == Naming({None})

Answer == Naming(Grant)

\* What another implementation may write over an answer.
AnswerToAnswer == Naming(Answer)

Claims == Grant \cup Answer \cup AnswerToAnswer

ASSUME NoneIsNoClaims == None \notin Grant \cup Answer

\* `method` is the DID of the verificationMethod before its fragment, None if
\* it is a bare fragment; `created` tells proofs over the same claims apart.
Proof == [key : Dids, method : Ref \cup {None}, covers : Claims, created : {1, 2}]

Document == [claims : Claims, proof : Proof]

\* Not the code's: only the start of a window is cut on the wire (TypeOK).
WireMutant(claims) == [claims EXCEPT !.from = WholeSecond(@), !.ours = TRUE]

\* What the library signs, digests and sends of the claims it holds.
Wire(claims) ==
    [claims EXCEPT !.from = WholeSecond(@), !.until = WholeSecondOption(@),
                   !.ours = TRUE]

\* Not the code's: the proof is digested with the claims (AnswersComplete).
DigestMutant(document) == document

\* digest_multibase_json: the document as received, but for its top-level proof.
Digest(document) == document.claims

\* digest_multibase, of the credential a parse makes of the document.
ModelDigest(document) == Wire(document.claims)

-----------------------------------------------------------------------------
(* Signing.                                                                 *)

\* check_conformance, which a parse makes too: a grant (no digest) is public.
Conforms(claims) == claims.names = None => claims.public

\* validate.
Valid(claims) == ~ EmptyWindow(claims.from, claims.until) /\ Conforms(claims)

\* A document is sent under a proof of the very claims it makes.
Send(claims, key, method, created) ==
    /\ Cardinality(sent) < MaxDocuments
    /\ sent' = sent \cup
         {[claims |-> claims,
           proof  |-> [key |-> key, method |-> method,
                       covers |-> claims, created |-> created]]}
    /\ signed' = signed \cup {<<key, claims>>}

\* sign, by a party with its own key, under a method the caller names.
Sign(claims, key, method, created) ==
    Valid(claims) /\ Send(Wire(claims), key, method, created)

-----------------------------------------------------------------------------
(* Verifying.  The key is the one resolved for the method the proof names.  *)

\* A bare fragment is read against the issuer.
Signer(document) ==
    IF document.proof.method = None THEN document.claims.issuer
    ELSE document.proof.method

SignatureHolds(document, claims) ==
    document.proof.key = Signer(document).did /\ document.proof.covers = claims

\* Not the code's: whoever signed, signed (EdgeIsMutual).
FromIssuerMutant(document) == TRUE

\* check_proof_from_issuer: compared verbatim, unlike the parties of an edge.
FromIssuer(document) == Signer(document) = document.claims.issuer

InForce(claims, at) ==
    claims.from <= at /\ (claims.until # None => at <= claims.until)

\* verify_grant_with_public_key, of the document as received.
VerifyGrant(document, at) ==
    /\ SignatureHolds(document, document.claims)
    /\ FromIssuer(document)
    /\ ~ EmptyWindow(document.claims.from, document.claims.until)
    /\ InForce(document.claims, at)

\* verify_proof_with_public_key, of the credential a parse makes of it.
VerifyProof(document) ==
    /\ Valid(document.claims)
    /\ SignatureHolds(document, Wire(document.claims))
    /\ FromIssuer(document)

\* Not the code's: an answer passes for a grant (HalvesStayApart).
AcknowledgesMutant(ack, grant) ==
    /\ Conforms(ack.claims) /\ Conforms(grant.claims)
    /\ SameReference(ack.claims.issuer, grant.claims.subject)
    /\ SameReference(ack.claims.subject, grant.claims.issuer)
    /\ ack.claims.names = ModelDigest(grant)

\* acknowledges, of two parsed VMCs: the binding, which needs neither proof.
Acknowledges(ack, grant) ==
    /\ Conforms(ack.claims) /\ Conforms(grant.claims)
    /\ grant.claims.names = None
    /\ SameReference(ack.claims.issuer, grant.claims.subject)
    /\ SameReference(ack.claims.subject, grant.claims.issuer)
    /\ ack.claims.names = ModelDigest(grant)

\* What the documentation asks of a verifier before it treats an edge as
\* complete: both proofs, the binding, both windows.
Complete(ack, grant, at) ==
    /\ Acknowledges(ack, grant)
    /\ VerifyProof(ack)
    /\ VerifyGrant(grant, at)
    /\ InForce(ack.claims, at)

-----------------------------------------------------------------------------
(* The parties.                                                             *)

Init == sent = {} /\ signed = {} /\ answers = {}

\* new_vmc and sign.
IssueGrant(community, member, window) ==
    /\ Sign([issuer |-> community, subject |-> member, public |-> TRUE,
             ours |-> TRUE, from |-> window.from, until |-> window.until,
             names |-> None],
            community.did, community, 1)
    /\ UNCHANGED answers

\* A community that runs another implementation, which keeps sub-seconds.
IssueTheirGrant(community, member, window) ==
    /\ Send([issuer |-> community, subject |-> member, public |-> TRUE,
             ours |-> FALSE, from |-> window.from, until |-> window.until,
             names |-> None],
            community.did, community, 1)
    /\ UNCHANGED answers

\* Not the code's: an open-ended answer is within any grant (AnswerEndsWithGrant).
WithinGrantMutant(until, grantUntil) ==
    (grantUntil # None /\ until # None) =>
        WholeSecond(until) <= WholeSecond(grantUntil)

\* check_within_grant: open-ended outlives a grant that expires.
WithinGrant(until, grantUntil) ==
    grantUntil # None =>
        until # None /\ WholeSecond(until) <= WholeSecond(grantUntil)

(* The sequence a member follows: verify the grant received, at some        *)
(* instant, build the answer with new_member_vmc_for under exactly the      *)
(* identifier the grant names, and sign it.                                 *)
Acknowledge(grant, member, public, window, at) ==
    LET ack == [issuer |-> member, subject |-> grant.claims.issuer,
                public |-> public, ours |-> TRUE,
                from |-> window.from, until |-> window.until,
                names |-> Digest(grant)]
    IN  /\ VerifyGrant(grant, at)
        /\ ~ EmptyWindow(window.from, window.until)
        /\ grant.claims.names = None
        /\ grant.claims.public
        /\ grant.claims.subject = member
        /\ WithinGrant(window.until, grant.claims.until)
        /\ Sign(ack, member.did, member, 1)
        /\ answers' = answers \cup {Wire(ack)}

\* A member that runs another implementation answers what it has received,
\* also what is an answer itself; nobody answers further (a bound).
AnswerTheirWay(document) ==
    LET member == document.claims.subject
    IN  /\ document.claims \in Grant \cup Answer
        /\ Send(Wire([document.claims EXCEPT !.issuer  = member,
                                             !.subject = document.claims.issuer,
                                             !.names   = Digest(document)]),
                member.did, member, 1)
        /\ UNCHANGED answers

\* What was parsed is signed, by its issuer once more or by anyone.
SignAgain(document, signer, method) ==
    /\ Sign(document.claims, signer.did, method, 2)
    /\ UNCHANGED answers

\* Members change after signing and the proof stays.
Amend(document, claims) ==
    /\ Cardinality(sent) < MaxDocuments
    /\ sent' = sent \cup {[document EXCEPT !.claims = claims]}
    /\ UNCHANGED <<signed, answers>>

\* Through credential_mut: what was parsed is written, as it was or changed.
Amended(claims) ==
    LET model == Wire(claims)
    IN  {model, [model EXCEPT !.until = None], [model EXCEPT !.names = None]}
        \cup {[model EXCEPT !.subject = ref] : ref \in Refs}

\* By a relay: the same instants in another spelling.
Respelled(claims) == {[claims EXCEPT !.ours = FALSE]}

Instants == UNION {{w.from, w.until} : w \in Windows} \ {None}

\* The bound is reached (MaxDocuments).
Full == Cardinality(sent) = MaxDocuments /\ UNCHANGED vars

Next ==
    \/ \E pair \in Pairs, window \in Windows : IssueGrant(pair[1], pair[2], window)
    \/ \E pair \in Pairs, window \in Windows :
         IssueTheirGrant(pair[1], pair[2], window)
    \/ \E grant \in sent, member \in Refs, public \in BOOLEAN,
          window \in Windows, at \in Instants :
         Acknowledge(grant, member, public, window, at)
    \/ \E document \in sent : AnswerTheirWay(document)
    \/ \E document \in sent, signer \in Refs :
         \E method \in {signer, None} : SignAgain(document, signer, method)
    \/ \E document \in sent :
         \E claims \in Amended(document.claims) \cup Respelled(document.claims) :
            Amend(document, claims)
    \/ Full

Spec == Init /\ [][Next]_vars

-----------------------------------------------------------------------------
(* Type invariant.  What is in this library's form has whole seconds.       *)

InForm(claims) ==
    claims.ours => /\ claims.from % SubSeconds = 0
                   /\ claims.until # None => claims.until % SubSeconds = 0

TypeOK ==
    /\ sent \subseteq Document
    /\ \A document \in sent : InForm(document.claims)
    /\ Cardinality(sent) <= MaxDocuments
    /\ signed \subseteq Dids \X Claims
    /\ answers \subseteq Answer

(* An edge that anybody can take for complete was made by both of its       *)
(* parties: the community signed those very claims, naming the member, and  *)
(* the member signed an answer that names them, as this library writes them.*)
(* Whatever else was sent, signed by others, changed after signing or       *)
(* written in another form.                                                 *)
EdgeIsMutual ==
    \A ack, grant \in sent :
        (\E at \in Instants : Complete(ack, grant, at)) =>
            /\ <<grant.claims.issuer.did, grant.claims>> \in signed
            /\ <<grant.claims.subject.did, Wire(ack.claims)>> \in signed
            /\ ack.claims.subject.did = grant.claims.issuer.did
            /\ ack.claims.names = Wire(grant.claims)

(* The answer a member built completes the edge with the grant it answered, *)
(* with every other proof its community has made over the same claims and   *)
(* in whatever form they were written, at every instant both windows        *)
(* include (lib.rs, "lets a member's acknowledgement survive the community  *)
(* re-signing its grant"), if the grant it answered was in this library's   *)
(* form.  If it was not, the answer completes the edge with none of them.   *)
AnswersComplete ==
    \A ack, grant, answered \in sent :
        (/\ Wire(ack.claims) \in answers
         /\ VerifyProof(ack)
         /\ ack.claims.names = Digest(answered)
         /\ Wire(answered.claims) = Wire(grant.claims)) =>
            \A at \in Instants :
                VerifyGrant(grant, at) /\ InForce(ack.claims, at)
                    => (Complete(ack, grant, at) <=> answered.claims.ours)

(* The two halves of an edge stay apart in a network of communities, where  *)
(* each party is both (lib.rs, "an acknowledgement of an acknowledgement is *)
(* not an edge"): what answers a grant is itself answered by nothing that   *)
(* anybody sends, and new_member_vmc_for has built no answer over it.       *)
HalvesStayApart ==
    \A ack, grant \in sent :
        Acknowledges(ack, grant) =>
            /\ \A other \in sent : ~ Acknowledges(other, ack)
            /\ \A answer \in answers : answer.names # Digest(ack)

(* An acknowledgement built here never outlives the grant it completes an   *)
(* edge with, though it was built before the grant's end was cut to whole   *)
(* seconds: consent to a membership ends with it.                           *)
AnswerEndsWithGrant ==
    \A ack, grant \in sent :
        (/\ Wire(ack.claims) \in answers
         /\ Acknowledges(ack, grant)
         /\ grant.claims.until # None) =>
            /\ ack.claims.until # None
            /\ WholeSecond(ack.claims.until) <= grant.claims.until
=============================================================================
