------------------------ MODULE MembershipEdgeProofs ------------------------
(***************************************************************************)
(* Proofs about membership edges for any parties, windows and number of    *)
(* documents.                                                              *)
(*                                                                         *)
(* Two facts carry the properties through every order of signing,          *)
(* answering and amending: a proof, wherever it has been copied, was once  *)
(* made by its key over the claims it covers (ProofsWereMade); and an      *)
(* answer built here mirrors the grant it names, whatever has been sent    *)
(* since (AnswersMirror).                                                  *)
(***************************************************************************)
EXTENDS MembershipEdge, DTGBaseProofs, FiniteSetTheorems

ProofsWereMade ==
    \A document \in sent : <<document.proof.key, document.proof.covers>> \in signed

Mirrors(answer, grant) ==
    /\ grant.names = None
    /\ grant.public
    /\ answer.issuer = grant.subject
    /\ answer.subject = grant.issuer
    /\ grant.until # None => answer.until # None /\ answer.until <= grant.until

AnswersMirror == \A answer \in answers : Mirrors(answer, answer.names)

Inv ==
    /\ TypeOK
    /\ IsFiniteSet(sent)
    /\ ProofsWereMade
    /\ AnswersMirror

-----------------------------------------------------------------------------
(* The wire form.                                                           *)

(* Writing claims yields claims in this library's form, and changes nothing  *)
(* but their instants and the form.                                          *)
LEMMA WireTyped ==
    ASSUME NEW claims \in Claims
    PROVE  /\ Wire(claims) \in Claims
           /\ InForm(Wire(claims))
           /\ Wire(claims).issuer = claims.issuer
           /\ Wire(claims).subject = claims.subject
           /\ Wire(claims).public = claims.public
           /\ Wire(claims).names = claims.names
           /\ Wire(claims).ours
           /\ Wire(claims).until = WholeSecondOption(claims.until)
<1>1. claims \in [issuer : Ref, subject : Ref, public : BOOLEAN, ours : BOOLEAN,
                  from : Nat, until : Nat \cup {None},
                  names : Answer \cup Grant \cup {None}]
  BY DEF Claims, AnswerToAnswer, Answer, Grant, Naming
<1>2. WholeSecond(claims.from) \in Nat /\ WholeSecond(claims.from) % SubSeconds = 0
  BY <1>1, WholeSecondIsWhole
<1>3. /\ WholeSecondOption(claims.until) \in Nat \cup {None}
      /\ WholeSecondOption(claims.until) # None =>
           WholeSecondOption(claims.until) % SubSeconds = 0
  BY <1>1, WholeSecondIsWhole DEF WholeSecondOption
<1>4. /\ Wire(claims).issuer = claims.issuer
      /\ Wire(claims).subject = claims.subject
      /\ Wire(claims).public = claims.public
      /\ Wire(claims).names = claims.names
      /\ Wire(claims).ours
      /\ Wire(claims).from = WholeSecond(claims.from)
      /\ Wire(claims).until = WholeSecondOption(claims.until)
  BY <1>1 DEF Wire
<1>5. Wire(claims) \in Claims
  <2>1. CASE claims \in Grant
    BY <2>1, <1>2, <1>3 DEF Wire, Claims, Grant, Naming
  <2>2. CASE claims \in Answer
    BY <2>2, <1>2, <1>3 DEF Wire, Claims, Answer, Naming
  <2>3. CASE claims \in AnswerToAnswer
    BY <2>3, <1>2, <1>3 DEF Wire, Claims, AnswerToAnswer, Naming
  <2> QED
    BY <2>1, <2>2, <2>3 DEF Claims
<1>6. InForm(Wire(claims))
  BY <1>2, <1>3, <1>4 DEF InForm
<1> QED
  BY <1>4, <1>5, <1>6

(* Claims in this library's form are written as they are.                    *)
LEMMA FormIsWire ==
    ASSUME NEW claims \in Claims, InForm(claims), claims.ours
    PROVE  Wire(claims) = claims
<1>1. claims \in [issuer : Ref, subject : Ref, public : BOOLEAN, ours : BOOLEAN,
                  from : Nat, until : Nat \cup {None},
                  names : Answer \cup Grant \cup {None}]
  BY DEF Claims, AnswerToAnswer, Answer, Grant, Naming
<1>2. WholeSecond(claims.from) = claims.from
  BY <1>1 DEF InForm, WholeSecond
<1>3. WholeSecondOption(claims.until) = claims.until
  BY <1>1 DEF InForm, WholeSecond, WholeSecondOption
<1> QED
  BY <1>1, <1>2, <1>3 DEF Wire

(* Claims that name nothing are a grant's, and those that name a grant an    *)
(* answer's; claims are never None.                                          *)
LEMMA KindsOfClaims ==
    ASSUME NEW claims \in Claims
    PROVE  /\ claims.names = None => claims \in Grant
           /\ claims.names \in Grant => claims \in Answer
           /\ claims \in Grant => claims.names = None
           /\ claims \in Answer => claims.names \in Grant
<1>1. ASSUME NEW N, NEW M, claims \in Naming(N)
      PROVE  claims.names \in N /\ (claims.names \in M => claims \in Naming(M))
  BY <1>1 DEF Naming
<1>2. PICK N \in {{None}, Grant, Answer} : claims \in Naming(N)
  BY DEF Claims, Grant, Answer, AnswerToAnswer
<1>3. /\ claims.names \in N
      /\ claims.names = None => claims \in Naming({None})
      /\ claims.names \in Grant => claims \in Naming(Grant)
  BY <1>1, <1>2
<1>4. claims \in Naming({None}) => claims.names = None
  BY <1>1
<1>5. claims \in Naming(Grant) => claims.names \in Grant
  BY <1>1
<1> QED
  BY <1>3, <1>4, <1>5 DEF Grant, Answer

-----------------------------------------------------------------------------
(* The invariant.                                                           *)

\* Nothing has been sent yet.
LEMMA InitInv == Init => Inv
<1>1. ASSUME Init PROVE IsFiniteSet(sent) /\ Cardinality(sent) = 0
  BY <1>1, FS_EmptySet DEF Init
<1> QED
  BY <1>1, MaxDocumentsAssumption DEF Init, Inv, TypeOK, ProofsWereMade, AnswersMirror

(* One document more stays within the bound.                                *)
LEMMA OneMore ==
    ASSUME IsFiniteSet(sent), Cardinality(sent) < MaxDocuments, NEW document
    PROVE  /\ IsFiniteSet(sent \cup {document})
           /\ Cardinality(sent \cup {document}) <= MaxDocuments
<1>1. Cardinality(sent) \in Nat
  BY FS_CardinalityType
<1>2. /\ IsFiniteSet(sent \cup {document})
      /\ Cardinality(sent \cup {document}) =
           IF document \in sent THEN Cardinality(sent) ELSE Cardinality(sent) + 1
  BY FS_AddElement
<1> QED
  BY <1>1, <1>2, MaxDocumentsAssumption

(* Sending claims adds a document whose proof its key has made.             *)
LEMMA SendInv ==
    ASSUME Inv, NEW claims \in Claims, InForm(claims), NEW key \in Dids,
           NEW method \in Ref \cup {None}, NEW created \in {1, 2},
           Send(claims, key, method, created), answers' \subseteq Answer,
           AnswersMirror'
    PROVE  Inv'
<1> DEFINE document == [claims |-> claims,
                        proof  |-> [key |-> key, method |-> method,
                                    covers |-> claims, created |-> created]]
<1>1. /\ Cardinality(sent) < MaxDocuments
      /\ sent' = sent \cup {document}
      /\ signed' = signed \cup {<<key, claims>>}
  BY DEF Send
<1>2. document \in Document /\ document.claims = claims
  BY DEF Document, Proof
<1>3. document.proof.key = key /\ document.proof.covers = claims
  OBVIOUS
<1> HIDE DEF document
<1>4. sent' \subseteq Document /\ signed' \subseteq Dids \X Claims
  BY <1>1, <1>2 DEF Inv, TypeOK
<1>5. \A d \in sent' : InForm(d.claims)
  BY <1>1, <1>2 DEF Inv, TypeOK
<1>6. IsFiniteSet(sent') /\ Cardinality(sent') <= MaxDocuments
  BY <1>1, OneMore DEF Inv
<1>7. ProofsWereMade'
  BY <1>1, <1>3 DEF Inv, ProofsWereMade
<1> QED
  BY <1>4, <1>5, <1>6, <1>7 DEF Inv, TypeOK

(* Signing sends what the library writes.                                    *)
LEMMA SignInv ==
    ASSUME Inv, NEW claims \in Claims, NEW key \in Dids,
           NEW method \in Ref \cup {None},
           NEW created \in {1, 2}, Sign(claims, key, method, created),
           answers' \subseteq Answer, AnswersMirror'
    PROVE  Inv'
<1>1. Wire(claims) \in Claims /\ InForm(Wire(claims))
  BY WireTyped
<1>2. Send(Wire(claims), key, method, created)
  BY DEF Sign
<1> QED
  BY <1>1, <1>2, SendInv

\* A community that uses this library issues a grant.
LEMMA IssueGrantInv ==
    ASSUME Inv, NEW community \in Refs, NEW member \in Refs, NEW window \in Windows,
           IssueGrant(community, member, window)
    PROVE  Inv'
<1> DEFINE claims == [issuer |-> community, subject |-> member, public |-> TRUE,
                      ours |-> TRUE, from |-> window.from, until |-> window.until,
                      names |-> None]
<1>1. community \in Ref /\ community.did \in Dids /\ member \in Ref
  BY RefsAssumption DEF Ref
<1>2. claims \in Claims
  BY <1>1, WindowsAssumption DEF Claims, Grant, Naming
<1>3. Sign(claims, community.did, community, 1) /\ UNCHANGED answers
  BY DEF IssueGrant
<1> HIDE DEF claims
<1>4. answers' \subseteq Answer /\ AnswersMirror'
  BY <1>3 DEF Inv, TypeOK, AnswersMirror
<1> QED
  BY <1>1, <1>2, <1>3, <1>4, SignInv

\* A community that uses another implementation issues one.
LEMMA IssueTheirGrantInv ==
    ASSUME Inv, NEW community \in Refs, NEW member \in Refs, NEW window \in Windows,
           IssueTheirGrant(community, member, window)
    PROVE  Inv'
<1> DEFINE claims == [issuer |-> community, subject |-> member, public |-> TRUE,
                      ours |-> FALSE, from |-> window.from, until |-> window.until,
                      names |-> None]
<1>1. community \in Ref /\ community.did \in Dids /\ member \in Ref
  BY RefsAssumption DEF Ref
<1>2. claims \in Claims /\ InForm(claims)
  BY <1>1, WindowsAssumption DEF Claims, Grant, Naming, InForm
<1>3. Send(claims, community.did, community, 1) /\ UNCHANGED answers
  BY DEF IssueTheirGrant
<1> HIDE DEF claims
<1>4. answers' \subseteq Answer /\ AnswersMirror'
  BY <1>3 DEF Inv, TypeOK, AnswersMirror
<1> QED
  BY <1>1, <1>2, <1>3, <1>4, SendInv

\* A member answers a grant: what it built mirrors the grant.
LEMMA AcknowledgeInv ==
    ASSUME Inv, NEW grant \in sent, NEW member \in Refs, NEW public \in BOOLEAN,
           NEW window \in Windows, NEW at,
           Acknowledge(grant, member, public, window, at)
    PROVE  Inv'
<1> DEFINE ack == [issuer |-> member, subject |-> grant.claims.issuer,
                   public |-> public, ours |-> TRUE,
                   from |-> window.from, until |-> window.until,
                   names |-> Digest(grant)]
<1>1. member \in Ref /\ member.did \in Dids
  BY RefsAssumption DEF Ref
<1>2. grant.claims \in Grant
  <2>1. grant.claims \in Claims /\ grant.claims.names = None
    BY DEF Acknowledge, Inv, TypeOK, Document
  <2> QED
    BY <2>1, KindsOfClaims
<1>3. /\ grant.claims.names = None
      /\ grant.claims.public
      /\ grant.claims.subject = member
      /\ WithinGrant(window.until, grant.claims.until)
      /\ Sign(ack, member.did, member, 1)
      /\ answers' = answers \cup {Wire(ack)}
  BY DEF Acknowledge
<1>4. /\ ack \in Claims
      /\ ack.issuer = member
      /\ ack.subject = grant.claims.issuer
      /\ ack.until = window.until
      /\ ack.names = grant.claims
  BY <1>1, <1>2, WindowsAssumption DEF Claims, Answer, Digest, Grant, Naming
<1>w. window.until \in Nat \cup {None}
  BY WindowsAssumption
<1> HIDE DEF ack
<1>5. /\ Wire(ack) \in Claims
      /\ Wire(ack).issuer = member
      /\ Wire(ack).subject = grant.claims.issuer
      /\ Wire(ack).until = WholeSecondOption(window.until)
      /\ Wire(ack).names = grant.claims
  BY <1>4, WireTyped
<1>6. Wire(ack) \in Answer
  BY <1>2, <1>5, KindsOfClaims
<1>7. grant.claims.until # None =>
        /\ WholeSecondOption(window.until) # None
        /\ WholeSecondOption(window.until) <= grant.claims.until
  <2> SUFFICES ASSUME grant.claims.until # None
               PROVE  /\ WholeSecondOption(window.until) # None
                      /\ WholeSecondOption(window.until) <= grant.claims.until
    OBVIOUS
  <2>1. grant.claims.until \in Nat
    BY <1>2 DEF Grant, Naming
  <2>2. window.until # None
        /\ WholeSecond(window.until) <= WholeSecond(grant.claims.until)
    BY <1>3 DEF WithinGrant
  <2>3. /\ WholeSecond(grant.claims.until) \in Nat
        /\ WholeSecond(grant.claims.until) <= grant.claims.until
    BY <2>1, WholeSecondIsWhole
  <2>4. WholeSecond(window.until) \in Nat
    BY <1>w, <2>2, WholeSecondIsWhole
  <2> QED
    BY <2>1, <2>2, <2>3, <2>4, NoneAssumption DEF WholeSecondOption
<1>8. Mirrors(Wire(ack), Wire(ack).names)
  BY <1>3, <1>5, <1>7 DEF Mirrors
<1>9. answers' \subseteq Answer /\ AnswersMirror'
  BY <1>3, <1>6, <1>8 DEF AnswersMirror, Inv, TypeOK
<1> QED
  BY <1>1, <1>3, <1>4, <1>9, SignInv

\* A member answers with another implementation.
LEMMA AnswerTheirWayInv ==
    ASSUME Inv, NEW document \in sent, AnswerTheirWay(document)
    PROVE  Inv'
<1> DEFINE member == document.claims.subject
           ack == [document.claims EXCEPT !.issuer  = member,
                                          !.subject = document.claims.issuer,
                                          !.names   = Digest(document)]
<1>1. document.claims \in Grant \cup Answer
      /\ Send(Wire(ack), member.did, member, 1) /\ UNCHANGED answers
  BY DEF AnswerTheirWay
<1>2. /\ member \in Ref /\ member.did \in Dids
      /\ document.claims.issuer \in Ref
  BY <1>1 DEF Grant, Answer, Naming, Ref
<1>3. ack \in Claims
  <2>1. CASE document.claims \in Grant
    BY <1>2, <2>1 DEF Digest, Claims, Grant, Answer, Naming
  <2>2. CASE document.claims \in Answer
    BY <1>2, <2>2 DEF Digest, Claims, Answer, AnswerToAnswer, Naming
  <2> QED
    BY <1>1, <2>1, <2>2
<1> HIDE DEF ack
<1>4. Wire(ack) \in Claims /\ InForm(Wire(ack))
  BY <1>3, WireTyped
<1>5. answers' \subseteq Answer /\ AnswersMirror'
  BY <1>1 DEF Inv, TypeOK, AnswersMirror
<1> QED
  BY <1>1, <1>2, <1>4, <1>5, SendInv

\* A document is signed once more.
LEMMA SignAgainInv ==
    ASSUME Inv, NEW document \in sent, NEW signer \in Refs,
           NEW method \in {signer, None}, SignAgain(document, signer, method)
    PROVE  Inv'
<1>1. method \in Ref \cup {None} /\ signer.did \in Dids
  BY RefsAssumption DEF Ref
<1>2. document.claims \in Claims
  BY DEF Inv, TypeOK, Document
<1>3. Sign(document.claims, signer.did, method, 2) /\ UNCHANGED answers
  BY DEF SignAgain
<1>4. answers' \subseteq Answer /\ AnswersMirror'
  BY <1>3 DEF Inv, TypeOK, AnswersMirror
<1> QED
  BY <1>1, <1>2, <1>3, <1>4, SignInv

(* Members may be changed, never the claims a proof covers.                  *)
LEMMA AmendInv ==
    ASSUME Inv, NEW document \in sent,
           NEW claims \in Amended(document.claims) \cup Respelled(document.claims),
           Amend(document, claims)
    PROVE  Inv'
<1> DEFINE amended == [document EXCEPT !.claims = claims]
           model == Wire(document.claims)
<1>1. document \in Document /\ document.claims \in Claims
  BY DEF Inv, TypeOK, Document
<1>2. claims \in Claims /\ InForm(claims)
  <2>1. CASE claims \in Respelled(document.claims)
    BY <2>1, <1>1 DEF Respelled, InForm, Claims, Grant, Answer, AnswerToAnswer, Naming
  <2>2. CASE claims \in Amended(document.claims)
    <3>1. model \in Claims /\ InForm(model)
      BY <1>1, WireTyped
    <3>2. \/ claims = model
          \/ claims = [model EXCEPT !.until = None]
          \/ claims = [model EXCEPT !.names = None]
          \/ \E ref \in Refs : claims = [model EXCEPT !.subject = ref]
      BY <2>2 DEF Amended
    <3> HIDE DEF model
    <3>3. ASSUME NEW ref \in Refs, claims = [model EXCEPT !.subject = ref]
          PROVE  claims \in Claims /\ InForm(claims)
      BY <3>1, <3>3, RefsAssumption DEF Claims, Grant, Answer, AnswerToAnswer, Naming, InForm
    <3>4. CASE claims = [model EXCEPT !.until = None]
      BY <3>1, <3>4 DEF Claims, Grant, Answer, AnswerToAnswer, Naming, InForm
    <3>5. CASE claims = [model EXCEPT !.names = None]
      BY <3>1, <3>5 DEF Claims, Grant, Answer, AnswerToAnswer, Naming, InForm
    <3> QED
      BY <3>1, <3>2, <3>3, <3>4, <3>5
  <2> QED
    BY <2>1, <2>2
<1>3. /\ amended \in Document /\ amended.proof = document.proof
      /\ InForm(amended.claims)
  BY <1>1, <1>2 DEF Document
<1>4. /\ Cardinality(sent) < MaxDocuments
      /\ sent' = sent \cup {amended}
      /\ UNCHANGED <<signed, answers>>
  BY DEF Amend
<1> HIDE DEF amended
<1>5. IsFiniteSet(sent') /\ Cardinality(sent') <= MaxDocuments
  BY <1>4, OneMore DEF Inv
<1>6. ProofsWereMade'
  BY <1>3, <1>4 DEF Inv, ProofsWereMade
<1> QED
  BY <1>3, <1>4, <1>5, <1>6 DEF Inv, TypeOK, AnswersMirror

\* Every step, and every stuttering step, preserves the invariant.
LEMMA NextInv == Inv /\ [Next]_vars => Inv'
<1> SUFFICES ASSUME Inv, [Next]_vars PROVE Inv'
  OBVIOUS
<1>1. CASE \E pair \in Pairs, window \in Windows :
             IssueGrant(pair[1], pair[2], window)
  BY <1>1, PairsAssumption, IssueGrantInv
<1>2. CASE \E grant \in sent, member \in Refs, public \in BOOLEAN,
              window \in Windows, at \in Instants :
             Acknowledge(grant, member, public, window, at)
  BY <1>2, AcknowledgeInv
<1>3. CASE \E document \in sent, signer \in Refs :
             \E method \in {signer, None} : SignAgain(document, signer, method)
  BY <1>3, SignAgainInv
<1>4. CASE \E document \in sent :
             \E claims \in Amended(document.claims) \cup Respelled(document.claims) :
                Amend(document, claims)
  BY <1>4, AmendInv
<1>6. CASE \E pair \in Pairs, window \in Windows :
             IssueTheirGrant(pair[1], pair[2], window)
  BY <1>6, PairsAssumption, IssueTheirGrantInv
<1>7. CASE \E document \in sent : AnswerTheirWay(document)
  BY <1>7, AnswerTheirWayInv
<1>5. CASE Full \/ UNCHANGED vars
  BY <1>5 DEF Full, vars, Inv, TypeOK, ProofsWereMade, AnswersMirror
<1> QED
  BY <1>1, <1>2, <1>3, <1>4, <1>5, <1>6, <1>7 DEF Next

(* The invariant holds whatever is sent, signed, answered and amended.       *)
THEOREM InvHolds == Spec => []Inv
  BY InitInv, NextInv, PTL DEF Spec

-----------------------------------------------------------------------------
(* What it gives.                                                           *)

(* Documents, signatures and answers keep their form.                        *)
THEOREM TypeCorrect == Spec => []TypeOK
<1>1. Inv => TypeOK
  BY DEF Inv
<1> QED
  BY <1>1, InvHolds, PTL

(* A complete edge was made by both of its parties: the community signed     *)
(* those claims and the member signed an answer to them and no others.       *)
THEOREM EdgesAreMutual == Spec => []EdgeIsMutual
<1>1. ASSUME Inv PROVE EdgeIsMutual
  <2> SUFFICES ASSUME NEW ack \in sent, NEW grant \in sent, NEW at \in Instants,
                      Complete(ack, grant, at)
               PROVE  /\ <<grant.claims.issuer.did, grant.claims>> \in signed
                      /\ <<grant.claims.subject.did, Wire(ack.claims)>> \in signed
                      /\ ack.claims.subject.did = grant.claims.issuer.did
                      /\ ack.claims.names = Wire(grant.claims)
    BY DEF EdgeIsMutual
  <2>1. <<grant.proof.key, grant.proof.covers>> \in signed
        /\ <<ack.proof.key, ack.proof.covers>> \in signed
    BY <1>1 DEF Inv, ProofsWereMade
  <2>2. grant.proof.key = grant.claims.issuer.did /\ grant.proof.covers = grant.claims
    BY DEF Complete, VerifyGrant, SignatureHolds, FromIssuer
  <2>3. ack.proof.key = ack.claims.issuer.did /\ ack.proof.covers = Wire(ack.claims)
    BY DEF Complete, VerifyProof, SignatureHolds, FromIssuer
  <2>4. /\ ack.claims.issuer.did = grant.claims.subject.did
        /\ ack.claims.subject.did = grant.claims.issuer.did
        /\ ack.claims.names = Wire(grant.claims)
    BY DEF Complete, Acknowledges, SameReference, ModelDigest
  <2> QED
    BY <2>1, <2>2, <2>3, <2>4
<1> QED
  BY <1>1, InvHolds, PTL

(* An answer completes the edge with every proof its community makes over    *)
(* the claims it answered, if and only if these were in this library's form. *)
THEOREM AnswersAlwaysComplete == Spec => []AnswersComplete
<1>1. ASSUME Inv PROVE AnswersComplete
  <2> SUFFICES ASSUME NEW ack \in sent, NEW grant \in sent, NEW answered \in sent,
                      Wire(ack.claims) \in answers,
                      VerifyProof(ack),
                      ack.claims.names = Digest(answered),
                      Wire(answered.claims) = Wire(grant.claims),
                      NEW at \in Instants,
                      VerifyGrant(grant, at), InForce(ack.claims, at)
               PROVE  Complete(ack, grant, at) <=> answered.claims.ours
    BY DEF AnswersComplete
  <2>1. /\ ack.claims \in Claims /\ grant.claims \in Claims
        /\ answered.claims \in Claims /\ InForm(answered.claims)
    BY <1>1 DEF Inv, TypeOK, Document
  <2>2. ack.claims.names = answered.claims
    BY DEF Digest
  <2>3. CASE answered.claims.ours
    <3>1. Wire(answered.claims) = answered.claims
      BY <2>1, <2>3, FormIsWire
    <3>2. ack.claims.names = Wire(grant.claims)
      BY <2>2, <3>1
    <3>3. Mirrors(Wire(ack.claims), Wire(ack.claims).names)
      BY <1>1 DEF Inv, AnswersMirror
    <3>4. /\ grant.claims.names = None
          /\ grant.claims.public
          /\ ack.claims.issuer = grant.claims.subject
          /\ ack.claims.subject = grant.claims.issuer
      BY <2>1, <3>2, <3>3, WireTyped DEF Mirrors
    <3>5. Acknowledges(ack, grant)
      BY <3>2, <3>4
         DEF Acknowledges, Conforms, VerifyProof, Valid, SameReference, ModelDigest
    <3> QED
      BY <2>3, <3>5 DEF Complete
  <2>4. CASE ~ answered.claims.ours
    <3>1. Wire(grant.claims).ours
      BY <2>1, WireTyped
    <3>2. ack.claims.names # ModelDigest(grant)
      BY <2>2, <2>4, <3>1 DEF ModelDigest
    <3> QED
      BY <2>4, <3>2 DEF Complete, Acknowledges
  <2> QED
    BY <2>3, <2>4
<1> QED
  BY <1>1, InvHolds, PTL

(* Consent to a membership ends with the membership.                         *)
THEOREM AnswersEndWithGrants == Spec => []AnswerEndsWithGrant
<1>1. ASSUME Inv PROVE AnswerEndsWithGrant
  <2> SUFFICES ASSUME NEW ack \in sent, NEW grant \in sent,
                      Wire(ack.claims) \in answers,
                      Acknowledges(ack, grant),
                      grant.claims.until # None
               PROVE  /\ ack.claims.until # None
                      /\ WholeSecond(ack.claims.until) <= grant.claims.until
    BY DEF AnswerEndsWithGrant
  <2>1. ack.claims \in Claims /\ grant.claims \in Claims
    BY <1>1 DEF Inv, TypeOK, Document
  <2>2. /\ ack.claims.until \in Nat \cup {None}
        /\ grant.claims.until \in Nat
    BY <2>1 DEF Claims, Grant, Answer, AnswerToAnswer, Naming
  <2>3. /\ Wire(ack.claims).names = Wire(grant.claims)
        /\ Wire(ack.claims).until = WholeSecondOption(ack.claims.until)
        /\ Wire(grant.claims).until = WholeSecond(grant.claims.until)
    BY <2>1, WireTyped DEF Acknowledges, ModelDigest, WholeSecondOption
  <2>4. WholeSecond(grant.claims.until) \in Nat
        /\ WholeSecond(grant.claims.until) <= grant.claims.until
    BY <2>2, WholeSecondIsWhole
  <2>5. Mirrors(Wire(ack.claims), Wire(grant.claims))
    BY <1>1, <2>3 DEF Inv, AnswersMirror
  <2>6. /\ WholeSecondOption(ack.claims.until) # None
        /\ WholeSecondOption(ack.claims.until) <= WholeSecond(grant.claims.until)
    BY <2>3, <2>4, <2>5, NoneAssumption DEF Mirrors
  <2>7. ack.claims.until # None /\ WholeSecond(ack.claims.until) \in Nat
    BY <2>2, <2>6, WholeSecondIsWhole DEF WholeSecondOption
  <2> QED
    BY <2>2, <2>4, <2>6, <2>7 DEF WholeSecondOption
<1> QED
  BY <1>1, InvHolds, PTL

(* What answers a grant is never itself answered, whoever wrote and signed   *)
(* the documents: no edge is read off two answers.                           *)
THEOREM HalvesAlwaysApart == Spec => []HalvesStayApart
<1>1. ASSUME Inv PROVE HalvesStayApart
  <2> SUFFICES ASSUME NEW ack \in sent, NEW grant \in sent,
                      Acknowledges(ack, grant)
               PROVE  /\ \A other \in sent : ~ Acknowledges(other, ack)
                      /\ \A answer \in answers : answer.names # Digest(ack)
    BY DEF HalvesStayApart
  <2>1. ack.claims \in Claims /\ grant.claims \in Claims
    BY <1>1 DEF Inv, TypeOK, Document
  <2>2. Wire(grant.claims) \in Grant
    <3>1. Wire(grant.claims) \in Claims /\ Wire(grant.claims).names = None
      BY <2>1, WireTyped DEF Acknowledges
    <3> QED
      BY <3>1, KindsOfClaims
  <2>3. ack.claims.names # None
    BY <2>2, NoneIsNoClaims DEF Acknowledges, ModelDigest
  <2>4. ASSUME NEW answer \in answers PROVE answer.names # Digest(ack)
    <3>1. answer \in Claims /\ answer.names \in Claims /\ answer.names.names = None
      BY <1>1, KindsOfClaims DEF Inv, AnswersMirror, Mirrors, TypeOK, Claims, Answer, Naming
    <3> QED
      BY <2>3, <3>1 DEF Digest
  <2> QED
    BY <2>3, <2>4 DEF Acknowledges
<1> QED
  BY <1>1, InvHolds, PTL
=============================================================================
