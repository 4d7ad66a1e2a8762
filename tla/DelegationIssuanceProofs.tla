---------------------- MODULE DelegationIssuanceProofs ----------------------
(***************************************************************************)
(* What the constructors of VDCs keep over any number of documents, built  *)
(* here or received, in whatever order.                                    *)
(***************************************************************************)
EXTENDS DelegationIssuance, DTGBaseProofs, SequenceTheorems

-----------------------------------------------------------------------------
(* Digests.                                                                 *)

LEMMA MinIsSmallest ==
    ASSUME NEW T, T \subseteq Nat, T # {}
    PROVE  Min(T) \in T /\ \A y \in T : Min(T) <= y
BY SmallestExists DEF Min

\* The digest of what document i claims, as a name: the position at which those
\* claims are first found.  It stays what it is as the documents grow in number.
NamesClaims(vdcs, named, i) ==
    \E p \in DOMAIN vdcs :
        /\ named = Name(<<p, "model">>)
        /\ Claims(vdcs[p]) = Claims(vdcs[i])
        /\ \A q \in 1 .. p - 1 : Claims(vdcs[q]) # Claims(vdcs[i])

LEMMA ModelDigestFirst ==
    ASSUME ledger \in Seq(Vdc), NEW i \in DOMAIN ledger
    PROVE  \E p \in DOMAIN ledger :
             /\ ModelDigest(i) = <<p, "model">>
             /\ Claims(ledger[p]) = Claims(ledger[i])
             /\ \A q \in 1 .. p - 1 : Claims(ledger[q]) # Claims(ledger[i])
<1> DEFINE I == {j \in 1 .. Len(ledger) : Claims(ledger[j]) = Claims(ledger[i])}
<1>1. DOMAIN ledger = 1 .. Len(ledger) /\ Len(ledger) \in Nat
  OBVIOUS
<1>2. i \in I /\ I \subseteq Nat
  BY <1>1
<1>3. Min(I) \in I /\ \A y \in I : Min(I) <= y
  <2> HIDE DEF I
  <2> QED
    BY <1>2, MinIsSmallest
<1>4. ModelDigest(i) = <<Min(I), "model">>
  <2>1. I # {}
    BY <1>2
  <2> QED
    BY <2>1 DEF ModelDigest, SelectInSeq
<1> DEFINE p == Min(I)
<1>5. p \in DOMAIN ledger /\ Claims(ledger[p]) = Claims(ledger[i])
  BY <1>1, <1>3
<1>6. ASSUME NEW q \in 1 .. p - 1, Claims(ledger[q]) = Claims(ledger[i])
      PROVE  FALSE
  <2>1. p \in 1 .. Len(ledger)
    BY <1>1, <1>5
  <2> HIDE DEF p
  <2>2. q \in 1 .. Len(ledger) /\ ~ (p <= q)
    BY <1>1, <2>1
  <2>3. q \in I
    BY <1>6, <2>2
  <2> HIDE DEF I
  <2> QED
    BY <1>3, <2>2, <2>3 DEF p
<1> HIDE DEF p
<1>7. \A q \in 1 .. p - 1 : Claims(ledger[q]) # Claims(ledger[i])
  BY <1>6
<1> QED
  BY <1>4, <1>5, <1>7 DEF p

\* A document is named by the digest a verifier recomputes of it.
LEMMA NamedIsRecomputed ==
    ASSUME ledger \in Seq(Vdc), NEW i \in DOMAIN ledger, NEW named
    PROVE  NamesClaims(ledger, named, i) <=> named = Name(ModelDigest(i))
<1>1. PICK p \in DOMAIN ledger :
        /\ ModelDigest(i) = <<p, "model">>
        /\ Claims(ledger[p]) = Claims(ledger[i])
        /\ \A q \in 1 .. p - 1 : Claims(ledger[q]) # Claims(ledger[i])
  BY ModelDigestFirst
<1>2. ASSUME named = Name(ModelDigest(i))
      PROVE  NamesClaims(ledger, named, i)
  BY <1>1, <1>2 DEF NamesClaims
<1>3. ASSUME NamesClaims(ledger, named, i)
      PROVE  named = Name(ModelDigest(i))
  <2>1. PICK r \in DOMAIN ledger :
          /\ named = Name(<<r, "model">>)
          /\ Claims(ledger[r]) = Claims(ledger[i])
          /\ \A q \in 1 .. r - 1 : Claims(ledger[q]) # Claims(ledger[i])
    BY <1>3 DEF NamesClaims
  <2>2. p \in Nat \ {0} /\ r \in Nat \ {0}
    OBVIOUS
  <2>3. p \notin 1 .. r - 1 /\ r \notin 1 .. p - 1
    BY <1>1, <2>1
  <2>4. p = r
    BY <2>2, <2>3
  <2> QED
    BY <1>1, <2>1, <2>4
<1> QED
  BY <1>2, <1>3

LEMMA DigestsTyped ==
    ASSUME ledger \in Seq(Vdc), Len(ledger) <= MaxVdcs, NEW i \in DOMAIN ledger
    PROVE  /\ ModelDigest(i) \in Digests
           /\ Name(ModelDigest(i)) \in Named
           /\ Name(WireDigest(i)) \in Named
<1>1. i \in 1 .. MaxVdcs /\ DOMAIN ledger \subseteq 1 .. MaxVdcs
  BY MaxVdcsAssumption
<1>2. PICK p \in DOMAIN ledger : ModelDigest(i) = <<p, "model">>
  BY ModelDigestFirst
<1>3. ModelDigest(i) \in Digests /\ <<i, "wire">> \in Digests
  BY <1>1, <1>2, InputsAssumption
<1>4. WireDigest(i) \in Digests
  BY <1>3 DEF WireDigest
<1> QED
  BY <1>3, <1>4 DEF Name, Named

-----------------------------------------------------------------------------
(* The invariant: what a document keeps of the one it was made over.        *)

Narrower(child, parent) ==
    /\ child.issuer = parent.subject
    /\ child.scope # {} /\ child.scope \subseteq parent.scope
    /\ child.maxDepth \in Nat /\ child.maxDepth + 1 = Budget(parent)
    /\ child.until \in Nat
    /\ parent.until \in Nat => WholeSecond(child.until) <= WholeSecond(parent.until)

\* A grant as this library writes it, whatever it is derived from.
Granting(vdc) ==
    /\ vdc.accepts = None
    /\ vdc.scope \in SUBSET Acts /\ vdc.scope # {}
    /\ vdc.until \in Nat

InOrder(vdcs, vdc) ==
    /\ vdc.over # 0 =>
          vdc.over \in DOMAIN vdcs /\ Parsed(vdcs[vdc.over].accepts) = None
    /\ vdc.by = "new_vdc" => Granting(vdc) /\ vdc.parent = None
    /\ vdc.by \in {"redelegate", "redelegate_from_json"} =>
          /\ vdc.over # 0 /\ Granting(vdc) /\ Narrower(vdc, vdcs[vdc.over])
          /\ (vdc.by = "redelegate" \/ vdcs[vdc.over].ours) =>
                NamesClaims(vdcs, vdc.parent, vdc.over)
    /\ vdc.by = "new_delegate_vdc_for" =>
          /\ vdc.over # 0 /\ vdc.until \in Nat
          /\ WithinGrant(vdc.until, vdcs[vdc.over])
          /\ \/ NamesClaims(vdcs, vdc.accepts, vdc.over)
             \/ vdc.accepts = Name(<<vdc.over, "wire">>)

IInv == TypeOK /\ \A i \in DOMAIN ledger : InOrder(ledger, ledger[i])

\* A document in order, put at the end of the ledger, leaves all in order.
LEMMA WriteInvariant ==
    ASSUME IInv, NEW vdc \in Vdc, InOrder(ledger, vdc), Write(vdc)
    PROVE  IInv'
<1>1. /\ ledger \in Seq(Vdc) /\ Len(ledger) \in Nat
      /\ \A i \in DOMAIN ledger : ledger[i].over < i
      /\ DOMAIN ledger = 1 .. Len(ledger)
  BY DEF IInv, TypeOK
<1>2. Len(ledger) < MaxVdcs /\ ledger' = Append(ledger, vdc)
  BY DEF Write
<1>3. /\ ledger' \in Seq(Vdc) /\ Len(ledger') = Len(ledger) + 1
      /\ \A i \in 1 .. Len(ledger) : ledger'[i] = ledger[i]
      /\ ledger'[Len(ledger) + 1] = vdc
  BY <1>1, <1>2, AppendProperties
<1>4. DOMAIN ledger' = 1 .. Len(ledger) + 1
  BY <1>1, <1>3
<1>5. \A i \in DOMAIN ledger' :
         \/ i \in DOMAIN ledger /\ ledger'[i] = ledger[i]
         \/ i = Len(ledger) + 1 /\ ledger'[i] = vdc
  BY <1>1, <1>3, <1>4
<1>6. vdc.over \in Nat /\ vdc.over < Len(ledger) + 1
  <2>1. vdc.over \in Nat
    BY DEF Vdc
  <2> QED
    BY <1>1, <2>1 DEF InOrder
<1>7. TypeOK'
  <2>1. \A i \in DOMAIN ledger' : ledger'[i].over < i
    BY <1>1, <1>5, <1>6
  <2>2. Len(ledger') <= MaxVdcs
    BY <1>1, <1>2, <1>3, MaxVdcsAssumption
  <2> QED
    BY <1>3, <2>1, <2>2 DEF TypeOK
<1>8. ASSUME NEW v, InOrder(ledger, v)
      PROVE  InOrder(ledger', v)
  <2>1. v.over # 0 => /\ v.over \in DOMAIN ledger'
                      /\ ledger'[v.over] = ledger[v.over]
    BY <1>1, <1>3, <1>4, <1>8 DEF InOrder
  <2>2. ASSUME NEW named, v.over # 0, NamesClaims(ledger, named, v.over)
        PROVE  NamesClaims(ledger', named, v.over)
    <3>1. PICK p \in DOMAIN ledger :
            /\ named = Name(<<p, "model">>)
            /\ Claims(ledger[p]) = Claims(ledger[v.over])
            /\ \A q \in 1 .. p - 1 : Claims(ledger[q]) # Claims(ledger[v.over])
      BY <2>2 DEF NamesClaims
    <3>2. p \in DOMAIN ledger' /\ \A q \in 1 .. p : ledger'[q] = ledger[q]
      BY <1>1, <1>3, <1>4
    <3>3. ledger'[p] = ledger[p] /\ \A q \in 1 .. p - 1 : ledger'[q] = ledger[q]
      BY <1>1, <3>2
    <3> QED
      BY <2>1, <2>2, <3>1, <3>2, <3>3 DEF NamesClaims
  <2> QED
    BY <1>8, <2>1, <2>2 DEF InOrder
<1>9. \A i \in DOMAIN ledger' : InOrder(ledger', ledger'[i])
  <2>1. \A i \in DOMAIN ledger' : InOrder(ledger, ledger'[i])
    BY <1>5 DEF IInv
  <2> QED
    BY <1>8, <2>1
<1> QED
  BY <1>7, <1>9 DEF IInv

-----------------------------------------------------------------------------
(* The constructors.                                                        *)

LEMMA InputsTyped ==
    /\ \A window \in Windows : window.from \in Nat /\ window.until \in Nat
    /\ \A subject \in Delegates : subject \in Ref
    /\ \A issuer \in Principals : issuer \in Ref
    /\ \A scope \in ScopeLists : scope \in SUBSET Acts
    /\ \A maxDepth \in Budgets : maxDepth \in Nat \cup {None}
BY InputsAssumption

LEMMA LedgerTyped ==
    ASSUME IInv, NEW i \in DOMAIN ledger
    PROVE  /\ ledger \in Seq(Vdc) /\ Len(ledger) <= MaxVdcs
           /\ ledger[i] \in Vdc /\ i \in Nat /\ i # 0
           /\ ledger[i].issuer \in Ref /\ ledger[i].subject \in Ref
           /\ ledger[i].until \in Nat \cup {None, Null, Garbled}
           /\ ledger[i].scope \in {None, Null} \cup SUBSET Acts
           /\ ledger[i].maxDepth \in Nat \cup {None}
           /\ Name(ModelDigest(i)) \in Named
           /\ Name(WireDigest(i)) \in Named
<1>1. /\ ledger \in Seq(Vdc) /\ Len(ledger) <= MaxVdcs
      /\ ledger[i] \in Vdc /\ i \in Nat /\ i # 0
  BY DEF IInv, TypeOK
<1>2. Name(ModelDigest(i)) \in Named /\ Name(WireDigest(i)) \in Named
  BY <1>1, DigestsTyped
<1> QED
  BY <1>1, <1>2 DEF Vdc

LEMMA IssueGrantInvariant ==
    ASSUME IInv, IssueGrant
    PROVE  IInv'
<1>1. PICK issuer \in Principals, subject \in Delegates, scope \in ScopeLists,
           window \in Windows, maxDepth \in Budgets :
        NewVdc(issuer, subject, scope, window, maxDepth)
  BY DEF IssueGrant
<1> DEFINE vdc == [issuer |-> issuer, subject |-> subject,
                   from |-> window.from, until |-> window.until,
                   scope |-> scope, maxDepth |-> maxDepth,
                   parent |-> None, accepts |-> None,
                   ours |-> TRUE, over |-> 0, by |-> "new_vdc"]
<1>2. Write(vdc) /\ scope # {}
  BY <1>1 DEF NewVdc
<1>3. vdc \in Vdc
  BY InputsTyped DEF Vdc
<1>4. Granting(vdc)
  BY <1>2, InputsTyped DEF Granting
<1>5. InOrder(ledger, vdc)
  BY <1>4 DEF InOrder
<1> HIDE DEF vdc
<1> QED
  BY <1>2, <1>3, <1>5, WriteInvariant

LEMMA ReceiveInvariant ==
    ASSUME IInv, ReceiveDocument
    PROVE  IInv'
<1>1. \A vdc \in Received : vdc \in Vdc /\ vdc.over = 0 /\ vdc.by = "received"
  BY InputsAssumption
<1>2. ASSUME NEW vdc \in Vdc, vdc.over = 0, vdc.by = "received", Receive(vdc)
      PROVE  IInv'
  <2>1. InOrder(ledger, vdc)
    BY <1>2 DEF InOrder
  <2> QED
    BY <1>2, <2>1, WriteInvariant DEF Receive
<1>3. ASSUME NEW vdc \in Received, NEW i \in DOMAIN ledger,
             Receive([vdc EXCEPT !.accepts = Name(WireDigest(i)),
                                 !.issuer  = ledger[i].subject,
                                 !.subject = ledger[i].issuer])
      PROVE  IInv'
  <2> DEFINE answer == [vdc EXCEPT !.accepts = Name(WireDigest(i)),
                                   !.issuer  = ledger[i].subject,
                                   !.subject = ledger[i].issuer]
  <2>1. /\ ledger[i].issuer \in Ref /\ ledger[i].subject \in Ref
        /\ Name(WireDigest(i)) \in Named
    BY LedgerTyped
  <2>2. answer \in Vdc /\ answer.over = 0 /\ answer.by = "received"
    BY <1>1, <2>1 DEF Vdc
  <2> HIDE DEF answer
  <2> QED
    BY <1>2, <1>3, <2>2 DEF answer
<1> QED
  BY <1>1, <1>2, <1>3 DEF ReceiveDocument

\* What both re-delegations share: `until` is the parent's end as it is read.
LEMMA RedelegateInnerInvariant ==
    ASSUME IInv, NEW i \in DOMAIN ledger, NEW until, NEW digest,
           Name(digest) \in Named,
           NEW subject \in Delegates, NEW scope \in ScopeLists,
           NEW window \in Windows,
           NEW by \in {"redelegate", "redelegate_from_json"},
           (by = "redelegate" \/ ledger[i].ours) => digest = ModelDigest(i),
           ledger[i].until \in Nat =>
              until \in Nat /\ WholeSecond(until) <= WholeSecond(ledger[i].until),
           RedelegateInner(i, until, digest, subject, scope, window, by)
    PROVE  IInv'
<1>1. /\ ledger[i] \in Vdc /\ i \in Nat /\ i # 0 /\ ledger[i].subject \in Ref
      /\ ledger[i].scope \in {None, Null} \cup SUBSET Acts
      /\ ledger[i].maxDepth \in Nat \cup {None}
  BY LedgerTyped
<1>2. /\ Parsed(ledger[i].accepts) = None
      /\ scope # {} /\ scope \subseteq ledger[i].scope
      /\ until # None => window.until <= until
  BY DEF RedelegateInner
<1>3. PICK maxDepth \in BudgetBelow(ledger[i]) :
        Write([issuer |-> ledger[i].subject, subject |-> subject,
               from |-> window.from, until |-> window.until,
               scope |-> scope, maxDepth |-> maxDepth,
               parent |-> Name(digest), accepts |-> None,
               ours |-> TRUE, over |-> i, by |-> by])
  BY DEF RedelegateInner
<1> DEFINE vdc == [issuer |-> ledger[i].subject, subject |-> subject,
                   from |-> window.from, until |-> window.until,
                   scope |-> scope, maxDepth |-> maxDepth,
                   parent |-> Name(digest), accepts |-> None,
                   ours |-> TRUE, over |-> i, by |-> by]
<1>4. maxDepth \in Nat /\ maxDepth + 1 = Budget(ledger[i])
  <2>1. Budget(ledger[i]) \in Nat
    BY <1>1 DEF Budget
  <2>2. Budget(ledger[i]) # 0 /\ maxDepth = Budget(ledger[i]) - 1
    BY <1>3 DEF BudgetBelow
  <2> QED
    BY <2>1, <2>2
<1>5. window.from \in Nat /\ window.until \in Nat /\ subject \in Ref
      /\ scope \in SUBSET Acts
  BY InputsTyped
<1>6. vdc \in Vdc
  BY <1>1, <1>4, <1>5 DEF Vdc
<1>7. ledger[i].until \in Nat =>
         WholeSecond(window.until) <= WholeSecond(ledger[i].until)
  <2> SUFFICES ASSUME ledger[i].until \in Nat
               PROVE  WholeSecond(window.until) <= WholeSecond(ledger[i].until)
    OBVIOUS
  <2>1. until \in Nat /\ WholeSecond(until) <= WholeSecond(ledger[i].until)
    OBVIOUS
  <2>2. window.until <= until
    BY <1>2, <2>1, NoneAssumption
  <2>3. WholeSecond(window.until) <= WholeSecond(until)
    BY <1>5, <2>1, <2>2, WholeSecondMonotone
  <2>4. WholeSecond(window.until) \in Nat /\ WholeSecond(until) \in Nat
        /\ WholeSecond(ledger[i].until) \in Nat
    BY <1>5, <2>1, WholeSecondMonotone
  <2> QED
    BY <2>1, <2>3, <2>4
<1>8. Narrower(vdc, ledger[i])
  BY <1>2, <1>4, <1>5, <1>7 DEF Narrower
<1>9. Granting(vdc)
  BY <1>2, <1>5 DEF Granting
<1>10. (by = "redelegate" \/ ledger[i].ours) => NamesClaims(ledger, vdc.parent, i)
  BY NamedIsRecomputed DEF IInv, TypeOK
<1>11. InOrder(ledger, vdc)
  BY <1>1, <1>2, <1>8, <1>9, <1>10 DEF InOrder
<1>12. Write(vdc)
  BY <1>3
<1> HIDE DEF vdc
<1> QED
  BY <1>6, <1>11, <1>12, WriteInvariant

LEMMA DeriveInvariant ==
    ASSUME IInv, Derive
    PROVE  IInv'
<1>1. PICK i \in DOMAIN ledger, subject \in Delegates, scope \in ScopeLists,
           window \in Windows :
        \/ Redelegate(i, subject, scope, window)
        \/ RedelegateFromJson(i, subject, scope, window)
  BY DEF Derive
<1>2. Name(ModelDigest(i)) \in Named /\ Name(WireDigest(i)) \in Named
  BY LedgerTyped
<1>3. CASE Redelegate(i, subject, scope, window)
  <2> DEFINE until == Parsed(ledger[i].until)
  <2>1. ledger[i].until \in Nat =>
           until \in Nat /\ WholeSecond(until) <= WholeSecond(ledger[i].until)
    <3>1. ledger[i].until \in Nat => until = ledger[i].until
      BY MembersAssumption DEF Parsed
    <3> QED
      BY <3>1, WholeSecondMonotone
  <2>2. RedelegateInner(i, until, ModelDigest(i), subject, scope, window, "redelegate")
    BY <1>3 DEF Redelegate
  <2> HIDE DEF until
  <2> QED
    BY <1>2, <2>1, <2>2, RedelegateInnerInvariant
<1>4. CASE RedelegateFromJson(i, subject, scope, window)
  <2> DEFINE until == ReadUntil(ledger[i])
  <2>1. ledger[i].until \in Nat =>
           until \in Nat /\ WholeSecond(until) <= WholeSecond(ledger[i].until)
    <3> SUFFICES ASSUME ledger[i].until \in Nat
                 PROVE  until \in Nat /\ WholeSecond(until) <= WholeSecond(ledger[i].until)
      OBVIOUS
    <3>1. until \in {ledger[i].until, WholeSecond(ledger[i].until)}
      BY DEF ReadUntil
    <3>2. until \in Nat /\ until <= ledger[i].until
      <4>1. ledger[i].until % SubSeconds \in 0 .. SubSeconds - 1
        BY SecondsAndRest
      <4>2. WholeSecond(ledger[i].until) <= ledger[i].until
        BY <4>1, SubSecondsAssumption DEF WholeSecond
      <4>3. WholeSecond(ledger[i].until) \in Nat
        BY WholeSecondMonotone
      <4> QED
        BY <3>1, <4>2, <4>3
    <3> QED
      BY <3>2, WholeSecondMonotone
  <2>2. RedelegateInner(i, until, WireDigest(i), subject, scope, window,
                        "redelegate_from_json")
    BY <1>4 DEF RedelegateFromJson
  <2>3. ledger[i].ours => WireDigest(i) = ModelDigest(i)
    BY DEF WireDigest
  <2> HIDE DEF until
  <2> QED
    BY <1>2, <2>1, <2>2, <2>3, RedelegateInnerInvariant
<1> QED
  BY <1>1, <1>3, <1>4

LEMMA AcceptInvariant ==
    ASSUME IInv, Accept
    PROVE  IInv'
<1>1. PICK i \in DOMAIN ledger, delegate \in Delegates, window \in Windows :
        NewDelegateVdcFor(i, delegate, window)
  BY DEF Accept
<1> DEFINE vdc == [issuer |-> delegate, subject |-> ledger[i].issuer,
                   from |-> window.from, until |-> window.until,
                   scope |-> None, maxDepth |-> None,
                   parent |-> None, accepts |-> Name(WireDigest(i)),
                   ours |-> TRUE, over |-> i, by |-> "new_delegate_vdc_for"]
<1>2. /\ i \in Nat /\ i # 0 /\ ledger[i].issuer \in Ref
      /\ Name(WireDigest(i)) \in Named
  BY LedgerTyped
<1>3. /\ ledger[i].accepts = None /\ Write(vdc)
      /\ WithinGrant(window.until, ledger[i])
  BY <1>1 DEF NewDelegateVdcFor, ReadsAsGrant
<1>4. vdc \in Vdc
  BY <1>2, InputsTyped DEF Vdc
<1>5. Parsed(ledger[i].accepts) = None
  BY <1>3 DEF Parsed
<1>6. \/ NamesClaims(ledger, vdc.accepts, i)
      \/ vdc.accepts = Name(<<i, "wire">>)
  BY NamedIsRecomputed DEF IInv, TypeOK, WireDigest
<1>7. InOrder(ledger, vdc)
  BY <1>2, <1>3, <1>5, <1>6, InputsTyped DEF InOrder
<1> HIDE DEF vdc
<1> QED
  BY <1>3, <1>4, <1>7, WriteInvariant

LEMMA Invariant == Spec => []IInv
<1>1. Init => IInv
  BY MaxVdcsAssumption DEF Init, IInv, TypeOK
<1>2. IInv /\ [Next]_ledger => IInv'
  <2>1. IInv /\ UNCHANGED ledger => IInv'
    BY DEF IInv, TypeOK
  <2> QED
    BY <2>1, IssueGrantInvariant, ReceiveInvariant, DeriveInvariant, AcceptInvariant
       DEF Next, Full
<1> QED
  BY <1>1, <1>2, PTL DEF Spec

-----------------------------------------------------------------------------
(* Chains.                                                                  *)

LEMMA LineageSteps ==
    ASSUME IInv, NEW path \in Lineages
    PROVE  /\ Len(path) \in Nat \ {0} /\ path \in Seq(DOMAIN ledger)
           /\ DOMAIN path = 1 .. Len(path)
           /\ \A k \in 1 .. Len(path) : path[k] \in DOMAIN ledger
           /\ \A k \in 1 .. Len(path) - 1 :
                Redelegated(path[k]) /\ path[k + 1] = ledger[path[k]].over
           /\ ~ Redelegated(path[Len(path)])
<1>1. DOMAIN ledger = 1 .. Len(ledger) /\ Len(ledger) \in Nat
  BY DEF IInv, TypeOK
<1>2. PICK n \in DOMAIN ledger : path \in [1 .. n -> DOMAIN ledger]
  BY DEF Lineages
<1>3. n \in Nat \ {0}
  BY <1>1
<1>4. path \in Seq(DOMAIN ledger)
  BY <1>2, <1>3, SeqDef
<1>5. Len(path) = n /\ DOMAIN path = 1 .. n
  BY <1>2, <1>3, <1>4, LenProperties
<1>6. \A k \in 1 .. n : path[k] \in DOMAIN ledger
  BY <1>2
<1>7. /\ \A k \in 1 .. Len(path) - 1 :
           Redelegated(path[k]) /\ path[k + 1] = ledger[path[k]].over
      /\ ~ Redelegated(path[Len(path)])
  BY DEF Lineages
<1> QED
  BY <1>3, <1>4, <1>5, <1>6, <1>7

LEMMA PresentedLinks ==
    ASSUME NEW path, Len(path) \in Nat, DOMAIN path = 1 .. Len(path)
    PROVE  /\ Len(Presented(path)) = Len(path)
           /\ DOMAIN Presented(path) = 1 .. Len(path)
           /\ \A k \in 1 .. Len(path) : Presented(path)[k] = AsLink(path[k])
<1> DEFINE n == Len(path)
           chain == Presented(path)
           S == {chain[k] : k \in 1 .. n}
<1>1. chain = [k \in 1 .. n |-> AsLink(path[k])]
  BY DEF Presented
<1>2. chain \in [1 .. n -> S]
  BY <1>1
<1> HIDE DEF chain, S
<1>3. chain \in Seq(S)
  BY <1>2, SeqDef
<1>4. Len(chain) = n /\ DOMAIN chain = 1 .. n
  BY <1>2, <1>3, LenProperties
<1>5. \A k \in 1 .. n : chain[k] = AsLink(path[k])
  BY <1>1
<1> QED
  BY <1>4, <1>5 DEF chain

\* What a verifier reads of document i.
LEMMA LinkMembers ==
    ASSUME IInv, NEW i \in DOMAIN ledger
    PROVE  LET link == AsLink(i)
               vdc  == ledger[i]
           IN  /\ link.kind = "Delegation"
               /\ link.accepts <=> Parsed(vdc.accepts) # None
               /\ link.issuer = vdc.issuer /\ link.subject = vdc.subject
               /\ link.from = WholeSecond(vdc.from)
               /\ link.until = Claims(vdc).until
               /\ link.maxDepth = vdc.maxDepth /\ link.maxDepth \in Nat \cup {None}
               /\ link.parent = vdc.parent
               /\ link.digest = ModelDigest(i) /\ link.digest # None
               /\ (Parses(vdc) /\ link.until # None) => link.until \in Nat
               /\ vdc.until \in Nat =>
                     link.until = WholeSecond(vdc.until) /\ link.until \in Nat
               /\ (Parses(vdc) /\ link.until # None) => vdc.until \in Nat
               /\ link.scope # {} => vdc.scope = link.scope
               /\ vdc.scope \in SUBSET Acts => link.scope = vdc.scope
<1> DEFINE link == AsLink(i)
           vdc  == ledger[i]
<1>1. /\ vdc.until \in Nat \cup {None, Null, Garbled}
      /\ vdc.scope \in {None, Null} \cup SUBSET Acts
      /\ vdc.maxDepth \in Nat \cup {None}
  BY LedgerTyped
<1>2. /\ link.kind = "Delegation"
      /\ link.accepts = (Parsed(vdc.accepts) # None)
      /\ link.issuer = vdc.issuer /\ link.subject = vdc.subject
      /\ link.from = WholeSecond(vdc.from)
      /\ link.until = Claims(vdc).until
      /\ link.maxDepth = vdc.maxDepth /\ link.parent = vdc.parent
      /\ link.digest = ModelDigest(i)
  BY DEF AsLink, Claims
<1>3. link.scope = IF Parsed(vdc.scope) = None THEN {} ELSE Parsed(vdc.scope)
  BY DEF AsLink, Claims
<1>4. Claims(vdc).until = IF vdc.until \in Nat THEN WholeSecond(vdc.until)
                          ELSE Parsed(vdc.until)
  BY DEF Claims
<1>5. Parses(vdc) => vdc.until # Garbled
  BY DEF Parses
<1>6. ModelDigest(i) # None
  <2>1. Name(ModelDigest(i)) \in Named /\ ModelDigest(i) \in Digests
    BY DigestsTyped DEF IInv, TypeOK
  <2> QED
    BY <2>1, NoneAssumption
<1> HIDE DEF link, vdc
<1>7. /\ vdc.until \in Nat =>
            link.until = WholeSecond(vdc.until) /\ link.until \in Nat
      /\ (Parses(vdc) /\ link.until # None) => vdc.until \in Nat
  <2>1. vdc.until \in Nat => WholeSecond(vdc.until) \in Nat
    BY WholeSecondMonotone
  <2> QED
    BY <1>1, <1>2, <1>4, <1>5, <2>1, MembersAssumption DEF Parsed
<1>8. /\ link.scope # {} => vdc.scope = link.scope
      /\ vdc.scope \in SUBSET Acts => link.scope = vdc.scope
  <2>1. vdc.scope \in SUBSET Acts => vdc.scope # None /\ vdc.scope # Null
    BY InputsAssumption
  <2> QED
    BY <1>1, <1>3, <2>1 DEF Parsed
<1> QED
  BY <1>1, <1>2, <1>6, <1>7, <1>8 DEF link, vdc

\* A link that keeps the rules toward its neighbour, put below a chain that
\* appoints, appoints.
LEMMA LongerChainAppoints ==
    ASSUME NEW chain, Len(chain) \in Nat, Len(chain) >= 2,
           Len(chain) <= MaxChainDepth, DOMAIN chain = 1 .. Len(chain),
           NEW rest, Len(rest) = Len(chain) - 1, DOMAIN rest = 1 .. Len(rest),
           \A k \in 1 .. Len(rest) : rest[k] = chain[k + 1],
           \A k \in 1 .. Len(chain) : chain[k].until \in Nat,
           \A k \in 1 .. Len(chain) : chain[k].maxDepth \in Nat \cup {None},
           NEW request, NEW asked, Appointed(rest, asked),
           asked.at = request.at, asked.principal = request.principal,
           chain[1].kind = "Delegation", ~ chain[1].accepts,
           chain[1].from <= request.at, request.at <= chain[1].until,
           Pinned(chain, 1), SameReference(chain[1].issuer, chain[2].subject),
           SameReference(chain[1].subject, request.presenter),
           request.act \in chain[1].scope,
           chain[1].scope \subseteq chain[2].scope,
           chain[1].until <= chain[2].until,
           chain[1].maxDepth \in Nat, chain[2].maxDepth \in Nat,
           chain[1].maxDepth < chain[2].maxDepth
    PROVE  Appointed(chain, request)
<1> DEFINE n == Len(chain)
<1>1. \A k \in 1 .. n : k = 1 \/ (k - 1 \in 1 .. Len(rest) /\ rest[k - 1] = chain[k])
  OBVIOUS
<1>2. /\ Len(rest) \in 1 .. MaxChainDepth
      /\ AllInForce(rest, asked) /\ HandedDown(rest, asked)
      /\ Narrows(rest) /\ WithinDepth(rest)
  BY DEF Appointed
<1>3. AllInForce(chain, request)
  <2>1. chain[1].until # None
    BY NoneAssumption
  <2>2. ASSUME NEW k \in 1 .. n
        PROVE  /\ chain[k].kind = "Delegation"
               /\ ~ chain[k].accepts
               /\ chain[k].scope # {}
               /\ chain[k].from <= request.at
               /\ chain[k].until # None /\ request.at <= chain[k].until
    BY <1>1, <1>2, <2>1 DEF AllInForce
  <2> QED
    BY <2>2 DEF AllInForce
<1>4. HandedDown(chain, request)
  <2>1. Root(chain) = Root(rest)
    BY DEF Root
  <2>2. ASSUME NEW k \in 1 .. n - 1
        PROVE  Pinned(chain, k) /\ SameReference(chain[k].issuer, chain[k + 1].subject)
    <3>1. CASE k = 1
      BY <3>1
    <3>2. CASE k # 1
      <4> DEFINE j == k - 1
      <4>1. /\ j \in 1 .. Len(rest) - 1 /\ j \in 1 .. Len(rest) /\ j + 1 \in 1 .. Len(rest)
            /\ j + 1 = k
        BY <3>2
      <4> HIDE DEF j
      <4>2. rest[j] = chain[k] /\ rest[j + 1] = chain[k + 1]
        BY <4>1
      <4>3. Pinned(rest, j) /\ SameReference(rest[j].issuer, rest[j + 1].subject)
        BY <1>2, <4>1 DEF HandedDown
      <4> QED
        BY <4>2, <4>3 DEF Pinned
    <3> QED
      BY <3>1, <3>2
  <2> QED
    BY <1>2, <2>1, <2>2 DEF HandedDown, Leaf
<1>5. Narrows(chain)
  <2>1. ASSUME NEW j \in 1 .. n, NEW i \in 1 .. j, j # 1, i # 1
        PROVE  chain[i].scope \subseteq chain[j].scope /\ chain[i].until <= chain[j].until
    <3>1. /\ i - 1 \in 1 .. j - 1 /\ j - 1 \in 1 .. Len(rest)
          /\ rest[i - 1] = chain[i] /\ rest[j - 1] = chain[j]
      BY <2>1
    <3> QED
      BY <1>2, <3>1 DEF Narrows
  <2>2. ASSUME NEW j \in 1 .. n
        PROVE  chain[1].scope \subseteq chain[j].scope /\ chain[1].until <= chain[j].until
    <3>1. CASE j = 1
      BY <3>1
    <3>2. CASE j # 1
      <4>1. /\ chain[2].scope \subseteq chain[j].scope /\ chain[2].until <= chain[j].until
            /\ 2 \in 1 .. n
        BY <2>1, <3>2
      <4> QED
        BY <4>1
    <3> QED
      BY <3>1, <3>2
  <2>3. ASSUME NEW j \in 1 .. n, NEW i \in 1 .. j
        PROVE  chain[i].scope \subseteq chain[j].scope /\ chain[i].until <= chain[j].until
    BY <2>1, <2>2
  <2> QED
    BY <2>3 DEF Narrows
<1>6. WithinDepth(chain)
  <2>1. \A k \in 1 .. Len(rest) - 1 :
           rest[k].maxDepth # None => rest[k].maxDepth < rest[k + 1].maxDepth
    BY <1>2 DEF WithinDepth
  <2>2. ASSUME NEW k \in 1 .. n - 1, chain[k].maxDepth # None
        PROVE  chain[k].maxDepth < chain[k + 1].maxDepth
    <3>1. CASE k = 1
      BY <3>1
    <3>2. CASE k # 1
      <4> DEFINE j == k - 1
      <4>1. /\ j \in 1 .. Len(rest) - 1 /\ j \in 1 .. Len(rest) /\ j + 1 \in 1 .. Len(rest)
            /\ j + 1 = k
        BY <3>2
      <4> HIDE DEF j
      <4>2. rest[j] = chain[k] /\ rest[j + 1] = chain[k + 1]
        BY <4>1
      <4> QED
        BY <2>1, <2>2, <4>1, <4>2
    <3> QED
      BY <3>1, <3>2
  <2>3. ASSUME NEW k \in 2 .. n
        PROVE  chain[k].maxDepth \in Nat
    <3>1. CASE k = 2
      BY <3>1
    <3>2. CASE k # 2
      <4>1. k - 1 \in 2 .. Len(rest) /\ k - 1 \in 1 .. Len(rest) /\ k \in 1 .. n
        BY <3>2
      <4>2. rest[k - 1].maxDepth # None /\ rest[k - 1] = chain[k]
        BY <1>2, <4>1 DEF WithinDepth
      <4> QED
        BY <4>1, <4>2
    <3> QED
      BY <3>1, <3>2
  <2>4. ASSUME NEW k \in 1 .. n
        PROVE  chain[k].maxDepth \in Nat /\ k - 1 <= chain[k].maxDepth
    <3> DEFINE S == {j \in 1 .. n : chain[j].maxDepth \in Nat /\ j - 1 <= chain[j].maxDepth}
    <3>1. 1 \in S
      OBVIOUS
    <3>2. ASSUME NEW j \in 1 .. n - 1, j \in S
          PROVE  j + 1 \in S
      <4>1. /\ j + 1 \in 2 .. n /\ j + 1 \in 1 .. n
            /\ chain[j].maxDepth \in Nat /\ j - 1 <= chain[j].maxDepth
        BY <3>2
      <4>2. chain[j].maxDepth < chain[j + 1].maxDepth /\ chain[j + 1].maxDepth \in Nat
        BY <2>2, <2>3, <4>1, NoneAssumption
      <4>3. (j + 1) - 1 <= chain[j + 1].maxDepth
        BY <4>1, <4>2
      <4> QED
        BY <4>1, <4>2, <4>3
    <3>3. 1 .. n \subseteq S
      <4>1. n \in Nat
        OBVIOUS
      <4> HIDE DEF S, n
      <4> QED
        BY <3>1, <3>2, <4>1, Upwards
    <3> QED
      BY <3>3
  <2>5. ASSUME NEW k \in 2 .. n
        PROVE  chain[k].maxDepth # None /\ k - 1 <= chain[k].maxDepth
    <3>1. k \in 1 .. n
      OBVIOUS
    <3>2. chain[k].maxDepth \in Nat /\ k - 1 <= chain[k].maxDepth
      BY <2>4, <3>1
    <3> QED
      BY <3>2, NoneAssumption
  <2> QED
    BY <2>2, <2>5 DEF WithinDepth
<1> QED
  BY <1>3, <1>4, <1>5, <1>6 DEF Appointed, Leaf

-----------------------------------------------------------------------------
(* The theorems.                                                            *)

(* However many documents are built and received, in any order: no budget   *)
(* wraps, no digest is missing, and each document is made over an earlier   *)
(* one.                                                                     *)
THEOREM TypeCorrect == Spec => []TypeOK
<1>1. IInv => TypeOK
  BY DEF IInv
<1> QED
  BY Invariant, <1>1, PTL

(* What some grant is answered with is never taken for a grant itself, by   *)
(* redelegate, redelegate_from_json, new_delegate_vdc_for or accepts.       *)
THEOREM HalvesAlwaysApart == Spec => []HalvesStayApart
<1>1. IInv => HalvesStayApart
  <2> SUFFICES ASSUME IInv, NEW i \in DOMAIN ledger, NEW g \in DOMAIN ledger,
                      Accepts(i, g), NEW j \in DOMAIN ledger
               PROVE  ledger[j].over # i /\ ~ Accepts(j, i)
    BY DEF HalvesStayApart
  <2>1. Claims(ledger[i]).accepts = Parsed(ledger[i].accepts)
    BY DEF Claims
  <2>2. Parsed(ledger[i].accepts) # None
    BY <2>1 DEF Accepts
  <2>3. ~ Accepts(j, i)
    BY <2>1, <2>2 DEF Accepts
  <2>4. ledger[j].over # i
    BY <2>2, LedgerTyped DEF IInv, InOrder
  <2> QED
    BY <2>3, <2>4
<1> QED
  BY Invariant, <1>1, PTL

(* Every re-delegation built here is issued by the party its parent         *)
(* appoints, for acts of the parent's, with one less to go, and at whole    *)
(* seconds ends no later than a parent that says when it ends: the rules    *)
(* delegation::verify_chain holds neighbours to, over parents of any        *)
(* provenance.                                                              *)
THEOREM RedelegationsNarrow ==
    Spec => [](\A i \in DOMAIN ledger :
                 Redelegated(i) => /\ ledger[i].over \in DOMAIN ledger
                                   /\ Narrower(ledger[i], ledger[ledger[i].over]))
<1>1. IInv => \A i \in DOMAIN ledger :
                Redelegated(i) => /\ ledger[i].over \in DOMAIN ledger
                                  /\ Narrower(ledger[i], ledger[ledger[i].over])
  BY DEF IInv, InOrder, Redelegated
<1> QED
  BY Invariant, <1>1, PTL

\* A re-delegation below a chain that appoints, appoints.
LEMMA RedelegationAppoints ==
    ASSUME IInv, NEW path \in Lineages, Len(path) > 1, Len(path) <= MaxChainDepth,
           NEW act \in ledger[path[1]].scope, NEW at,
           ledger[path[1]].by = "redelegate_from_json" =>
               ledger[ledger[path[1]].over].ours,
           WholeSecond(ledger[path[1]].from) <= at,
           at <= WholeSecond(ledger[path[1]].until),
           AppointsSubject(Tail(path), act, at)
    PROVE  AppointsSubject(path, act, at)
<1> DEFINE n == Len(path)
           rest == Tail(path)
           child == ledger[path[1]]
           parent == ledger[path[2]]
           chain == Presented(path)
           above == Presented(rest)
           request == [principal |-> ledger[path[n]].issuer, act |-> act,
                       presenter |-> child.subject, at |-> at]
           asked == [principal |-> ledger[rest[Len(rest)]].issuer, act |-> act,
                     presenter |-> ledger[rest[1]].subject, at |-> at]
<1>1. /\ n \in Nat /\ n >= 2 /\ path \in Seq(DOMAIN ledger)
      /\ DOMAIN path = 1 .. n
      /\ \A k \in 1 .. n : path[k] \in DOMAIN ledger
      /\ 1 \in 1 .. n /\ 2 \in 1 .. n /\ 1 \in 1 .. n - 1
      /\ Redelegated(path[1]) /\ path[2] = child.over
  BY LineageSteps
<1>2. /\ rest \in Seq(DOMAIN ledger) /\ Len(rest) = n - 1
      /\ DOMAIN rest = 1 .. n - 1
      /\ \A k \in 1 .. n - 1 : rest[k] = path[k + 1]
  BY <1>1, HeadTailProperties
<1>3. /\ Len(chain) = n /\ DOMAIN chain = 1 .. n
      /\ \A k \in 1 .. n : chain[k] = AsLink(path[k])
      /\ Len(above) = n - 1 /\ DOMAIN above = 1 .. n - 1
      /\ \A k \in 1 .. n - 1 : above[k] = AsLink(rest[k])
  <2>1. n - 1 \in Nat
    BY <1>1
  <2> QED
    BY <1>1, <1>2, <2>1, PresentedLinks
<1>4. /\ \A k \in DOMAIN rest : Parses(ledger[rest[k]])
      /\ Appointed(above, asked)
  BY DEF AppointsSubject
<1>5. path[1] \in DOMAIN ledger /\ path[2] \in DOMAIN ledger
  BY <1>1
<1>6. /\ Granting(child) /\ Narrower(child, parent)
      /\ NamesClaims(ledger, child.parent, path[2])
  <2>1. InOrder(ledger, child)
    BY <1>5 DEF IInv
  <2>2. child.by \in {"redelegate", "redelegate_from_json"}
    BY <1>1 DEF Redelegated
  <2>3. child.by = "redelegate" \/ parent.ours
    BY <1>1, <2>2
  <2> QED
    BY <1>1, <2>1, <2>2, <2>3 DEF InOrder
<1>7. Parses(child)
  <2>1. /\ child.accepts = None /\ child.scope \in SUBSET Acts /\ child.scope # {}
        /\ child.until \in Nat
    BY <1>6 DEF Granting
  <2>2. child.scope # None /\ child.scope # Null /\ child.until # Garbled
    BY <2>1, InputsAssumption, MembersAssumption
  <2>3. Claims(child).accepts = None /\ Claims(child).scope = child.scope
    BY <2>1, <2>2, MembersAssumption DEF Claims, Parsed
  <2> QED
    BY <2>1, <2>2, <2>3 DEF Parses, WellShaped
<1>8. \A k \in DOMAIN path : Parses(ledger[path[k]])
  <2>1. ASSUME NEW k \in 1 .. n PROVE Parses(ledger[path[k]])
    <3>1. k = 1 \/ (k - 1 \in 1 .. n - 1 /\ rest[k - 1] = path[k])
      BY <1>1, <1>2
    <3> QED
      BY <1>2, <1>4, <1>7, <3>1
  <2> QED
    BY <1>1, <2>1
<1>9. \A k \in 1 .. n - 1 : above[k] = chain[k + 1] /\ k + 1 \in 1 .. n
  BY <1>1, <1>2, <1>3
<1>10. /\ asked.at = request.at /\ asked.principal = request.principal
       /\ request.at = at /\ request.act = act /\ request.presenter = child.subject
  <2>1. rest[Len(rest)] = path[n]
    BY <1>1, <1>2
  <2> QED
    BY <2>1
<1>11. /\ AllInForce(above, asked) /\ WithinDepth(above)
  BY <1>4 DEF Appointed
<1>12. /\ chain[1] = AsLink(path[1]) /\ chain[2] = AsLink(path[2])
       /\ above[1] = chain[2] /\ 1 \in DOMAIN above
  BY <1>1, <1>3, <1>9
<1>13. /\ child.until \in Nat /\ child.scope \in SUBSET Acts /\ child.accepts = None
  BY <1>6 DEF Granting
<1>14. /\ chain[2].until # None /\ chain[2].scope # {}
  BY <1>11, <1>12 DEF AllInForce
<1> HIDE DEF chain, above, request, asked, rest
<1>15. /\ chain[1].kind = "Delegation" /\ ~ chain[1].accepts
       /\ chain[1].issuer = child.issuer /\ chain[1].subject = child.subject
       /\ chain[1].from = WholeSecond(child.from)
       /\ chain[1].until = WholeSecond(child.until) /\ chain[1].until \in Nat
       /\ chain[1].scope = child.scope /\ chain[1].maxDepth = child.maxDepth
       /\ chain[1].parent = child.parent
  BY <1>5, <1>12, <1>13, LinkMembers DEF Parsed
<1>16. /\ chain[2].subject = parent.subject /\ chain[2].scope = parent.scope
       /\ chain[2].until = WholeSecond(parent.until) /\ chain[2].until \in Nat
       /\ parent.until \in Nat
       /\ chain[2].maxDepth = parent.maxDepth
       /\ chain[2].maxDepth \in Nat \cup {None}
       /\ chain[2].digest = ModelDigest(path[2]) /\ chain[2].digest # None
  <2>1. Parses(parent)
    BY <1>1, <1>8
  <2> QED
    BY <1>5, <1>12, <1>14, <2>1, LinkMembers
<1>17. /\ child.issuer = parent.subject /\ child.scope \subseteq parent.scope
       /\ child.maxDepth \in Nat /\ child.maxDepth + 1 = Budget(parent)
       /\ WholeSecond(child.until) <= WholeSecond(parent.until)
  BY <1>6, <1>16 DEF Narrower
<1>18. /\ chain[2].maxDepth \in Nat /\ chain[1].maxDepth \in Nat
       /\ chain[1].maxDepth < chain[2].maxDepth
  BY <1>15, <1>16, <1>17 DEF Budget
<1>19. Pinned(chain, 1)
  <2>1. child.parent = Name(ModelDigest(path[2]))
    BY <1>5, <1>6, NamedIsRecomputed DEF IInv, TypeOK
  <2>2. Name(ModelDigest(path[2])) \in Named
    BY <1>5, DigestsTyped DEF IInv, TypeOK
  <2>3. Name(ModelDigest(path[2])) # None
    BY <2>2, InputsAssumption
  <2>4. Name(ModelDigest(path[2])).digest = ModelDigest(path[2])
    BY DEF Name
  <2> QED
    BY <1>15, <1>16, <2>1, <2>3, <2>4 DEF Pinned, Unreadable, SameDigest
<1>20. ASSUME NEW k \in 1 .. n
       PROVE  chain[k].until \in Nat /\ chain[k].maxDepth \in Nat \cup {None}
  <2>1. chain[k] = AsLink(path[k]) /\ path[k] \in DOMAIN ledger /\ Parses(ledger[path[k]])
    BY <1>1, <1>3, <1>8
  <2>2. chain[k].until # None
    <3>1. CASE k = 1
      BY <1>15, <3>1, NoneAssumption
    <3>2. CASE k # 1
      <4>1. k - 1 \in 1 .. n - 1 /\ above[k - 1] = chain[k]
        BY <1>1, <1>9, <3>2
      <4> QED
        BY <1>3, <1>11, <4>1 DEF AllInForce
    <3> QED
      BY <3>1, <3>2
  <2> QED
    BY <2>1, <2>2, LinkMembers
<1>21. Appointed(chain, request)
  <2>1. SameReference(chain[1].issuer, chain[2].subject)
    BY <1>15, <1>16, <1>17 DEF SameReference
  <2>2. SameReference(chain[1].subject, request.presenter)
    BY <1>10, <1>15 DEF SameReference
  <2>3. request.act \in chain[1].scope
    BY <1>10, <1>15
  <2>4. chain[1].from <= request.at /\ request.at <= chain[1].until
    BY <1>10, <1>15
  <2>5. chain[1].scope \subseteq chain[2].scope /\ chain[1].until <= chain[2].until
    BY <1>15, <1>16, <1>17
  <2> QED
    BY <1>1, <1>3, <1>4, <1>9, <1>10, <1>15, <1>18, <1>19, <1>20,
       <2>1, <2>2, <2>3, <2>4, <2>5, LongerChainAppoints
<1> QED
  BY <1>8, <1>21 DEF AppointsSubject, chain, request

\* A root built here appoints its subject.
LEMMA RootAppoints ==
    ASSUME IInv, NEW path \in Lineages, Len(path) = 1,
           ledger[path[1]].by \in {"new_vdc", "redelegate", "redelegate_from_json"},
           NEW act \in ledger[path[1]].scope, NEW at,
           WholeSecond(ledger[path[1]].from) <= at,
           at <= WholeSecond(ledger[path[1]].until)
    PROVE  AppointsSubject(path, act, at)
<1> DEFINE vdc == ledger[path[1]]
           chain == Presented(path)
           request == [principal |-> ledger[path[1]].issuer, act |-> act,
                       presenter |-> vdc.subject, at |-> at]
<1>1. /\ DOMAIN path = 1 .. 1 /\ path[1] \in DOMAIN ledger /\ ~ Redelegated(path[1])
  BY LineageSteps
<1>2. /\ Len(chain) = 1 /\ DOMAIN chain = 1 .. 1 /\ chain[1] = AsLink(path[1])
  BY <1>1, PresentedLinks
<1>3. Granting(vdc) /\ vdc.parent = None
  BY <1>1 DEF IInv, InOrder, Redelegated
<1>4. /\ vdc.accepts = None /\ vdc.scope \in SUBSET Acts /\ vdc.scope # {}
      /\ vdc.until \in Nat
  BY <1>3 DEF Granting
<1>5. vdc.scope # None /\ vdc.scope # Null /\ vdc.until # Garbled
  BY <1>4, InputsAssumption, MembersAssumption
<1>6. Parses(vdc)
  <2>1. Claims(vdc).accepts = None /\ Claims(vdc).scope = vdc.scope
    BY <1>4, <1>5, MembersAssumption DEF Claims, Parsed
  <2> QED
    BY <1>4, <1>5, <2>1 DEF Parses, WellShaped
<1>7. /\ request.principal = vdc.issuer /\ request.act = act
      /\ request.presenter = vdc.subject /\ request.at = at
  OBVIOUS
<1> HIDE DEF chain, request
<1>8. /\ chain[1].kind = "Delegation" /\ ~ chain[1].accepts
      /\ chain[1].issuer = vdc.issuer /\ chain[1].subject = vdc.subject
      /\ chain[1].from = WholeSecond(vdc.from)
      /\ chain[1].until = WholeSecond(vdc.until) /\ chain[1].until \in Nat
      /\ chain[1].scope = vdc.scope /\ chain[1].parent = None
  BY <1>1, <1>2, <1>3, <1>4, LinkMembers DEF Parsed
<1>9. AllInForce(chain, request)
  BY <1>2, <1>4, <1>7, <1>8, NoneAssumption DEF AllInForce
<1>10. HandedDown(chain, request)
  BY <1>2, <1>7, <1>8 DEF HandedDown, Root, Leaf, SameReference
<1>11. Narrows(chain) /\ WithinDepth(chain)
  BY <1>2, <1>8 DEF Narrows, WithinDepth
<1>12. Appointed(chain, request)
  BY <1>2, <1>4, <1>7, <1>8, <1>9, <1>10, <1>11, MaxChainDepthAssumption DEF Appointed, Leaf
<1> QED
  BY <1>1, <1>6, <1>12 DEF AppointsSubject, chain, request

(* A re-delegation built here appoints whenever the chain it was derived    *)
(* from does, up to the verifier's ceiling, over any number of steps and    *)
(* below parents of any provenance: redelegate_inner, which sees one        *)
(* parent, keeps what delegation::verify_chain asks of every ancestor.      *)
THEOREM RedelegationBuildsValidChains == Spec => []BuiltChainsAppoint
<1>1. IInv => BuiltChainsAppoint
  <2> SUFFICES ASSUME IInv, NEW path \in Lineages, NEW act \in Acts, NEW at \in Instants,
                      ledger[path[1]].by \in {"new_vdc", "redelegate", "redelegate_from_json"},
                      ledger[path[1]].by = "redelegate_from_json" =>
                          ledger[ledger[path[1]].over].ours,
                      Len(path) > 1 => AppointsSubject(Tail(path), act, at),
                      act \in ledger[path[1]].scope,
                      WholeSecond(ledger[path[1]].from) <= at,
                      at <= WholeSecond(ledger[path[1]].until),
                      Len(path) <= MaxChainDepth
               PROVE  AppointsSubject(path, act, at)
    BY DEF BuiltChainsAppoint
  <2>1. CASE Len(path) > 1
    BY <2>1, RedelegationAppoints
  <2>2. CASE Len(path) = 1
    BY <2>2, RootAppoints
  <2>3. Len(path) \in Nat \ {0}
    BY LineageSteps
  <2>4. \A n \in Nat \ {0} : n = 1 \/ n > 1
    OBVIOUS
  <2> QED
    BY <2>1, <2>2, <2>3, <2>4
<1> QED
  BY Invariant, <1>1, PTL

(* An acceptance built here that binds to the last grant of a chain that    *)
(* appoints ends no later than any grant of that chain: it is compared with *)
(* one grant, at whole seconds, and the chain bounds that grant.            *)
THEOREM ConsentNeverOutlivesAGrant == Spec => []ConsentEndsWithEveryGrant
<1>1. IInv => ConsentEndsWithEveryGrant
  <2> SUFFICES ASSUME IInv, NEW a \in DOMAIN ledger, NEW path \in Lineages,
                      ledger[a].by = "new_delegate_vdc_for", Accepts(a, path[1]),
                      NEW act \in Acts, NEW at \in Instants,
                      AppointsSubject(path, act, at),
                      NEW k \in DOMAIN path
               PROVE  Claims(ledger[a]).until <= Presented(path)[k].until
    BY DEF ConsentEndsWithEveryGrant
  <2> DEFINE g == path[1]
             o == ledger[a].over
             answer == ledger[a]
             chain == Presented(path)
  <2>1. /\ DOMAIN path = 1 .. Len(path) /\ Len(path) \in Nat \ {0}
        /\ \A j \in 1 .. Len(path) : path[j] \in DOMAIN ledger
    BY LineageSteps
  <2>2. /\ Len(chain) = Len(path) /\ DOMAIN chain = 1 .. Len(path)
        /\ \A j \in 1 .. Len(path) : chain[j] = AsLink(path[j])
    BY <2>1, PresentedLinks
  <2>3. 1 \in 1 .. Len(path) /\ k \in 1 .. Len(path) /\ 1 \in 1 .. k
    BY <2>1
  <2>4. /\ o \in DOMAIN ledger /\ answer.until \in Nat
        /\ WithinGrant(answer.until, ledger[o])
        /\ \/ NamesClaims(ledger, answer.accepts, o)
           \/ answer.accepts = Name(<<o, "wire">>)
    BY DEF IInv, InOrder
  <2>5. /\ Parsed(answer.accepts) # None
        /\ SameDigest(Parsed(answer.accepts), ModelDigest(g))
    BY DEF Accepts, Claims
  <2>6. Parsed(answer.accepts) = answer.accepts
    BY <2>5 DEF Parsed
  <2>7. PICK p \in DOMAIN ledger :
          ModelDigest(g) = <<p, "model">> /\ Claims(ledger[p]) = Claims(ledger[g])
    BY <2>1, <2>3, ModelDigestFirst DEF IInv, TypeOK
  <2>8. Claims(ledger[o]) = Claims(ledger[g])
    <3>1. CASE answer.accepts = Name(<<o, "wire">>)
      <4>1. <<o, "wire">> = <<p, "model">>
        BY <2>5, <2>6, <2>7, <3>1 DEF SameDigest, Name
      <4> QED
        BY <4>1
    <3>2. CASE NamesClaims(ledger, answer.accepts, o)
      <4>1. PICK q \in DOMAIN ledger :
              answer.accepts = Name(<<q, "model">>) /\ Claims(ledger[q]) = Claims(ledger[o])
        BY <3>2 DEF NamesClaims
      <4>2. <<q, "model">> = <<p, "model">>
        BY <2>5, <2>6, <2>7, <4>1 DEF SameDigest, Name
      <4> QED
        BY <2>7, <4>1, <4>2
    <3> QED
      BY <2>4, <3>1, <3>2
  <2>9. \A j \in 1 .. Len(path) : Parses(ledger[path[j]])
    BY <2>1 DEF AppointsSubject
  <2>10. \E request : AllInForce(chain, request) /\ Narrows(chain)
    BY DEF AppointsSubject, Appointed
  <2>11. \A j \in 1 .. Len(path) : chain[j].until # None
    BY <2>2, <2>10 DEF AllInForce
  <2>12. ASSUME NEW j \in 1 .. Len(path)
         PROVE  chain[j].until \in Nat /\ chain[j].until = Claims(ledger[path[j]]).until
    BY <2>1, <2>2, <2>9, <2>11, LinkMembers
  <2>13. chain[1].until <= chain[k].until
    BY <2>2, <2>3, <2>10 DEF Narrows
  <2>14. Claims(answer).until <= chain[1].until /\ Claims(answer).until \in Nat
    <3>1. /\ Claims(ledger[o]).until = chain[1].until
      BY <2>3, <2>8, <2>12
    <3>2. ledger[o].until \in Nat \cup {None, Null, Garbled}
      BY <2>4, LedgerTyped
    <3>3. ledger[o].until \in Nat
      <4>1. ledger[o].until \notin {Null, Garbled}
        BY <2>4 DEF WithinGrant
      <4>2. ledger[o].until = None => Claims(ledger[o]).until = None
        BY NoneAssumption DEF Claims, Parsed
      <4> QED
        BY <2>3, <2>11, <3>1, <3>2, <4>1, <4>2
    <3>4. Claims(ledger[o]).until = WholeSecond(ledger[o].until)
      BY <3>3 DEF Claims
    <3>5. WholeSecond(answer.until) <= WholeSecond(ledger[o].until)
      BY <2>4, <3>3, NoneAssumption DEF WithinGrant
    <3>6. Claims(answer).until = WholeSecond(answer.until)
      <4> HIDE DEF answer
      <4> QED
        BY <2>4 DEF Claims
    <3>7. WholeSecond(answer.until) \in Nat
      BY <2>4, WholeSecondMonotone
    <3> QED
      BY <3>1, <3>4, <3>5, <3>6, <3>7
  <2> QED
    BY <2>3, <2>12, <2>13, <2>14
<1> QED
  BY Invariant, <1>1, PTL
=============================================================================
