----------------------- MODULE AuthorityIssuanceProofs -----------------------
(***************************************************************************)
(* What attenuation keeps over a chain of any length: one parent seen at a *)
(* time is enough for the whole of what a verifier asks.                   *)
(***************************************************************************)
EXTENDS AuthorityIssuance, DTGBaseProofs, SequenceTheorems

-----------------------------------------------------------------------------
(* The invariant: what a VAC keeps of the one it was derived from.          *)

Narrower(child, parent) ==
    /\ child.issuer = parent.subject
    /\ child.scope = parent.scope
    /\ child.actions \subseteq parent.actions
    /\ WholeSecond(child.until) <= WholeSecond(parent.until)
    /\ parent.spelling = "ours" =>
          child.parent = [digest |-> <<child.over, "model">>, base |-> "z"]

\* Where the parent bears a limit, the child bears a lower one.
LimitFalls(child, parent) ==
    parent.maxAttenuation # None =>
        child.maxAttenuation \in Nat /\ child.maxAttenuation + 1 <= parent.maxAttenuation

\* attenuate sees to that; with_max_attenuation sets whatever number it is given.
Limited(child, parent) ==
    \/ child.by = "attenuate" /\ LimitFalls(child, parent)
    \/ child.by = "with_max_attenuation" /\ child.maxAttenuation \in Nat

InOrder(vacs, vac) ==
    /\ vac.actions # {}
    /\ vac.over = 0 => vac.parent = None
    /\ vac.over # 0 =>
          /\ vac.over \in DOMAIN vacs
          /\ Narrower(vac, vacs[vac.over])
          /\ Limited(vac, vacs[vac.over])

IInv == TypeOK /\ \A i \in DOMAIN ledger : InOrder(ledger, ledger[i])

\* A VAC in order, put at the end of the ledger, leaves all in order.
LEMMA IssueInvariant ==
    ASSUME IInv, NEW vac \in Vac, InOrder(ledger, vac), Issue(vac)
    PROVE  IInv'
<1>1. /\ ledger \in Seq(Vac) /\ Len(ledger) \in Nat
      /\ \A i \in DOMAIN ledger : ledger[i].over < i
      /\ DOMAIN ledger = 1 .. Len(ledger)
  BY DEF IInv, TypeOK
<1>2. Len(ledger) < MaxVacs /\ ledger' = Append(ledger, vac)
  BY DEF Issue
<1>3. /\ ledger' \in Seq(Vac) /\ Len(ledger') = Len(ledger) + 1
      /\ \A i \in 1 .. Len(ledger) : ledger'[i] = ledger[i]
      /\ ledger'[Len(ledger) + 1] = vac
  BY <1>1, <1>2, AppendProperties
<1>4. DOMAIN ledger' = 1 .. Len(ledger) + 1
  BY <1>1, <1>3
<1>5. \A i \in DOMAIN ledger' :
         \/ i \in DOMAIN ledger /\ ledger'[i] = ledger[i]
         \/ i = Len(ledger) + 1 /\ ledger'[i] = vac
  BY <1>1, <1>3, <1>4
<1>6. vac.over \in Nat /\ vac.over < Len(ledger) + 1
  <2>1. vac.over \in Nat
    BY DEF Vac
  <2> QED
    BY <1>1, <2>1 DEF InOrder
<1>7. TypeOK'
  <2>1. \A i \in DOMAIN ledger' : ledger'[i].over < i
    BY <1>1, <1>5, <1>6
  <2>2. Len(ledger') <= MaxVacs
    BY <1>1, <1>2, <1>3, MaxVacsAssumption
  <2> QED
    BY <1>3, <2>1, <2>2 DEF TypeOK
<1>8. ASSUME NEW v, InOrder(ledger, v)
      PROVE  InOrder(ledger', v)
  <2>1. v.over # 0 => /\ v.over \in DOMAIN ledger'
                      /\ ledger'[v.over] = ledger[v.over]
    BY <1>1, <1>3, <1>4, <1>8 DEF InOrder
  <2> QED
    BY <1>8, <2>1 DEF InOrder
<1>9. \A i \in DOMAIN ledger' : InOrder(ledger', ledger'[i])
  <2>1. \A i \in DOMAIN ledger' : InOrder(ledger, ledger'[i])
    BY <1>5 DEF IInv
  <2> QED
    BY <1>8, <2>1
<1> QED
  BY <1>7, <1>9 DEF IInv

-----------------------------------------------------------------------------
(* The constructors.                                                        *)

LEMMA InputsTyped ==
    /\ \A window \in Windows : window.from \in Nat /\ window.until \in Nat
    /\ \A max \in Limits : max \in Nat \cup {None}
    /\ \A party \in Party : party \in Ref
BY InputsAssumption DEF Party, Ref

LEMMA LedgerTyped ==
    ASSUME IInv, NEW i \in DOMAIN ledger
    PROVE  /\ ledger \in Seq(Vac) /\ Len(ledger) <= MaxVacs
           /\ ledger[i] \in Vac /\ i \in 1 .. MaxVacs
           /\ ledger[i].issuer \in Ref /\ ledger[i].subject \in Ref
           /\ ledger[i].from \in Nat /\ ledger[i].until \in Nat
           /\ ledger[i].scope \in Scopes /\ ledger[i].actions \in SUBSET Actions
           /\ ledger[i].maxAttenuation \in Nat \cup {None}
           /\ ledger[i].over \in Nat
           /\ <<i, "model">> \in Digests /\ <<i, "wire">> \in Digests
<1>1. /\ ledger \in Seq(Vac) /\ Len(ledger) <= MaxVacs /\ ledger[i] \in Vac
      /\ i \in 1 .. MaxVacs
  BY MaxVacsAssumption DEF IInv, TypeOK
<1>2. <<i, "model">> \in Digests /\ <<i, "wire">> \in Digests
  BY <1>1, InputsAssumption
<1> QED
  BY <1>1, <1>2 DEF Vac

LEMMA NewVacInvariant ==
    ASSUME IInv, NEW issuer \in Ref, NEW subject \in Ref, NEW scope \in Scopes,
           NEW actions \in SUBSET Actions, NEW window \in Windows,
           NEW max \in Nat \cup {None}, NEW spelling \in Spellings,
           NewVac(issuer, subject, scope, actions, window, max, spelling)
    PROVE  IInv'
<1> DEFINE vac == [issuer |-> issuer, subject |-> subject,
                   from |-> window.from, until |-> window.until,
                   scope |-> scope, actions |-> actions, maxAttenuation |-> max,
                   parent |-> None, over |-> 0, by |-> "new_vac",
                   spelling |-> spelling]
<1>1. Issue(vac) /\ actions # {}
  BY DEF NewVac
<1>2. vac \in Vac
  BY InputsTyped DEF Vac
<1>3. InOrder(ledger, vac)
  BY <1>1 DEF InOrder
<1> HIDE DEF vac
<1> QED
  BY <1>1, <1>2, <1>3, IssueInvariant

LEMMA IssueRootInvariant ==
    ASSUME IInv, IssueRoot
    PROVE  IInv'
BY NewVacInvariant, InputsTyped DEF IssueRoot

LEMMA IssueRoleInvariant ==
    ASSUME IInv, IssueRole
    PROVE  IInv'
<1>1. PICK community \in Party, member \in Party, role \in Actions, window \in Windows :
        NewCommunityRoleVac(community, member, role, window)
  BY DEF IssueRole
<1>2. /\ community.did \in Scopes
      /\ NewVac(community, member, community.did, {role}, window, None, "ours")
  BY <1>1 DEF NewCommunityRoleVac
<1>3. "ours" \in Spellings /\ {role} \in SUBSET Actions
  BY InputsAssumption
<1> QED
  BY <1>2, <1>3, InputsTyped, NewVacInvariant

LEMMA LimitBelowTyped ==
    ASSUME NEW parentMax \in Nat \cup {None}, NEW requested \in Nat \cup {None},
           NEW max \in LimitBelow(parentMax, requested)
    PROVE  /\ max \in Nat \cup {None}
           /\ parentMax # None => max \in Nat /\ max + 1 <= parentMax
<1>1. CASE parentMax = None
  BY <1>1 DEF LimitBelow
<1>2. CASE parentMax # None /\ requested = None
  <2>1. max = parentMax - 1 /\ parentMax # 0
    BY <1>2 DEF LimitBelow
  <2> QED
    BY <1>2, <2>1
<1>3. CASE parentMax # None /\ requested # None
  <2>1. max = requested /\ parentMax # 0 /\ max <= parentMax - 1
    BY <1>3 DEF LimitBelow
  <2> QED
    BY <1>3, <2>1
<1> QED
  BY <1>1, <1>2, <1>3

\* What both attenuations share: `until` is the parent's end as it is read.
LEMMA AttenuateInnerInvariant ==
    ASSUME IInv, NEW i \in DOMAIN ledger, NEW until \in Nat,
           WholeSecond(until) <= WholeSecond(ledger[i].until),
           NEW digest \in Digests,
           ledger[i].spelling = "ours" => digest = <<i, "model">>,
           NEW subject \in Party, NEW actions \in SUBSET Actions,
           NEW window \in Windows, NEW requested \in Limits,
           AttenuateInner(i, digest, until, subject, actions, window, requested)
    PROVE  IInv'
<1>1. /\ ledger[i] \in Vac /\ i \in 1 .. MaxVacs /\ ledger[i].subject \in Ref
      /\ ledger[i].scope \in Scopes /\ ledger[i].until \in Nat
      /\ ledger[i].maxAttenuation \in Nat \cup {None}
  BY LedgerTyped
<1>2. /\ actions # {} /\ actions \subseteq ledger[i].actions
      /\ window.until <= until
  BY DEF AttenuateInner
<1>3. PICK max \in LimitBelow(ledger[i].maxAttenuation, requested) :
        Issue([issuer |-> ledger[i].subject, subject |-> subject,
               from |-> window.from, until |-> window.until,
               scope |-> ledger[i].scope, actions |-> actions,
               maxAttenuation |-> max,
               parent |-> [digest |-> digest, base |-> "z"],
               over |-> i, by |-> "attenuate", spelling |-> "ours"])
  BY DEF AttenuateInner
<1> DEFINE vac == [issuer |-> ledger[i].subject, subject |-> subject,
                   from |-> window.from, until |-> window.until,
                   scope |-> ledger[i].scope, actions |-> actions,
                   maxAttenuation |-> max,
                   parent |-> [digest |-> digest, base |-> "z"],
                   over |-> i, by |-> "attenuate", spelling |-> "ours"]
<1>4. /\ window.from \in Nat /\ window.until \in Nat /\ subject \in Ref
      /\ requested \in Nat \cup {None} /\ "ours" \in Spellings
  BY InputsTyped, InputsAssumption
<1>5. /\ max \in Nat \cup {None}
      /\ ledger[i].maxAttenuation # None =>
            max \in Nat /\ max + 1 <= ledger[i].maxAttenuation
  BY <1>1, <1>4, LimitBelowTyped
<1>6. [digest |-> digest, base |-> "z"] \in Named
  BY DEF Named
<1>7. vac \in Vac
  BY <1>1, <1>4, <1>5, <1>6 DEF Vac
<1>8. WholeSecond(window.until) <= WholeSecond(ledger[i].until)
  <2>1. WholeSecond(window.until) <= WholeSecond(until)
    BY <1>2, <1>4, WholeSecondMonotone
  <2>2. /\ WholeSecond(window.until) \in Nat /\ WholeSecond(until) \in Nat
        /\ WholeSecond(ledger[i].until) \in Nat
    BY <1>1, <1>4, WholeSecondMonotone
  <2> QED
    BY <2>1, <2>2
<1>9. Narrower(vac, ledger[i]) /\ Limited(vac, ledger[i])
  BY <1>2, <1>5, <1>8 DEF Narrower, Limited, LimitFalls
<1>10. InOrder(ledger, vac)
  BY <1>1, <1>2, <1>9 DEF InOrder
<1>11. Issue(vac)
  BY <1>3
<1> HIDE DEF vac
<1> QED
  BY <1>7, <1>10, <1>11, IssueInvariant

LEMMA DeriveInvariant ==
    ASSUME IInv, Derive
    PROVE  IInv'
<1>1. PICK i \in DOMAIN ledger, subject \in Party, actions \in SUBSET Actions,
           window \in Windows, max \in Limits :
        \/ Attenuate(i, subject, actions, window, max)
        \/ AttenuateFromJson(i, subject, actions, window, max)
        \/ max # None /\ AttenuateThenLimit(i, subject, actions, window, max)
  BY DEF Derive
<1>2. /\ ledger[i].until \in Nat /\ ledger[i].subject \in Ref
      /\ ledger[i].scope \in Scopes /\ i \in 1 .. MaxVacs
      /\ <<i, "model">> \in Digests /\ <<i, "wire">> \in Digests
  BY LedgerTyped
<1>3. CASE Attenuate(i, subject, actions, window, max)
  <2>1. AttenuateInner(i, <<i, "model">>, ledger[i].until, subject, actions, window, max)
    BY <1>3 DEF Attenuate, ModelDigest
  <2>2. WholeSecond(ledger[i].until) <= WholeSecond(ledger[i].until)
    BY <1>2, WholeSecondMonotone
  <2> QED
    BY <1>2, <2>1, <2>2, AttenuateInnerInvariant
<1>4. CASE AttenuateFromJson(i, subject, actions, window, max)
  <2> DEFINE until == WireUntil(i)
             digest == WireDigest(i)
  <2>1. AttenuateInner(i, digest, until, subject, actions, window, max)
    BY <1>4 DEF AttenuateFromJson
  <2>2. until \in Nat /\ until <= ledger[i].until
    <3>1. ledger[i].until % SubSeconds \in 0 .. SubSeconds - 1
      BY <1>2, SecondsAndRest
    <3>2. WholeSecond(ledger[i].until) <= ledger[i].until
      BY <1>2, <3>1, SubSecondsAssumption DEF WholeSecond
    <3>3. WholeSecond(ledger[i].until) \in Nat
      BY <1>2, WholeSecondMonotone
    <3>4. until \in {ledger[i].until, WholeSecond(ledger[i].until)}
      BY DEF WireUntil
    <3> QED
      BY <1>2, <3>2, <3>3, <3>4
  <2>3. WholeSecond(until) <= WholeSecond(ledger[i].until)
    BY <1>2, <2>2, WholeSecondMonotone
  <2>4. digest \in Digests /\ (ledger[i].spelling = "ours" => digest = <<i, "model">>)
    BY <1>2 DEF WireDigest, ModelDigest
  <2> HIDE DEF until, digest
  <2> QED
    BY <2>1, <2>2, <2>3, <2>4, AttenuateInnerInvariant
<1>5. CASE max # None /\ AttenuateThenLimit(i, subject, actions, window, max)
  <2> DEFINE vac == [issuer |-> ledger[i].subject, subject |-> subject,
                     from |-> window.from, until |-> window.until,
                     scope |-> ledger[i].scope, actions |-> actions,
                     maxAttenuation |-> max,
                     parent |-> [digest |-> ModelDigest(i), base |-> "z"],
                     over |-> i, by |-> "with_max_attenuation", spelling |-> "ours"]
  <2>1. Issue(vac) /\ actions # {}
    BY <1>5 DEF AttenuateThenLimit
  <2>2. [digest |-> ModelDigest(i), base |-> "z"] \in Named
    BY <1>2 DEF ModelDigest, Named
  <2>3. vac \in Vac
    BY <1>2, <2>2, InputsTyped, InputsAssumption DEF Vac
  <2>4. /\ actions \subseteq ledger[i].actions
        /\ WholeSecond(window.until) <= WholeSecond(ledger[i].until)
    BY <1>2, <1>5, InputsTyped, WholeSecondMonotone DEF AttenuateThenLimit
  <2>5. Narrower(vac, ledger[i]) /\ Limited(vac, ledger[i])
    BY <1>5, <2>4, InputsTyped DEF Narrower, Limited, ModelDigest
  <2>6. InOrder(ledger, vac)
    BY <1>2, <2>1, <2>5 DEF InOrder
  <2> HIDE DEF vac
  <2> QED
    BY <2>1, <2>3, <2>6, IssueInvariant
<1> QED
  BY <1>1, <1>3, <1>4, <1>5

LEMMA Invariant == Spec => []IInv
<1>1. Init => IInv
  BY MaxVacsAssumption DEF Init, IInv, TypeOK
<1>2. IInv /\ [Next]_ledger => IInv'
  <2>1. IInv /\ UNCHANGED ledger => IInv'
    BY DEF IInv, TypeOK
  <2> QED
    BY <2>1, IssueRootInvariant, IssueRoleInvariant, DeriveInvariant DEF Next, Full
<1> QED
  BY <1>1, <1>2, PTL DEF Spec

(* Type correctness: every VAC issued is well formed, the ledger stays      *)
(* within its bound, and a VAC comes after the one it was derived from.     *)
THEOREM TypeCorrect == Spec => []TypeOK
<1>1. IInv => TypeOK
  BY DEF IInv
<1> QED
  BY <1>1, Invariant, PTL

-----------------------------------------------------------------------------
(* From neighbours to a whole chain.                                        *)

\* Along a lineage each VAC is narrower than the next and names its digest.
LEMMA LineageNeighbours ==
    ASSUME IInv, NEW path \in Lineages, AllOurs(path)
    PROVE  /\ Len(path) \in Nat \ {0} /\ DOMAIN path = 1 .. Len(path)
           /\ \A k \in 1 .. Len(path) : path[k] \in DOMAIN ledger
           /\ \A k \in 1 .. Len(path) - 1 :
                /\ Narrower(ledger[path[k]], ledger[path[k + 1]])
                /\ Limited(ledger[path[k]], ledger[path[k + 1]])
                /\ ledger[path[k]].parent =
                     [digest |-> <<path[k + 1], "model">>, base |-> "z"]
           /\ ledger[path[Len(path)]].parent = None
<1>1. DOMAIN ledger = 1 .. Len(ledger) /\ Len(ledger) \in Nat
  BY DEF IInv, TypeOK
<1>2. PICK n \in DOMAIN ledger : path \in [1 .. n -> DOMAIN ledger]
  BY DEF Lineages
<1>3. n \in Nat \ {0}
  BY <1>1
<1>4. path \in Seq(DOMAIN ledger)
  BY <1>2, <1>3, SeqDef
<1>5. Len(path) = n /\ DOMAIN path = 1 .. n
  BY <1>2, <1>3, <1>4, LenProperties
<1>6. /\ \A k \in 1 .. n - 1 : path[k + 1] = ledger[path[k]].over
      /\ ledger[path[n]].over = 0
  BY <1>5 DEF Lineages
<1>7. \A k \in 1 .. n : path[k] \in DOMAIN ledger
  BY <1>2
<1>8. ASSUME NEW k \in 1 .. n - 1
      PROVE  /\ Narrower(ledger[path[k]], ledger[path[k + 1]])
             /\ Limited(ledger[path[k]], ledger[path[k + 1]])
             /\ ledger[path[k]].parent =
                  [digest |-> <<path[k + 1], "model">>, base |-> "z"]
  <2>1. k \in 1 .. n /\ k + 1 \in 1 .. n
    BY <1>3
  <2>2. path[k] \in DOMAIN ledger /\ path[k + 1] \in DOMAIN ledger
    BY <1>7, <2>1
  <2>3. ledger[path[k]].over = path[k + 1] /\ path[k + 1] # 0
    BY <1>1, <1>6, <2>2
  <2>4. InOrder(ledger, ledger[path[k]])
    BY <2>2 DEF IInv
  <2>5. /\ Narrower(ledger[path[k]], ledger[path[k + 1]])
        /\ Limited(ledger[path[k]], ledger[path[k + 1]])
    BY <2>3, <2>4 DEF InOrder
  <2>6. ledger[path[k + 1]].spelling = "ours"
    BY <1>5, <2>1 DEF AllOurs
  <2> QED
    BY <2>3, <2>5, <2>6 DEF Narrower
<1>9. ledger[path[n]].parent = None
  <2>1. InOrder(ledger, ledger[path[n]])
    BY <1>3, <1>7 DEF IInv
  <2> QED
    BY <1>6, <2>1 DEF InOrder
<1> QED
  BY <1>3, <1>5, <1>7, <1>8, <1>9

\* The members of each link of the chain that is presented.
LEMMA PresentedLinks ==
    ASSUME IInv, NEW path, Len(path) \in Nat \ {0}, DOMAIN path = 1 .. Len(path),
           \A k \in 1 .. Len(path) : path[k] \in DOMAIN ledger
    PROVE  /\ Len(Presented(path)) = Len(path)
           /\ DOMAIN Presented(path) = 1 .. Len(path)
           /\ \A k \in 1 .. Len(path) :
                LET link == Presented(path)[k]
                    vac  == ledger[path[k]]
                IN  /\ link.kind = "Authority"
                    /\ link.issuer = vac.issuer /\ link.subject = vac.subject
                    /\ link.scope = vac.scope /\ link.actions = vac.actions
                    /\ link.maxAttenuation = vac.maxAttenuation
                    /\ link.parent = vac.parent
                    /\ link.digest = <<path[k], "model">>
                    /\ link.digest \in Digests
                    /\ link.until = WholeSecond(vac.until) /\ link.until \in Nat
                    /\ link.maxAttenuation \in Nat \cup {None}
                    /\ link.issuer \in Ref /\ link.subject \in Ref
                    /\ link.actions # {}
<1> DEFINE n == Len(path)
           chain == Presented(path)
<1>1. chain = [k \in 1 .. n |-> OnTheWire(AsLink(path[k]))]
  BY DEF Presented, WireChain
<1>2. Len(chain) = n /\ DOMAIN chain = 1 .. n
  <2> DEFINE S == {chain[k] : k \in 1 .. n}
  <2>1. chain \in [1 .. n -> S]
    BY <1>1
  <2> HIDE DEF chain, S
  <2>2. chain \in Seq(S)
    BY <2>1, SeqDef
  <2> QED
    BY <2>1, <2>2, LenProperties
<1>3. ASSUME NEW k \in 1 .. n
      PROVE  LET link == chain[k]
                 vac  == ledger[path[k]]
             IN  /\ link.kind = "Authority"
                 /\ link.issuer = vac.issuer /\ link.subject = vac.subject
                 /\ link.scope = vac.scope /\ link.actions = vac.actions
                 /\ link.maxAttenuation = vac.maxAttenuation
                 /\ link.parent = vac.parent
                 /\ link.digest = <<path[k], "model">>
                 /\ link.digest \in Digests
                 /\ link.until = WholeSecond(vac.until) /\ link.until \in Nat
                 /\ link.maxAttenuation \in Nat \cup {None}
                 /\ link.issuer \in Ref /\ link.subject \in Ref
                 /\ link.actions # {}
  <2> DEFINE i == path[k]
             vac == ledger[i]
             link == OnTheWire(AsLink(i))
  <2>1. i \in DOMAIN ledger /\ chain[k] = link
    BY <1>1
  <2>2. /\ link.kind = "Authority"
        /\ link.issuer = vac.issuer /\ link.subject = vac.subject
        /\ link.scope = vac.scope /\ link.actions = vac.actions
        /\ link.maxAttenuation = vac.maxAttenuation
        /\ link.parent = vac.parent /\ link.digest = <<i, "model">>
        /\ link.until = WholeSecondOption(vac.until)
    BY DEF OnTheWire, AsLink, ModelDigest
  <2>3. /\ vac.until \in Nat /\ vac.maxAttenuation \in Nat \cup {None}
        /\ vac.issuer \in Ref /\ vac.subject \in Ref
        /\ <<i, "model">> \in Digests
    BY <2>1, LedgerTyped
  <2>4. vac.actions # {}
    BY <2>1 DEF IInv, InOrder
  <2> HIDE DEF i, vac, link
  <2>5. WholeSecondOption(vac.until) = WholeSecond(vac.until)
    BY <2>3, NoneAssumption DEF WholeSecondOption
  <2>6. WholeSecond(vac.until) \in Nat
    BY <2>3, WholeSecondMonotone
  <2> QED
    BY <2>1, <2>2, <2>3, <2>4, <2>5, <2>6 DEF i, vac
<1> HIDE DEF chain
<1> QED
  BY <1>2, <1>3 DEF chain

\* A chain whose neighbours narrow, does so from end to end.
LEMMA NeighboursNarrow ==
    ASSUME NEW chain, Len(chain) \in Nat \ {0}, DOMAIN chain = 1 .. Len(chain),
           \A k \in 1 .. Len(chain) : chain[k].until \in Nat,
           \A k \in 1 .. Len(chain) - 1 :
             /\ chain[k].scope = chain[k + 1].scope
             /\ chain[k].actions \subseteq chain[k + 1].actions
             /\ chain[k].until <= chain[k + 1].until
    PROVE  Narrows(chain)
<1>1. SUFFICES ASSUME NEW j \in 1 .. Len(chain)
               PROVE  \A i \in 1 .. j :
                        /\ chain[i].scope = chain[j].scope
                        /\ chain[i].actions \subseteq chain[j].actions
                        /\ chain[i].until <= chain[j].until
  BY DEF Narrows
<1> DEFINE S == {i \in 1 .. j : /\ chain[i].scope = chain[j].scope
                                /\ chain[i].actions \subseteq chain[j].actions
                                /\ chain[i].until <= chain[j].until}
<1>2. j \in S /\ j \in Nat
  OBVIOUS
<1>3. ASSUME NEW k \in 1 .. j - 1, k + 1 \in S
      PROVE  k \in S
  <2>1. /\ k \in 1 .. j /\ k \in 1 .. Len(chain) - 1
        /\ k \in 1 .. Len(chain) /\ k + 1 \in 1 .. Len(chain)
    OBVIOUS
  <2>2. /\ chain[k].scope = chain[j].scope
        /\ chain[k].actions \subseteq chain[j].actions
    BY <1>3, <2>1
  <2>3. chain[k].until <= chain[j].until
    BY <1>3, <2>1
  <2> QED
    BY <2>1, <2>2, <2>3
<1>4. 1 .. j \subseteq S
  <2> HIDE DEF S
  <2> QED
    BY <1>2, <1>3, Downwards
<1> QED
  BY <1>4

\* Where each child of a limit bears a lower one, no limit is ever exceeded.
LEMMA NeighboursWithinDepth ==
    ASSUME NEW chain, Len(chain) \in Nat \ {0}, DOMAIN chain = 1 .. Len(chain),
           \A k \in 1 .. Len(chain) : chain[k].maxAttenuation \in Nat \cup {None},
           \A k \in 1 .. Len(chain) - 1 : chain[k + 1].maxAttenuation # None =>
             /\ chain[k].maxAttenuation \in Nat
             /\ chain[k].maxAttenuation + 1 <= chain[k + 1].maxAttenuation
    PROVE  WithinDepth(chain)
<1>1. ASSUME NEW j \in 1 .. Len(chain), chain[j].maxAttenuation # None
      PROVE  j - 1 <= chain[j].maxAttenuation
  <2> DEFINE top == chain[j].maxAttenuation
             S == {i \in 1 .. j : /\ chain[i].maxAttenuation \in Nat
                                  /\ chain[i].maxAttenuation + (j - i) <= top}
  <2>1. j \in S /\ j \in Nat /\ top \in Nat
    BY <1>1
  <2>2. ASSUME NEW k \in 1 .. j - 1, k + 1 \in S
        PROVE  k \in S
    <3>1. /\ k \in 1 .. j /\ k \in 1 .. Len(chain) - 1 /\ k + 1 \in 1 .. Len(chain)
      OBVIOUS
    <3>2. /\ chain[k + 1].maxAttenuation \in Nat
          /\ chain[k + 1].maxAttenuation + (j - (k + 1)) <= top
      BY <2>2
    <3>3. /\ chain[k].maxAttenuation \in Nat
          /\ chain[k].maxAttenuation + 1 <= chain[k + 1].maxAttenuation
      BY <3>1, <3>2, NoneAssumption
    <3>4. chain[k].maxAttenuation + (j - k) <= top
      BY <2>1, <3>1, <3>2, <3>3
    <3> QED
      BY <3>1, <3>3, <3>4
  <2>3. 1 .. j \subseteq S
    <3> HIDE DEF S
    <3> QED
      BY <2>1, <2>2, Downwards
  <2>4. /\ chain[1].maxAttenuation \in Nat
        /\ chain[1].maxAttenuation + (j - 1) <= top
    BY <2>3
  <2> QED
    BY <2>1, <2>4
<1>2. ASSUME NEW i \in 1 .. Len(chain) - 1,
             chain[i].maxAttenuation # None, chain[i + 1].maxAttenuation # None
      PROVE  chain[i].maxAttenuation < chain[i + 1].maxAttenuation
  <2>1. i + 1 \in 1 .. Len(chain)
    OBVIOUS
  <2>2. chain[i + 1].maxAttenuation \in Nat
    BY <1>2, <2>1
  <2> QED
    BY <1>2, <2>2
<1> QED
  BY <1>1, <1>2 DEF WithinDepth

\* A lineage of this library's own VACs entitles its leaf's subject exactly
\* if the limits set on its VACs fit.
LEMMA LineageEntitles ==
    ASSUME IInv, NEW path \in Lineages, AllOurs(path),
           Len(path) <= MaxChainDepth,
           NEW at, NEW action \in ledger[path[1]].actions,
           \A k \in DOMAIN Presented(path) :
               Presented(path)[k].from <= at /\ at <= Presented(path)[k].until
    PROVE  Entitled(Presented(path), OwnRequest(path, action, at)) <=> LimitsFit(path)
<1> DEFINE n == Len(path)
           chain == Presented(path)
           request == OwnRequest(path, action, at)
<1>1. /\ n \in Nat \ {0} /\ DOMAIN path = 1 .. n
      /\ \A k \in 1 .. n : path[k] \in DOMAIN ledger
      /\ \A k \in 1 .. n - 1 :
           /\ Narrower(ledger[path[k]], ledger[path[k + 1]])
           /\ Limited(ledger[path[k]], ledger[path[k + 1]])
           /\ ledger[path[k]].parent =
                [digest |-> <<path[k + 1], "model">>, base |-> "z"]
      /\ ledger[path[n]].parent = None
  BY LineageNeighbours
<1>2. /\ Len(chain) = n /\ DOMAIN chain = 1 .. n
      /\ \A k \in 1 .. n :
           /\ chain[k].kind = "Authority"
           /\ chain[k].issuer = ledger[path[k]].issuer
           /\ chain[k].subject = ledger[path[k]].subject
           /\ chain[k].scope = ledger[path[k]].scope
           /\ chain[k].actions = ledger[path[k]].actions
           /\ chain[k].maxAttenuation = ledger[path[k]].maxAttenuation
           /\ chain[k].parent = ledger[path[k]].parent
           /\ chain[k].digest = <<path[k], "model">>
           /\ chain[k].digest \in Digests
           /\ chain[k].until = WholeSecond(ledger[path[k]].until)
           /\ chain[k].until \in Nat
           /\ chain[k].maxAttenuation \in Nat \cup {None}
           /\ chain[k].actions # {}
  BY <1>1, PresentedLinks
<1>3. /\ request.governing = ledger[path[n]].issuer
      /\ request.scope = ledger[path[1]].scope
      /\ request.action = action
      /\ request.presenter = ledger[path[1]].subject
      /\ request.at = at
  BY DEF OwnRequest
<1>4. \A k \in 1 .. n : chain[k].from <= at /\ at <= chain[k].until
  BY <1>2
<1> HIDE DEF chain, request, n
<1>5. ASSUME NEW k \in 1 .. n - 1
      PROVE  /\ k \in 1 .. n /\ k + 1 \in 1 .. n
             /\ chain[k].issuer = chain[k + 1].subject
             /\ chain[k].scope = chain[k + 1].scope
             /\ chain[k].actions \subseteq chain[k + 1].actions
             /\ chain[k].until <= chain[k + 1].until
  <2>1. k \in 1 .. n /\ k + 1 \in 1 .. n
    BY <1>1
  <2>2. Narrower(ledger[path[k]], ledger[path[k + 1]])
    BY <1>1
  <2> QED
    BY <1>2, <2>1, <2>2 DEF Narrower
<1>6. AllInForce(chain, request)
  <2>1. \A k \in 1 .. n : chain[k].until # None
    BY <1>2, NoneAssumption
  <2> QED
    BY <1>2, <1>3, <1>4, <2>1 DEF AllInForce
<1>7. HandedDown(chain, request)
  <2>1. SameReference(Root(chain).issuer, request.governing)
    BY <1>1, <1>2, <1>3 DEF SameReference, Root
  <2>2. Root(chain).parent = None
    BY <1>1, <1>2 DEF Root
  <2>3. SameReference(Leaf(chain).subject, request.presenter)
    BY <1>1, <1>2, <1>3 DEF SameReference, Leaf
  <2>4. ASSUME NEW k \in 1 .. n - 1
        PROVE  /\ Pinned(chain, k)
               /\ SameReference(chain[k].issuer, chain[k + 1].subject)
    <3> DEFINE digest == <<path[k + 1], "model">>
    <3>1. /\ chain[k + 1].digest = digest /\ digest \in Digests
          /\ chain[k].parent = [digest |-> digest, base |-> "z"]
      BY <1>1, <1>2, <1>5
    <3>2. [digest |-> digest, base |-> "z"] \in Named
      BY <3>1 DEF Named
    <3>3. [digest |-> digest, base |-> "z"] # None /\ digest # None
      BY <3>1, <3>2, NoneAssumption, InputsAssumption
    <3> HIDE DEF digest
    <3>4. Pinned(chain, k)
      BY <3>1, <3>3 DEF Pinned, Unreadable, SameDigest
    <3> QED
      BY <1>5, <3>4 DEF SameReference
  <2> QED
    BY <1>2, <2>1, <2>2, <2>3, <2>4 DEF HandedDown
<1>8. Narrows(chain)
  BY <1>1, <1>2, <1>5, NeighboursNarrow
<1>9. WithinDepth(chain) <=> LimitsFit(path)
  <2>1. ASSUME WithinDepth(chain), NEW k \in 1 .. n - 1,
               ledger[path[k]].by = "with_max_attenuation",
               ledger[path[k + 1]].maxAttenuation # None
        PROVE  ledger[path[k]].maxAttenuation < ledger[path[k + 1]].maxAttenuation
    <3>1. ledger[path[k]].maxAttenuation \in Nat
      BY <1>1, <2>1 DEF Limited
    <3>2. /\ chain[k].maxAttenuation = ledger[path[k]].maxAttenuation
          /\ chain[k + 1].maxAttenuation = ledger[path[k + 1]].maxAttenuation
      BY <1>2, <1>5
    <3>3. ledger[path[k]].maxAttenuation # None
      BY <3>1, NoneAssumption
    <3> QED
      BY <1>2, <2>1, <3>2, <3>3 DEF WithinDepth
  <2>2. ASSUME LimitsFit(path), NEW k \in 1 .. n - 1, chain[k + 1].maxAttenuation # None
        PROVE  /\ chain[k].maxAttenuation \in Nat
               /\ chain[k].maxAttenuation + 1 <= chain[k + 1].maxAttenuation
    <3>1. /\ chain[k].maxAttenuation = ledger[path[k]].maxAttenuation
          /\ chain[k + 1].maxAttenuation = ledger[path[k + 1]].maxAttenuation
          /\ chain[k + 1].maxAttenuation \in Nat
      BY <1>2, <1>5, <2>2
    <3>2. CASE ledger[path[k]].by = "attenuate"
      BY <1>1, <2>2, <3>1, <3>2 DEF Limited, LimitFalls
    <3>3. CASE ledger[path[k]].by = "with_max_attenuation"
      <4>1. ledger[path[k]].maxAttenuation \in Nat
        BY <1>1, <3>3 DEF Limited
      <4>2. ledger[path[k]].maxAttenuation < ledger[path[k + 1]].maxAttenuation
        BY <2>2, <3>1, <3>3 DEF LimitsFit, n
      <4> QED
        BY <3>1, <4>1, <4>2
    <3> QED
      BY <1>1, <3>2, <3>3 DEF Limited
  <2>3. LimitsFit(path) => WithinDepth(chain)
    BY <1>1, <1>2, <2>2, NeighboursWithinDepth
  <2>4. WithinDepth(chain) => LimitsFit(path)
    BY <2>1 DEF LimitsFit, n
  <2> QED
    BY <2>3, <2>4
<1>10. /\ Len(chain) \in 1 .. MaxChainDepth
       /\ Leaf(chain).scope = request.scope
       /\ request.action \in Leaf(chain).actions
  <2>1. n <= MaxChainDepth
    BY DEF n
  <2> QED
    BY <1>1, <1>2, <1>3, <2>1, MaxChainDepthAssumption DEF Leaf
<1>11. Entitled(chain, request) <=> LimitsFit(path)
  BY <1>6, <1>7, <1>8, <1>9, <1>10 DEF Entitled
<1> QED
  BY <1>11 DEF chain, request

(* Whatever sequence of attenuations built it, a chain of this library's    *)
(* own VACs verifies for its subject, for every action of the leaf and at   *)
(* each instant its windows share: seeing one parent at a time,             *)
(* attenuate_inner keeps what verify_chain asks of every ancestor.  A limit *)
(* set afterwards with with_max_attenuation changes that exactly if it is   *)
(* not below the parent's.                                                  *)
THEOREM AttenuationBuildsValidChains == Spec => []BuiltChainsVerify
<1>1. IInv => BuiltChainsVerify
  BY LineageEntitles DEF BuiltChainsVerify
<1> QED
  BY <1>1, Invariant, PTL
=============================================================================
