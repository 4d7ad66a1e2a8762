----------------------- MODULE DelegationChainProofs -----------------------
(***************************************************************************)
(* Proofs about delegation::verify_chain for every chain, every request    *)
(* and every ceiling on the length.                                        *)
(*                                                                         *)
(* The layout is that of AuthorityChainProofs.  What is particular here is *)
(* the depth: the code never compares a position with a maxDepth.  The     *)
(* walk asks only that a parent has a budget and that its child's is       *)
(* lower; the invariant carries along that each link passed has a budget   *)
(* of at least the number of links below it (PermitsDepth).                *)
(***************************************************************************)
EXTENDS DelegationChain, DTGBaseProofs

-----------------------------------------------------------------------------
(* What a group of checks establishes when all of its checks pass.          *)

LinkInForce(link) ==
    /\ link.kind = "Delegation"
    /\ ~ link.accepts
    /\ link.scope # {}
    /\ link.from <= request.at
    /\ link.until # None
    /\ request.at <= link.until

HandedTo(link, parent) ==
    /\ parent.digest # None
    /\ link.parent # None
    /\ ~ Unreadable(link.parent)
    /\ SameDigest(link.parent, parent.digest)
    /\ SameReference(link.issuer, parent.subject)

NarrowsPair(link, ancestor) ==
    /\ link.scope \subseteq ancestor.scope
    /\ link.until <= ancestor.until

SpendsBudget(link, parent) ==
    /\ parent.maxDepth # None
    /\ parent.maxDepth # 0
    /\ link.maxDepth # None => link.maxDepth < parent.maxDepth

\* What SpendsBudget comes to for a link that lies `steps` above the leaf.
PermitsDepth(link, steps) == link.maxDepth # None /\ steps <= link.maxDepth

(* The passing checks of each group, read off the sequence of checks.       *)

LEMMA LengthPasses ==
    Passes(LengthChecks) <=> (Len(chain) # 0 /\ ~ (Len(chain) > MaxChainDepth))
  BY Passes2 DEF LengthChecks

\* A link that passes the link loop appoints for something and is in force.
LEMMA LinkPasses ==
    ASSUME NEW link \in Link, request \in Request
    PROVE  Passes(LinkChecks(link)) <=> LinkInForce(link)
<1> DEFINE notVDC == link.kind # "Delegation"
           accepting == link.accepts
           empty  == link.scope = {}
           early  == link.from > request.at
           noEnd  == link.until = None
           late   == Expired(link, request.at)
<1>1. LinkChecks(link) =
        << Check("NotADelegationGrant", notVDC), Check("AcceptanceInChain", accepting),
           Check("NoScope", empty), Check("NotValidNow", early),
           Check("NoExpiry", noEnd), Check("NotValidNow", late) >>
  BY DEF LinkChecks
<1> HIDE DEF notVDC, accepting, empty, early, noEnd, late
<1>2. Passes(LinkChecks(link)) <=>
        ~ notVDC /\ ~ accepting /\ ~ empty /\ ~ early /\ ~ noEnd /\ ~ late
  BY <1>1 DEF Passes, Check
<1> QED
  BY <1>2, NoneAssumption
     DEF LinkInForce, Link, Request, Expired, notVDC, accepting, empty, early, noEnd, late

\* A link that passes the walk names its parent, was issued by the party the
\* parent appointed, and exceeds it in nothing.
LEMMA WalkPasses ==
    ASSUME NEW link \in Link, NEW parent \in Link,
           LinkInForce(link), LinkInForce(parent)
    PROVE  Passes(WalkChecks(link, parent)) <=>
             /\ HandedTo(link, parent)
             /\ NarrowsPair(link, parent)
             /\ SpendsBudget(link, parent)
<1> DEFINE noDigest  == parent.digest = None
           rootAbove == link.parent = None
           garbled   == link.parent # None /\ Unreadable(link.parent)
           differs   == link.parent # None /\ ~ SameDigest(link.parent, parent.digest)
           stranger  == NotAppointedAbove(link, parent)
           spent     == Budget(parent) = 0
           keeps     == NotNarrowed(link, parent)
           widens    == ~ (link.scope \subseteq parent.scope)
           outlives  == link.until # None /\ parent.until # None /\ link.until > parent.until
<1>0. WalkChecks(link, parent) =
        << Check("Digest", noDigest), Check("BrokenLink", rootAbove),
           Check("Digest", garbled), Check("BrokenLink", differs),
           Check("IssuerNotParentSubject", stranger),
           Check("RedelegationNotPermitted", spent), Check("DepthNotNarrowed", keeps),
           Check("WidensScope", widens), Check("OutlivesParent", outlives) >>
  BY DEF WalkChecks
<1> HIDE DEF noDigest, rootAbove, garbled, differs, stranger, spent, keeps, widens,
             outlives
<1>1. Passes(WalkChecks(link, parent)) <=>
        /\ ~ noDigest /\ ~ rootAbove /\ ~ garbled /\ ~ differs /\ ~ stranger
        /\ ~ spent /\ ~ keeps /\ ~ widens /\ ~ outlives
  BY <1>0 DEF Passes, Check
<1> USE DEF noDigest, rootAbove, garbled, differs, stranger, spent, keeps, widens,
            outlives
<1>2. SpendsBudget(link, parent) <=>
        ~ (Budget(parent) = 0) /\ ~ NotNarrowed(link, parent)
  BY NoneAssumption DEF SpendsBudget, Budget, NotNarrowed, Link
<1>3. link.until <= parent.until <=>
        ~ (link.until # None /\ parent.until # None /\ link.until > parent.until)
  BY NoneAssumption DEF LinkInForce, Link
<1> QED
  BY <1>1, <1>2, <1>3 DEF HandedTo, NarrowsPair, NotAppointedAbove

\* The leaf is the presenter's.
LEMMA PresenterPasses ==
    Passes(PresenterChecks) <=> SameReference(Leaf(chain).subject, request.presenter)
  BY Passes1 DEF PresenterChecks, SameReference

\* The chain ends in a root that the principal issued.
LEMMA RootPasses ==
    Passes(RootChecks) <=> /\ SameReference(Root(chain).issuer, request.principal)
                           /\ Root(chain).parent = None
  BY Passes2 DEF RootChecks, SameReference

\* The leaf appoints for the act asked about.
LEMMA AskedPasses ==
    Passes(AskedChecks) <=> request.act \in Leaf(chain).scope
  BY Passes1 DEF AskedChecks

(* Every error a group can return is an DelegationError.                      *)
LEMMA FaultsOfTheStages ==
    /\ \A fault \in FirstFault(LengthChecks) : fault \in Faults
    /\ \A link : \A fault \in FirstFault(LinkChecks(link)) : fault \in Faults
    /\ \A fault \in FirstFault(PresenterChecks) : fault \in Faults
    /\ \A link, parent :
         \A fault \in FirstFault(WalkChecks(link, parent)) : fault \in Faults
    /\ \A fault \in FirstFault(RootChecks) : fault \in Faults
    /\ \A fault \in FirstFault(AskedChecks) : fault \in Faults
<1>1. \A fault \in FirstFault(LengthChecks) : fault \in Faults
  BY FirstFaultRefuses DEF LengthChecks, Check, Faults
<1>2. \A link : \A fault \in FirstFault(LinkChecks(link)) : fault \in Faults
  BY FirstFaultRefuses DEF LinkChecks, Check, Faults
<1>3. \A fault \in FirstFault(PresenterChecks) : fault \in Faults
  BY FirstFaultRefuses DEF PresenterChecks, Check, Faults
<1>4. \A link, parent :
        \A fault \in FirstFault(WalkChecks(link, parent)) : fault \in Faults
  BY FirstFaultRefuses DEF WalkChecks, Check, Faults
<1>6. \A fault \in FirstFault(RootChecks) : fault \in Faults
  BY FirstFaultRefuses DEF RootChecks, Check, Faults
<1>7. \A fault \in FirstFault(AskedChecks) : fault \in Faults
  BY FirstFaultRefuses DEF AskedChecks, Check, Faults
<1> QED
  BY <1>1, <1>2, <1>3, <1>4, <1>6, <1>7

-----------------------------------------------------------------------------
(* The promise, group by group.                                             *)

Presented == SameReference(Leaf(chain).subject, request.presenter)

InPrincipalsName == /\ SameReference(Root(chain).issuer, request.principal)
            /\ Root(chain).parent = None

Asked == request.act \in Leaf(chain).scope

AllPermitDepth ==
    \A i \in 2 .. Len(chain) : PermitsDepth(chain[i], i - 1)

AllHandedTo ==
    \A i \in 1 .. Len(chain) - 1 :
        HandedTo(chain[i], chain[i + 1]) /\ SpendsBudget(chain[i], chain[i + 1])

AllNarrow ==
    \A j \in 1 .. Len(chain) : \A i \in 1 .. j : NarrowsPair(chain[i], chain[j])

(* Appointed, taken apart into what the groups of checks establish.          *)
LEMMA AppointedByGroups ==
    ASSUME chain \in Seq(Link), request \in Request
    PROVE  Appointed(chain, request) <=>
             /\ Len(chain) \in 1 .. MaxChainDepth
             /\ \A i \in 1 .. Len(chain) : LinkInForce(chain[i])
             /\ Presented
             /\ AllHandedTo
             /\ AllNarrow
             /\ AllPermitDepth
             /\ InPrincipalsName
             /\ Asked
<1>1. DOMAIN chain = 1 .. Len(chain) /\ Len(chain) \in Nat
  OBVIOUS
<1>2. AllInForce(chain, request) <=> \A i \in 1 .. Len(chain) : LinkInForce(chain[i])
  BY <1>1 DEF AllInForce, LinkInForce
<1>3. HandedDown(chain, request)
        <=> /\ Presented /\ InPrincipalsName
            /\ \A i \in 1 .. Len(chain) - 1 : HandedTo(chain[i], chain[i + 1])
  BY DEF HandedDown, Pinned, HandedTo, Presented, InPrincipalsName
<1>4. WithinDepth(chain)
        <=> /\ AllPermitDepth
            /\ \A i \in 1 .. Len(chain) - 1 : SpendsBudget(chain[i], chain[i + 1])
  <2>1. ASSUME AllPermitDepth, NEW i \in 1 .. Len(chain) - 1
        PROVE  chain[i + 1].maxDepth # None /\ chain[i + 1].maxDepth # 0
    <3>1. i + 1 \in 2 .. Len(chain) /\ i + 1 \in 1 .. Len(chain)
      BY <1>1
    <3>2. PermitsDepth(chain[i + 1], i)
      BY <1>1, <2>1, <3>1 DEF AllPermitDepth
    <3> QED
      BY <3>2 DEF PermitsDepth
  <2> QED
    BY <2>1 DEF WithinDepth, AllPermitDepth, PermitsDepth, SpendsBudget
<1>5. Narrows(chain) <=> AllNarrow
  BY <1>1 DEF Narrows, AllNarrow, NarrowsPair
<1> QED
  BY <1>2, <1>3, <1>4, <1>5 DEF Appointed, AllHandedTo, Asked

-----------------------------------------------------------------------------
(* The inductive invariant.                                                 *)

LinkChecked(i) ==
    (pc = "links" /\ i < index) \/ pc \in {"walk", "asked", "done"}

\* Link i has been compared with the link above it.
WalkChecked(i) == (pc = "walk" /\ i < index) \/ pc \in {"asked", "done"}

Established ==
    /\ pc # "length" => Len(chain) \in 1 .. MaxChainDepth
    /\ \A i \in 1 .. Len(chain) : LinkChecked(i) => LinkInForce(chain[i])
    /\ pc \in {"walk", "asked", "done"} => Presented
    /\ \A i \in 1 .. Len(chain) - 1 : WalkChecked(i) =>
         HandedTo(chain[i], chain[i + 1]) /\ SpendsBudget(chain[i], chain[i + 1])
    /\ \A j \in 1 .. Len(chain) : WalkChecked(j - 1) =>
         \A i \in 1 .. j : NarrowsPair(chain[i], chain[j])
    /\ \A i \in 2 .. Len(chain) : WalkChecked(i - 1) => PermitsDepth(chain[i], i - 1)
    /\ pc \in {"asked", "done"} => InPrincipalsName
    /\ pc = "done" => Asked

IndexOK ==
    /\ pc \in {"length", "asked"} => index = 1
    /\ pc = "links" => index \in 1 .. Len(chain) + 1
    /\ pc = "walk"  => index \in 1 .. Len(chain)

GrantedOK ==
    granted # None => granted = [delegate  |-> Leaf(chain).subject,
                                 scope     |-> Leaf(chain).scope,
                                 principal |-> request.principal]

Inv ==
    /\ TypeOK
    /\ IndexOK
    /\ GrantedOK
    /\ verdict \notin Faults => Established
    /\ verdict \in Faults => ~ Appointed(chain, request)

(* Every call starts with nothing established.                              *)
LEMMA InitInv == Init => Inv
<1> SUFFICES ASSUME Init PROVE Inv
  OBVIOUS
<1>1. chain \in Seq(Link) /\ request \in Request
  BY ChainsAssumption, RequestsAssumption DEF Init
<1>2. Len(chain) \in Nat
  BY <1>1
<1>3. verdict \notin Faults
  BY DEF Init, Faults
<1>4. TypeOK /\ IndexOK /\ GrantedOK
  BY <1>1, <1>2 DEF Init, TypeOK, IndexOK, GrantedOK, Stages
<1>5. Established
  BY <1>2 DEF Init, Established, LinkChecked, WalkChecked
<1> QED
  BY <1>3, <1>4, <1>5 DEF Inv

(* A refusal keeps the invariant when the caller was not appointed.           *)
LEMMA RefuseInv ==
    ASSUME Inv, pc # "done", NEW fault \in Faults, Refuse(fault),
           UNCHANGED <<chain, request>>, ~ Appointed(chain, request)
    PROVE  Inv'
<1>1. verdict' \in Faults /\ pc' = "done" /\ granted' = None
  BY DEF Refuse, Inv, TypeOK, Faults
<1>2. TypeOK'
  <2>1. fault # "pending" /\ fault # "accepted"
    BY DEF Faults
  <2> QED
    BY <1>1, <2>1 DEF Inv, TypeOK, Refuse, Stages
<1>3. IndexOK' /\ GrantedOK'
  BY <1>1 DEF IndexOK, GrantedOK
<1> QED
  BY <1>1, <1>2, <1>3 DEF Inv

(* A group that passes keeps the invariant when what it established holds.   *)
LEMMA GoOnInv ==
    ASSUME Inv, pc # "done", NEW stage \in Stages, stage # "done",
           NEW i \in 1 .. Len(chain) + 1, GoOn(stage, i),
           UNCHANGED <<chain, request>>, IndexOK', Established'
    PROVE  Inv'
<1>1. verdict = "pending" /\ verdict' = "pending" /\ granted = None /\ granted' = None
  BY DEF GoOn, Inv, TypeOK
<1>2. TypeOK'
  BY <1>1 DEF Inv, TypeOK, GoOn, IndexOK
<1>3. verdict' \notin Faults
  BY <1>1 DEF Faults
<1> QED
  BY <1>1, <1>2, <1>3 DEF Inv, GrantedOK

(* What an unfinished call knows of its arguments.                           *)
LEMMA Running ==
    ASSUME Inv, pc # "done"
    PROVE  /\ chain \in Seq(Link) /\ request \in Request
           /\ Len(chain) \in Nat
           /\ \A i \in 1 .. Len(chain) : chain[i] \in Link
           /\ Established /\ IndexOK
<1>1. chain \in Seq(Link) /\ request \in Request
  BY DEF Inv, TypeOK
<1>2. verdict \notin Faults
  BY DEF Inv, TypeOK, Faults
<1> QED
  BY <1>1, <1>2 DEF Inv

(* Each action keeps the invariant.                                          *)
LEMMA CheckLengthInv == Inv /\ CheckLength => Inv'
<1> SUFFICES ASSUME Inv, CheckLength PROVE Inv'
  OBVIOUS
<1>0. pc = "length" /\ pc # "done" /\ UNCHANGED <<chain, request>>
  BY DEF CheckLength, Judge
<1>1. CASE \E fault \in FirstFault(LengthChecks) : Refuse(fault)
  <2> PICK fault \in FirstFault(LengthChecks) : Refuse(fault)
    BY <1>1
  <2>1. fault \in Faults /\ ~ Passes(LengthChecks)
    BY FaultsOfTheStages, FirstFaultRefuses
  <2>2. ~ Appointed(chain, request)
    BY <2>1, LengthPasses, <1>0, Running, AppointedByGroups, MaxChainDepthAssumption
  <2> QED
    BY <1>0, <2>1, <2>2, RefuseInv
<1>2. CASE Passes(LengthChecks) /\ GoOn("links", 1)
  <2>1. Len(chain) \in 1 .. MaxChainDepth
    BY <1>0, <1>2, Running, LengthPasses, MaxChainDepthAssumption
  <2>2. Established'
    BY <1>0, <1>2, <2>1 DEF GoOn, Established, LinkChecked, WalkChecked
  <2>3. IndexOK'
    BY <1>0, <1>2, <2>1 DEF GoOn, IndexOK
  <2>4. "links" \in Stages /\ 1 \in 1 .. Len(chain) + 1
    BY <1>0, Running DEF Stages
  <2> QED
    BY <1>0, <1>2, <2>2, <2>3, <2>4, GoOnInv
<1> QED
  BY <1>1, <1>2 DEF CheckLength, Judge

\* One round of the link loop adds the link it passed to those in force.
LEMMA CheckLinkInv == Inv /\ CheckLink => Inv'
<1> SUFFICES ASSUME Inv, CheckLink PROVE Inv'
  OBVIOUS
<1> DEFINE link == chain[index]
<1>0. pc = "links" /\ pc # "done" /\ UNCHANGED <<chain, request>>
  BY DEF CheckLink, Judge
<1>a. index \in 1 .. Len(chain) /\ Len(chain) \in Nat /\ link \in Link
      /\ chain \in Seq(Link) /\ request \in Request
  BY <1>0, Running DEF CheckLink, IndexOK
<1>1. CASE \E fault \in FirstFault(LinkChecks(link)) : Refuse(fault)
  <2> PICK fault \in FirstFault(LinkChecks(link)) : Refuse(fault)
    BY <1>1
  <2>1. fault \in Faults /\ ~ Passes(LinkChecks(link))
    BY FaultsOfTheStages, FirstFaultRefuses
  <2>2. ~ LinkInForce(link)
    BY <1>a, <2>1, LinkPasses
  <2>3. ~ Appointed(chain, request)
    BY <1>a, <2>2, AppointedByGroups
  <2> QED
    BY <1>0, <2>1, <2>3, RefuseInv
<1>2. CASE Passes(LinkChecks(link)) /\ GoOn("links", index + 1)
  <2>1. LinkInForce(link)
    BY <1>a, <1>2, LinkPasses
  <2>2. Established'
    <3>1. Established
      BY <1>0, Running
    <3>2. pc' = "links" /\ index' = index + 1 /\ chain' = chain /\ request' = request
      BY <1>0, <1>2 DEF GoOn
    <3>3. \A i \in 1 .. Len(chain) : i < index + 1 => LinkInForce(chain[i])
      BY <1>0, <1>a, <2>1, <3>1 DEF Established, LinkChecked
    <3> QED
      BY <1>0, <3>1, <3>2, <3>3
         DEF Established, LinkChecked, WalkChecked, LinkInForce
  <2>3. IndexOK'
    BY <1>0, <1>a, <1>2 DEF GoOn, IndexOK
  <2>4. "links" \in Stages /\ index + 1 \in 1 .. Len(chain) + 1
    BY <1>a DEF Stages
  <2> QED
    BY <1>0, <1>2, <2>2, <2>3, <2>4, GoOnInv
<1> QED
  BY <1>1, <1>2 DEF CheckLink, Judge

\* The presenter's check ends the link loop and starts the walk.
LEMMA CheckPresenterInv == Inv /\ CheckPresenter => Inv'
<1> SUFFICES ASSUME Inv, CheckPresenter PROVE Inv'
  OBVIOUS
<1>0. pc = "links" /\ pc # "done" /\ UNCHANGED <<chain, request>>
  BY DEF CheckPresenter, Judge
<1>a. /\ chain \in Seq(Link) /\ request \in Request /\ Len(chain) \in Nat
      /\ index > Len(chain) /\ index \in Nat /\ Established
  BY <1>0, Running DEF CheckPresenter, IndexOK
<1>1. CASE \E fault \in FirstFault(PresenterChecks) : Refuse(fault)
  <2> PICK fault \in FirstFault(PresenterChecks) : Refuse(fault)
    BY <1>1
  <2>1. fault \in Faults /\ ~ Passes(PresenterChecks)
    BY FaultsOfTheStages, FirstFaultRefuses
  <2>2. ~ Appointed(chain, request)
    BY <1>a, <2>1, PresenterPasses, AppointedByGroups DEF Presented
  <2> QED
    BY <1>0, <2>1, <2>2, RefuseInv
<1>2. CASE Passes(PresenterChecks) /\ GoOn("walk", 1)
  <2>1. Presented
    BY <1>2, PresenterPasses DEF Presented
  <2>2. \A i \in 1 .. Len(chain) : LinkInForce(chain[i])
    BY <1>0, <1>a DEF Established, LinkChecked
  <2>3. Len(chain) \in 1 .. MaxChainDepth
    BY <1>0, <1>a DEF Established
  <2>4. NarrowsPair(chain[1], chain[1])
    <3>1. chain[1] \in Link /\ LinkInForce(chain[1])
      BY <1>a, <2>2, <2>3
    <3> QED
      BY <3>1 DEF NarrowsPair, LinkInForce, Link
  <2>5. Established'
    <3>1. pc' = "walk" /\ index' = 1 /\ chain' = chain /\ request' = request
      BY <1>0, <1>2 DEF GoOn
    <3>2. \A j \in 1 .. Len(chain) : j - 1 < 1 =>
            \A i \in 1 .. j : NarrowsPair(chain[i], chain[j])
      BY <1>a, <2>4
    <3> QED
      BY <1>a, <2>1, <2>2, <2>3, <3>1, <3>2
         DEF Established, LinkChecked, WalkChecked, LinkInForce,
             Presented, NarrowsPair
  <2>6. IndexOK'
    BY <1>0, <1>2, <2>3 DEF GoOn, IndexOK
  <2>7. "walk" \in Stages /\ 1 \in 1 .. Len(chain) + 1
    BY <1>a DEF Stages
  <2> QED
    BY <1>0, <1>2, <2>5, <2>6, <2>7, GoOnInv
<1> QED
  BY <1>1, <1>2 DEF CheckPresenter, Judge

(* One step further up, every link below is still within the new ancestor:   *)
(* narrowing is transitive, and that is why comparing neighbours suffices.   *)
LEMMA NarrowsFurther ==
    ASSUME chain \in Seq(Link), request \in Request,
           NEW k \in 1 .. Len(chain) - 1,
           \A i \in 1 .. Len(chain) : LinkInForce(chain[i]),
           \A i \in 1 .. k : NarrowsPair(chain[i], chain[k]),
           NarrowsPair(chain[k], chain[k + 1])
    PROVE  \A i \in 1 .. k + 1 : NarrowsPair(chain[i], chain[k + 1])
<1>1. \A i \in 1 .. Len(chain) : chain[i].until \in Nat
  <2>1. \A i \in 1 .. Len(chain) : chain[i] \in Link
    OBVIOUS
  <2> QED
    BY <2>1 DEF LinkInForce, Link
<1> SUFFICES ASSUME NEW i \in 1 .. k + 1
             PROVE  NarrowsPair(chain[i], chain[k + 1])
  OBVIOUS
<1>2. CASE i = k + 1
  BY <1>1, <1>2 DEF NarrowsPair
<1>3. CASE i \in 1 .. k
  <2>1. NarrowsPair(chain[i], chain[k])
    BY <1>3
  <2>2. /\ chain[i].until \in Nat
        /\ chain[k].until \in Nat
        /\ chain[k + 1].until \in Nat
    BY <1>1, <1>3
  <2> QED
    BY <2>1, <2>2 DEF NarrowsPair
<1> QED
  BY <1>2, <1>3

(* A budget that falls at every step is at least the number of steps: why    *)
(* the code needs no loop over depths.                                       *)
LEMMA BudgetCoversDepth ==
    ASSUME NEW link \in Link, NEW parent \in Link, NEW steps \in Nat \ {0},
           steps > 1 => PermitsDepth(link, steps - 1),
           SpendsBudget(link, parent)
    PROVE  PermitsDepth(parent, steps)
  BY NoneAssumption DEF PermitsDepth, SpendsBudget, Link

\* One round of the walk adds the pair of links it passed.
LEMMA WalkLinkInv == Inv /\ WalkLink => Inv'
<1> SUFFICES ASSUME Inv, WalkLink PROVE Inv'
  OBVIOUS
<1> DEFINE link   == chain[index]
           parent == chain[index + 1]
<1>0. pc = "walk" /\ pc # "done" /\ UNCHANGED <<chain, request>>
  BY DEF WalkLink, Judge
<1>a. /\ chain \in Seq(Link) /\ request \in Request /\ Len(chain) \in Nat
      /\ index \in 1 .. Len(chain) - 1 /\ Established
  BY <1>0, Running DEF WalkLink, IndexOK
<1>b. link \in Link /\ parent \in Link
  <2>1. index \in 1 .. Len(chain) /\ index + 1 \in 1 .. Len(chain)
    BY <1>a
  <2> QED
    BY <1>a, <2>1
<1>c. \A i \in 1 .. Len(chain) : LinkInForce(chain[i])
  BY <1>0, <1>a DEF Established, LinkChecked
<1>d. LinkInForce(link) /\ LinkInForce(parent)
  BY <1>a, <1>c
<1>1. CASE \E fault \in FirstFault(WalkChecks(link, parent)) : Refuse(fault)
  <2> PICK fault \in FirstFault(WalkChecks(link, parent)) : Refuse(fault)
    BY <1>1
  <2>1. fault \in Faults /\ ~ Passes(WalkChecks(link, parent))
    BY FaultsOfTheStages, FirstFaultRefuses
  <2>2. ~ (HandedTo(link, parent) /\ NarrowsPair(link, parent) /\ SpendsBudget(link, parent))
    BY <1>b, <1>d, <1>a, <2>1, WalkPasses
  <2>3. ~ Appointed(chain, request)
    <3>1. SUFFICES ASSUME Appointed(chain, request) PROVE FALSE
      OBVIOUS
    <3>2. AllHandedTo /\ AllNarrow
      BY <1>a, <3>1, AppointedByGroups
    <3>3. HandedTo(link, parent) /\ SpendsBudget(link, parent)
      BY <1>a, <3>2 DEF AllHandedTo
    <3>4. index + 1 \in 1 .. Len(chain) /\ index \in 1 .. index + 1
      BY <1>a
    <3>5. NarrowsPair(link, parent)
      BY <3>2, <3>4 DEF AllNarrow
    <3> QED
      BY <2>2, <3>3, <3>5
  <2> QED
    BY <1>0, <2>1, <2>3, RefuseInv
<1>2. CASE Passes(WalkChecks(link, parent)) /\ GoOn("walk", index + 1)
  <2>1. HandedTo(link, parent) /\ NarrowsPair(link, parent) /\ SpendsBudget(link, parent)
    BY <1>a, <1>b, <1>d, <1>2, WalkPasses
  <2>2. pc' = "walk" /\ index' = index + 1 /\ chain' = chain /\ request' = request
    BY <1>0, <1>2 DEF GoOn
  <2>3. \A i \in 1 .. Len(chain) - 1 : i < index + 1 =>
          HandedTo(chain[i], chain[i + 1]) /\ SpendsBudget(chain[i], chain[i + 1])
    BY <1>0, <1>a, <2>1 DEF Established, WalkChecked
  <2>4. \A j \in 1 .. Len(chain) : j - 1 < index =>
          \A i \in 1 .. j : NarrowsPair(chain[i], chain[j])
    BY <1>0, <1>a DEF Established, WalkChecked
  <2>5. \A i \in 1 .. index + 1 : NarrowsPair(chain[i], chain[index + 1])
    <3>1. \A i \in 1 .. index : NarrowsPair(chain[i], chain[index])
      BY <1>a, <2>4
    <3> QED
      BY <1>a, <1>c, <2>1, <3>1, NarrowsFurther
  <2>6. \A j \in 1 .. Len(chain) : j - 1 < index + 1 =>
          \A i \in 1 .. j : NarrowsPair(chain[i], chain[j])
    <3> SUFFICES ASSUME NEW j \in 1 .. Len(chain), j - 1 < index + 1
                 PROVE  \A i \in 1 .. j : NarrowsPair(chain[i], chain[j])
      OBVIOUS
    <3>1. CASE j - 1 < index
      BY <2>4, <3>1
    <3>2. CASE j = index + 1
      BY <2>5, <3>2
    <3> QED
      BY <1>a, <3>1, <3>2
  <2>10. \A i \in 2 .. Len(chain) : i - 1 < index + 1 => PermitsDepth(chain[i], i - 1)
    <3> SUFFICES ASSUME NEW i \in 2 .. Len(chain), i - 1 < index + 1
                 PROVE  PermitsDepth(chain[i], i - 1)
      OBVIOUS
    <3>1. CASE i - 1 < index
      BY <1>0, <1>a, <3>1 DEF Established, WalkChecked
    <3>2. CASE i = index + 1
      <4>1. index > 1 => PermitsDepth(link, index - 1)
        BY <1>0, <1>a DEF Established, WalkChecked
      <4> QED
        BY <1>a, <1>b, <2>1, <3>2, <4>1, BudgetCoversDepth
    <3> QED
      BY <1>a, <3>1, <3>2
  <2>7. Established'
    BY <1>0, <1>a, <1>c, <2>2, <2>3, <2>6, <2>10
       DEF Established, LinkChecked, WalkChecked, LinkInForce,
           Presented, NarrowsPair, HandedTo, SpendsBudget, PermitsDepth
  <2>8. IndexOK'
    BY <1>a, <2>2 DEF IndexOK
  <2>9. "walk" \in Stages /\ index + 1 \in 1 .. Len(chain) + 1
    BY <1>a DEF Stages
  <2> QED
    BY <1>0, <1>2, <2>7, <2>8, <2>9, GoOnInv
<1> QED
  BY <1>1, <1>2 DEF WalkLink, Judge

\* The root's check closes the facts about the chain itself.
LEMMA CheckRootInv == Inv /\ CheckRoot => Inv'
<1> SUFFICES ASSUME Inv, CheckRoot PROVE Inv'
  OBVIOUS
<1>0. pc = "walk" /\ pc # "done" /\ UNCHANGED <<chain, request>>
  BY DEF CheckRoot, Judge
<1>a. /\ chain \in Seq(Link) /\ request \in Request /\ Len(chain) \in Nat
      /\ index = Len(chain) /\ Established
  BY <1>0, Running DEF CheckRoot, IndexOK
<1>1. CASE \E fault \in FirstFault(RootChecks) : Refuse(fault)
  <2> PICK fault \in FirstFault(RootChecks) : Refuse(fault)
    BY <1>1
  <2>1. fault \in Faults /\ ~ Passes(RootChecks)
    BY FaultsOfTheStages, FirstFaultRefuses
  <2>2. ~ Appointed(chain, request)
    BY <1>a, <2>1, RootPasses, AppointedByGroups DEF InPrincipalsName
  <2> QED
    BY <1>0, <2>1, <2>2, RefuseInv
<1>2. CASE Passes(RootChecks) /\ GoOn("asked", 1)
  <2>1. InPrincipalsName
    BY <1>2, RootPasses DEF InPrincipalsName
  <2>2. pc' = "asked" /\ index' = 1 /\ chain' = chain /\ request' = request
    BY <1>0, <1>2 DEF GoOn
  <2>3. /\ \A i \in 1 .. Len(chain) - 1 : i < index
        /\ \A j \in 1 .. Len(chain) : j - 1 < index
    BY <1>a
  <2>4. Established'
    BY <1>0, <1>a, <2>1, <2>2, <2>3
       DEF Established, LinkChecked, WalkChecked, LinkInForce,
           Presented, NarrowsPair, HandedTo, SpendsBudget, PermitsDepth, InPrincipalsName
  <2>5. IndexOK'
    BY <2>2 DEF IndexOK
  <2>6. "asked" \in Stages /\ 1 \in 1 .. Len(chain) + 1
    BY <1>a DEF Stages
  <2> QED
    BY <1>0, <1>2, <2>4, <2>5, <2>6, GoOnInv
<1> QED
  BY <1>1, <1>2 DEF CheckRoot, Judge

\* The last checks decide, and what they return is the leaf's.
LEMMA CheckAskedInv == Inv /\ CheckAsked => Inv'
<1> SUFFICES ASSUME Inv, CheckAsked PROVE Inv'
  OBVIOUS
<1>0. pc = "asked" /\ pc # "done" /\ UNCHANGED <<chain, request>>
  BY DEF CheckAsked
<1>a. /\ chain \in Seq(Link) /\ request \in Request /\ Len(chain) \in Nat \ {0}
      /\ Established /\ index = 1
  BY <1>0, Running DEF Established, IndexOK
<1>1. CASE \E fault \in FirstFault(AskedChecks) : Refuse(fault)
  <2> PICK fault \in FirstFault(AskedChecks) : Refuse(fault)
    BY <1>1
  <2>1. fault \in Faults /\ ~ Passes(AskedChecks)
    BY FaultsOfTheStages, FirstFaultRefuses
  <2>2. ~ Appointed(chain, request)
    BY <1>a, <2>1, AskedPasses, AppointedByGroups DEF Asked
  <2> QED
    BY <1>0, <2>1, <2>2, RefuseInv
<1>2. CASE Passes(AskedChecks) /\ Appoint
  <2>1. Asked
    BY <1>2, AskedPasses DEF Asked
  <2>2. /\ pc' = "done" /\ index' = index /\ chain' = chain /\ request' = request
        /\ verdict' = "accepted"
    BY <1>0, <1>2 DEF Appoint, Return
  <2>3. Established'
    BY <1>0, <1>a, <2>1, <2>2
       DEF Established, LinkChecked, WalkChecked, LinkInForce,
           Presented, NarrowsPair, HandedTo, SpendsBudget, PermitsDepth, InPrincipalsName,
           Asked
  <2>4. granted' \in VerifiedDelegation /\ granted' # None
    <3>1. chain[1] \in Link
      BY <1>a
    <3>2. granted' \in VerifiedDelegation
      BY <1>2, <1>a, <3>1 DEF Appoint, Return, VerifiedDelegation, Leaf, Link, Request
    <3> QED
      BY <3>2, NoneIsNoGrant
  <2>5. TypeOK'
    BY <1>a, <2>2, <2>4 DEF TypeOK, Stages, Faults
  <2>6. IndexOK' /\ GrantedOK'
    BY <1>2, <2>2 DEF IndexOK, GrantedOK, Appoint, Return, Leaf
  <2>7. verdict' \notin Faults
    BY <2>2 DEF Faults
  <2> QED
    BY <2>3, <2>5, <2>6, <2>7 DEF Inv
<1> QED
  BY <1>1, <1>2 DEF CheckAsked

\* Every step of the call, and every stuttering step, preserves the invariant.
LEMMA NextInv == Inv /\ [Next]_vars => Inv'
<1> SUFFICES ASSUME Inv, [Next]_vars PROVE Inv'
  OBVIOUS
<1>1. CASE CheckLength
  BY <1>1, CheckLengthInv
<1>2. CASE CheckLink
  BY <1>2, CheckLinkInv
<1>3. CASE CheckPresenter
  BY <1>3, CheckPresenterInv
<1>4. CASE WalkLink
  BY <1>4, WalkLinkInv
<1>7. CASE CheckRoot
  BY <1>7, CheckRootInv
<1>8. CASE CheckAsked
  BY <1>8, CheckAskedInv
<1>9. CASE Returned \/ UNCHANGED vars
  BY <1>9 DEF Returned, vars, Inv, TypeOK, IndexOK, GrantedOK, Established,
     LinkChecked, WalkChecked, LinkInForce, Presented, NarrowsPair,
     HandedTo, SpendsBudget, PermitsDepth, InPrincipalsName, Asked
<1> QED
  BY <1>1, <1>2, <1>3, <1>4, <1>7, <1>8, <1>9 DEF Next

(* The invariant holds throughout every call.                                *)
THEOREM InvHolds == Spec => []Inv
  BY InitInv, NextInv, PTL DEF Spec

-----------------------------------------------------------------------------
(* What it gives.                                                           *)

(* The call's locals stay in range, and a VerifiedDelegation exists exactly   *)
(* when the verdict is "accepted".                                           *)
THEOREM TypeCorrect == Spec => []TypeOK
<1>1. Inv => TypeOK
  BY DEF Inv
<1> QED
  BY <1>1, InvHolds, PTL

(* A chain that is accepted appoints whoever presents it.                    *)
LEMMA AcceptedIsAppointed ==
    ASSUME Inv, granted # None
    PROVE  Appointed(chain, request)
<1>1. verdict = "accepted" /\ pc = "done" /\ chain \in Seq(Link) /\ request \in Request
  BY DEF Inv, TypeOK
<1>2. Established
  BY <1>1 DEF Inv, Faults
<1>3. Len(chain) \in Nat
  BY <1>1
<1>4. Len(chain) \in 1 .. MaxChainDepth /\ Presented /\ InPrincipalsName /\ Asked
  BY <1>1, <1>2 DEF Established
<1>5. \A i \in 1 .. Len(chain) : LinkInForce(chain[i])
  BY <1>1, <1>2 DEF Established, LinkChecked
<1>6. AllHandedTo /\ AllNarrow /\ AllPermitDepth
  BY <1>1, <1>2 DEF Established, WalkChecked,
     AllHandedTo, AllNarrow, AllPermitDepth
<1> QED
  BY <1>1, <1>4, <1>5, <1>6, AppointedByGroups

(* What verify_chain returns is never more than any grant above appointed    *)
(* for, at a depth each of them allows: for every chain, request and ceiling.*)
THEOREM NeverMore == Spec => []NeverMoreThanAppointed
<1>1. Inv => NeverMoreThanAppointed
  <2> SUFFICES ASSUME Inv, granted # None, NEW j \in DOMAIN chain
               PROVE  /\ granted.scope \subseteq chain[j].scope
                      /\ request.act \in chain[j].scope
                      /\ chain[j].from <= request.at
                      /\ chain[j].until # None /\ request.at <= chain[j].until
                      /\ j > 1 => chain[j].maxDepth # None /\ j - 1 <= chain[j].maxDepth
    BY DEF NeverMoreThanAppointed
  <2>1. Appointed(chain, request)
    BY AcceptedIsAppointed
  <2>2. chain \in Seq(Link) /\ 1 \in 1 .. j /\ j \in 1 .. Len(chain)
    BY DEF Inv, TypeOK
  <2>3. granted.scope = Leaf(chain).scope
    BY DEF Inv, GrantedOK
  <2>4. chain[1].scope \subseteq chain[j].scope
    BY <2>1, <2>2 DEF Appointed, Narrows
  <2> QED
    BY <2>1, <2>2, <2>3, <2>4 DEF Appointed, AllInForce, WithinDepth, Leaf
<1> QED
  BY <1>1, InvHolds, PTL

(* The part of an accepted chain above a link appoints that link's issuer.   *)
LEMMA AppointedAbove ==
    ASSUME chain \in Seq(Link), request \in Request, Appointed(chain, request),
           NEW k \in 1 .. Len(chain) - 1
    PROVE  Appointed(SubSeq(chain, k + 1, Len(chain)),
                     [request EXCEPT !.presenter = chain[k].issuer])
<1> DEFINE above == SubSeq(chain, k + 1, Len(chain))
           asked == [request EXCEPT !.presenter = chain[k].issuer]
<1>1. /\ Len(chain) \in Nat /\ above \in Seq(Link)
      /\ Len(above) = Len(chain) - k
      /\ DOMAIN chain = 1 .. Len(chain) /\ DOMAIN above = 1 .. Len(above)
      /\ \A i \in 1 .. Len(above) : above[i] = chain[i + k]
  OBVIOUS
<1>2. \A i \in 1 .. Len(chain) : chain[i] \in Link
  OBVIOUS
<1>3. /\ asked.at = request.at /\ asked.principal = request.principal
      /\ asked.act = request.act /\ asked.presenter = chain[k].issuer
  BY DEF Request
<1> HIDE DEF above, asked
<1>b. \A i \in 1 .. Len(above) :
        i + k \in 1 .. Len(chain) /\ above[i] = chain[i + k]
  BY <1>1
<1>4. Len(above) \in 1 .. MaxChainDepth
  BY <1>1, MaxChainDepthAssumption DEF Appointed
<1>5. AllInForce(above, asked)
  <2> SUFFICES ASSUME NEW i \in 1 .. Len(above)
               PROVE  /\ above[i].kind = "Delegation"
                      /\ ~ above[i].accepts
                      /\ above[i].scope # {}
                      /\ above[i].from <= asked.at
                      /\ above[i].until # None /\ asked.at <= above[i].until
    BY <1>1 DEF AllInForce
  <2>1. i + k \in DOMAIN chain /\ above[i] = chain[i + k]
    BY <1>1, <1>b
  <2> QED
    BY <1>3, <2>1 DEF Appointed, AllInForce
<1>6. HandedDown(above, asked)
  <2>1. Root(above) = Root(chain)
    BY <1>1 DEF Root
  <2>2. SameReference(Leaf(above).subject, asked.presenter)
    <3>1. Leaf(above) = chain[k + 1]
      BY <1>1 DEF Leaf
    <3> QED
      BY <1>3, <3>1 DEF Appointed, HandedDown, SameReference
  <2>3. \A i \in 1 .. Len(above) - 1 :
          Pinned(above, i) /\ SameReference(above[i].issuer, above[i + 1].subject)
    <3> SUFFICES ASSUME NEW i \in 1 .. Len(above) - 1
                 PROVE  /\ Pinned(above, i)
                        /\ SameReference(above[i].issuer, above[i + 1].subject)
      OBVIOUS
    <3>1. /\ i + k \in 1 .. Len(chain) - 1
          /\ above[i] = chain[i + k] /\ above[i + 1] = chain[(i + k) + 1]
      <4>1. i \in 1 .. Len(above) /\ i + 1 \in 1 .. Len(above)
        BY <1>1
      <4> QED
        BY <1>1, <4>1
    <3>2. Pinned(chain, i + k)
          /\ SameReference(chain[i + k].issuer, chain[(i + k) + 1].subject)
      BY <3>1 DEF Appointed, HandedDown
    <3> QED
      BY <3>1, <3>2 DEF Pinned
  <2> QED
    BY <1>3, <2>1, <2>2, <2>3 DEF Appointed, HandedDown
<1>7. Narrows(above)
  <2> SUFFICES ASSUME NEW j \in 1 .. Len(above), NEW i \in 1 .. j
               PROVE  /\ above[i].scope \subseteq above[j].scope
                      /\ above[i].until <= above[j].until
    BY <1>1 DEF Narrows
  <2>1. /\ j + k \in DOMAIN chain /\ i + k \in 1 .. j + k
        /\ above[i] = chain[i + k] /\ above[j] = chain[j + k]
    BY <1>1
  <2> QED
    BY <2>1 DEF Appointed, Narrows
<1>8. WithinDepth(above)
  <2>1. \A j \in 2 .. Len(above) :
          above[j].maxDepth # None /\ j - 1 <= above[j].maxDepth
    <3> SUFFICES ASSUME NEW j \in 2 .. Len(above)
                 PROVE  above[j].maxDepth # None /\ j - 1 <= above[j].maxDepth
      OBVIOUS
    <3>1. j + k \in 2 .. Len(chain) /\ above[j] = chain[j + k]
      BY <1>1
    <3>2. chain[j + k].maxDepth # None /\ (j + k) - 1 <= chain[j + k].maxDepth
      BY <3>1 DEF Appointed, WithinDepth
    <3>3. chain[j + k].maxDepth \in Nat
      <4>1. chain[j + k] \in Link
        BY <1>1, <3>1
      <4>2. chain[j + k].maxDepth \in Nat \cup {None}
        BY <4>1 DEF Link
      <4> QED
        BY <3>2, <4>2
    <3> QED
      BY <3>1, <3>2, <3>3
  <2>2. \A i \in 1 .. Len(above) - 1 :
          above[i].maxDepth # None => above[i].maxDepth < above[i + 1].maxDepth
    <3> SUFFICES ASSUME NEW i \in 1 .. Len(above) - 1
                 PROVE  above[i].maxDepth # None
                          => above[i].maxDepth < above[i + 1].maxDepth
      OBVIOUS
    <3>1. i \in 1 .. Len(above) /\ i + 1 \in 1 .. Len(above)
      BY <1>1
    <3>2. /\ i + k \in 1 .. Len(chain) - 1
          /\ above[i] = chain[i + k] /\ above[i + 1] = chain[(i + k) + 1]
      BY <1>1, <3>1
    <3> QED
      BY <3>2 DEF Appointed, WithinDepth
  <2> QED
    BY <2>1, <2>2 DEF WithinDepth
<1>9. asked.act \in Leaf(above).scope
  <2>1. /\ k + 1 \in DOMAIN chain /\ 1 \in 1 .. k + 1 /\ Leaf(above) = chain[k + 1]
    BY <1>1 DEF Leaf
  <2>2. chain[1].scope \subseteq chain[k + 1].scope
    BY <2>1 DEF Appointed, Narrows
  <2> QED
    BY <1>3, <2>1, <2>2 DEF Appointed, Leaf
<1>10. Appointed(above, asked)
  BY <1>4, <1>5, <1>6, <1>7, <1>8, <1>9 DEF Appointed
<1> QED
  BY <1>10 DEF above, asked

(* Every hop was made by a party that could have done the act itself.        *)
THEOREM DelegatorsWereAppointed == Spec => []DelegatorWasAppointed
<1>1. Inv => DelegatorWasAppointed
  BY AcceptedIsAppointed, AppointedAbove DEF DelegatorWasAppointed, Inv, TypeOK
<1> QED
  BY <1>1, InvHolds, PTL

-----------------------------------------------------------------------------
(* The refinement, without its fairness: every step of verify_chain is the   *)
(* abstract verifier's decision or leaves its answer pending.                *)

(* The abstract verifier judges by the same terms.                           *)
LEMMA SameTerms ==
    /\ Decision!Link = Link
    /\ Decision!Request = Request
    /\ \A ch, rq : Decision!Appointed(ch, rq) <=> Appointed(ch, rq)
<1>1. Decision!Link = Link /\ Decision!Request = Request
  BY DEF Decision!Link, Link, Decision!Request, Request, Decision!Ref, Ref,
     Decision!Named, Named
<1> SUFFICES ASSUME NEW ch, NEW rq
             PROVE  Decision!Appointed(ch, rq) <=> Appointed(ch, rq)
  BY <1>1
<1>2. Decision!AllInForce(ch, rq) <=> AllInForce(ch, rq)
  BY DEF Decision!AllInForce, AllInForce
<1>3. Decision!HandedDown(ch, rq) <=> HandedDown(ch, rq)
  BY DEF Decision!HandedDown, HandedDown, Decision!Pinned, Pinned, Decision!Root,
     Root, Decision!Leaf, Leaf, Decision!SameReference, SameReference,
     Decision!Unreadable, Unreadable, Decision!SameDigest, SameDigest
<1>4. Decision!Narrows(ch) <=> Narrows(ch)
  BY DEF Decision!Narrows, Narrows
<1>5. Decision!WithinDepth(ch) <=> WithinDepth(ch)
  BY DEF Decision!WithinDepth, WithinDepth
<1> QED
  BY <1>2, <1>3, <1>4, <1>5 DEF Decision!Appointed, Appointed, Decision!Leaf, Leaf

\* A call that begins is a question not yet decided.
LEMMA InitDecision == Init => Decision!Init
  BY ChainsAssumption, RequestsAssumption, SameTerms DEF Init, Decision!Init, Answer

GrantsOnlyTheAppointed == granted # None => Appointed(chain, request)

\* Every step of the call decides as the abstract verifier does, or is none of
\* its steps.
LEMMA StepDecision ==
    Inv /\ Inv' /\ GrantsOnlyTheAppointed' /\ [Next]_vars
      => [Decision!Next]_(Decision!vars)
<1> SUFFICES ASSUME Inv, Inv', GrantsOnlyTheAppointed', [Next]_vars
             PROVE  [Decision!Next]_(Decision!vars)
  OBVIOUS
<1>1. chain' = chain /\ request' = request
  BY DEF Next, vars, CheckLength, CheckLink, CheckPresenter, WalkLink,
     CheckRoot, CheckAsked, Returned, Judge
<1>2. CASE verdict' = verdict
  BY <1>1, <1>2 DEF Decision!vars, Answer
<1>3. CASE verdict' # verdict
  <2>1. pc # "done" /\ pc' = "done"
    BY <1>3 DEF Next, vars, CheckLength, CheckLink, CheckPresenter, WalkLink,
       CheckRoot, CheckAsked, Returned, Judge, Refuse, GoOn, Appoint, Return
  <2>2. verdict = "pending" /\ Answer = "pending"
    BY <2>1 DEF Inv, TypeOK, Answer
  <2>3. CASE verdict' = "accepted"
    <3>1. Appointed(chain, request)'
      <4>1. (granted # None)'
        BY <2>3 DEF Inv, TypeOK
      <4> QED
        BY <4>1 DEF GrantsOnlyTheAppointed
    <3> QED
      BY <1>1, <2>2, <2>3, <3>1, SameTerms DEF Decision!Next, Decision!Decide, Answer
  <2>4. CASE verdict' \in Faults
    <3>1. ~ Appointed(chain', request')
      BY <2>4 DEF Inv
    <3>2. Answer' = "refused"
      BY <2>4 DEF Answer, Faults
    <3> QED
      BY <1>1, <2>2, <3>1, <3>2, SameTerms DEF Decision!Next, Decision!Decide
  <2>5. verdict' # "pending"
    BY <2>1 DEF Inv, TypeOK
  <2> QED
    BY <2>3, <2>4, <2>5 DEF Inv, TypeOK
<1> QED
  BY <1>2, <1>3

(* verify_chain grants if, and only if, the presenter is appointed: every     *)
(* behaviour of the verifier is one of the abstract verifier's.              *)
THEOREM ImplementsDecisionSafely ==
    Spec => Decision!Init /\ [][Decision!Next]_(Decision!vars)
<1>1. Inv => GrantsOnlyTheAppointed
  BY AcceptedIsAppointed DEF GrantsOnlyTheAppointed
<1> QED
  BY <1>1, InvHolds, InitDecision, StepDecision, PTL DEF Spec

=============================================================================
