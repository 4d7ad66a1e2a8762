------------------------ MODULE AuthorityChainProofs ------------------------
(***************************************************************************)
(* Proofs about authority::verify_chain for every chain, every request and *)
(* every ceiling on the length.                                            *)
(*                                                                         *)
(* The inductive invariant says what the checks already made have          *)
(* established, group by group (Established), and that a refusal is never  *)
(* wrong: some part of Entitled fails.  The walk compares neighbours; what *)
(* makes it enough is that the comparison of every pair of links below the *)
(* index is carried along, one link further each step.                     *)
(***************************************************************************)
EXTENDS AuthorityChain, DTGBaseProofs

-----------------------------------------------------------------------------
(* What a group of checks establishes when all of its checks pass.          *)

LinkInForce(link) ==
    /\ link.kind = "Authority"
    /\ link.actions # {}
    /\ link.from <= request.at
    /\ link.until # None
    /\ request.at <= link.until

HandedTo(link, parent) ==
    /\ parent.digest # None
    /\ link.parent # None
    /\ ~ Unreadable(link.parent)
    /\ SameDigest(link.parent, parent.digest)
    /\ SameReference(link.issuer, parent.subject)

NarrowsPair(link, ancestor) ==
    /\ link.scope = ancestor.scope
    /\ link.actions \subseteq ancestor.actions
    /\ link.until <= ancestor.until

LowersLimit(link, parent) ==
    (link.maxAttenuation # None /\ parent.maxAttenuation # None)
        => link.maxAttenuation < parent.maxAttenuation

PermitsDepth(link, steps) ==
    link.maxAttenuation # None => steps <= link.maxAttenuation

(* The passing checks of each group, read off the sequence of checks.       *)

LEMMA LengthPasses ==
    Passes(LengthChecks) <=> (Len(chain) # 0 /\ ~ (Len(chain) > MaxChainDepth))
  BY Passes2 DEF LengthChecks

\* A link that passes the link loop confers something and is in force.
LEMMA LinkPasses ==
    ASSUME NEW link \in Link, request \in Request
    PROVE  Passes(LinkChecks(link)) <=> LinkInForce(link)
<1> DEFINE notVAC == link.kind # "Authority"
           empty  == link.actions = {}
           early  == link.from > request.at
           noEnd  == link.until = None
           late   == link.until # None /\ link.until < request.at
<1>1. LinkChecks(link) =
        << Check("NotAuthority", notVAC), Check("NoActions", empty),
           Check("NotValidNow", early), Check("NoExpiry", noEnd),
           Check("NotValidNow", late) >>
  BY DEF LinkChecks
<1> HIDE DEF notVAC, empty, early, noEnd, late
<1>2. Passes(LinkChecks(link)) <=> ~ notVAC /\ ~ empty /\ ~ early /\ ~ noEnd /\ ~ late
  BY <1>1 DEF Passes, Check
<1> QED
  BY <1>2, NoneAssumption
     DEF LinkInForce, Link, Request, notVAC, empty, early, noEnd, late

\* A link that passes the walk names its parent, was issued by the parent's
\* subject, and exceeds it in nothing.
LEMMA WalkPasses ==
    ASSUME NEW link \in Link, NEW parent \in Link,
           LinkInForce(link), LinkInForce(parent)
    PROVE  Passes(WalkChecks(link, parent)) <=>
             /\ HandedTo(link, parent)
             /\ NarrowsPair(link, parent)
             /\ LowersLimit(link, parent)
<1> DEFINE noDigest  == parent.digest = None
           rootAbove == link.parent = None
           garbled   == link.parent # None /\ Unreadable(link.parent)
           differs   == link.parent # None /\ ~ SameDigest(link.parent, parent.digest)
           stranger  == ~ SameReference(link.issuer, parent.subject)
           elsewhere == link.scope # parent.scope
           widens    == ~ (link.actions \subseteq parent.actions)
           raises    == RaisesLimit(link.maxAttenuation, parent.maxAttenuation)
           outlives  == link.until # None /\ parent.until # None /\ link.until > parent.until
<1>0. WalkChecks(link, parent) =
        << Check("Digest", noDigest), Check("BrokenLink", rootAbove),
           Check("Digest", garbled), Check("BrokenLink", differs),
           Check("IssuerNotParentSubject", stranger), Check("WidensScope", elsewhere),
           Check("WidensActions", widens), Check("RaisesMaxAttenuation", raises),
           Check("OutlivesParent", outlives) >>
  BY DEF WalkChecks
<1> HIDE DEF noDigest, rootAbove, garbled, differs, stranger, elsewhere, widens,
             raises, outlives
<1>1. Passes(WalkChecks(link, parent)) <=>
        /\ ~ noDigest /\ ~ rootAbove /\ ~ garbled /\ ~ differs /\ ~ stranger
        /\ ~ elsewhere /\ ~ widens /\ ~ raises /\ ~ outlives
  BY <1>0 DEF Passes, Check
<1> USE DEF noDigest, rootAbove, garbled, differs, stranger, elsewhere, widens,
            raises, outlives
<1>2. LowersLimit(link, parent) <=>
        ~ RaisesLimit(link.maxAttenuation, parent.maxAttenuation)
  BY NoneAssumption DEF LowersLimit, RaisesLimit, Link
<1>3. link.until <= parent.until <=>
        ~ (link.until # None /\ parent.until # None /\ link.until > parent.until)
  BY NoneAssumption DEF LinkInForce, Link
<1> QED
  BY <1>1, <1>2, <1>3 DEF HandedTo, NarrowsPair

\* An ancestor that passes the depth loop permits the links below it.
LEMMA DepthPasses ==
    ASSUME NEW link \in Link, NEW steps \in Nat
    PROVE  Passes(DepthChecks(link, steps)) <=> PermitsDepth(link, steps)
<1>1. Passes(DepthChecks(link, steps)) <=>
        ~ (link.maxAttenuation # None /\ steps > link.maxAttenuation)
  BY Passes1 DEF DepthChecks
<1> QED
  BY <1>1, NoneAssumption DEF PermitsDepth, Link

\* The leaf is the presenter's.
LEMMA PresenterPasses ==
    Passes(PresenterChecks) <=> SameReference(Leaf(chain).subject, request.presenter)
  BY Passes1 DEF PresenterChecks, SameReference

\* The chain ends in a root that the governing party issued.
LEMMA RootPasses ==
    Passes(RootChecks) <=> /\ SameReference(Root(chain).issuer, request.governing)
                           /\ Root(chain).parent = None
  BY Passes2 DEF RootChecks, SameReference

\* The leaf covers what was asked for.
LEMMA AskedPasses ==
    Passes(AskedChecks) <=> /\ Leaf(chain).scope = request.scope
                            /\ request.action \in Leaf(chain).actions
  BY Passes2 DEF AskedChecks

(* Every error a group can return is an AuthorityError.                      *)
LEMMA FaultsOfTheStages ==
    /\ \A fault \in FirstFault(LengthChecks) : fault \in Faults
    /\ \A link : \A fault \in FirstFault(LinkChecks(link)) : fault \in Faults
    /\ \A fault \in FirstFault(PresenterChecks) : fault \in Faults
    /\ \A link, parent :
         \A fault \in FirstFault(WalkChecks(link, parent)) : fault \in Faults
    /\ \A link, steps :
         \A fault \in FirstFault(DepthChecks(link, steps)) : fault \in Faults
    /\ \A fault \in FirstFault(RootChecks) : fault \in Faults
    /\ \A fault \in FirstFault(AskedChecks) : fault \in Faults
<1>1. \A fault \in FirstFault(LengthChecks) : fault \in Faults
  BY FirstFaultRefuses DEF LengthChecks, Check, Faults
<1>2. \A link : \A fault \in FirstFault(LinkChecks(link)) : fault \in Faults
  BY FirstFaultRefuses DEF LinkChecks, Check, Faults
<1>3. \A fault \in FirstFault(PresenterChecks) : fault \in Faults
  BY FirstFaultRefuses DEF PresenterChecks, Check, Faults
<1>4. \A link, parent :
        \A fault \in FirstFault(WalkChecks(link, parent)) : fault \in Faults
  BY FirstFaultRefuses DEF WalkChecks, Check, Faults
<1>5. \A link, steps :
        \A fault \in FirstFault(DepthChecks(link, steps)) : fault \in Faults
  BY FirstFaultRefuses DEF DepthChecks, Check, Faults
<1>6. \A fault \in FirstFault(RootChecks) : fault \in Faults
  BY FirstFaultRefuses DEF RootChecks, Check, Faults
<1>7. \A fault \in FirstFault(AskedChecks) : fault \in Faults
  BY FirstFaultRefuses DEF AskedChecks, Check, Faults
<1> QED
  BY <1>1, <1>2, <1>3, <1>4, <1>5, <1>6, <1>7

-----------------------------------------------------------------------------
(* The promise, group by group.                                             *)

Presented == SameReference(Leaf(chain).subject, request.presenter)

Governed == /\ SameReference(Root(chain).issuer, request.governing)
            /\ Root(chain).parent = None

Asked == /\ Leaf(chain).scope = request.scope
         /\ request.action \in Leaf(chain).actions

AllPermitDepth ==
    \A i \in 2 .. Len(chain) : PermitsDepth(chain[i], i - 1)

AllHandedTo ==
    \A i \in 1 .. Len(chain) - 1 :
        HandedTo(chain[i], chain[i + 1]) /\ LowersLimit(chain[i], chain[i + 1])

AllNarrow ==
    \A j \in 1 .. Len(chain) : \A i \in 1 .. j : NarrowsPair(chain[i], chain[j])

\* The groups of checks together amount to the promise: this is where the
\* neighbour-by-neighbour facts of the walk become facts about every ancestor.
LEMMA EntitledByGroups ==
    ASSUME chain \in Seq(Link), request \in Request
    PROVE  Entitled(chain, request) <=>
             /\ Len(chain) \in 1 .. MaxChainDepth
             /\ \A i \in 1 .. Len(chain) : LinkInForce(chain[i])
             /\ Presented
             /\ AllHandedTo
             /\ AllNarrow
             /\ AllPermitDepth
             /\ Governed
             /\ Asked
<1>1. DOMAIN chain = 1 .. Len(chain) /\ Len(chain) \in Nat
  OBVIOUS
<1>2. AllInForce(chain, request) <=> \A i \in 1 .. Len(chain) : LinkInForce(chain[i])
  BY <1>1 DEF AllInForce, LinkInForce
<1>3. (HandedDown(chain, request) /\ WithinDepth(chain))
        <=> Presented /\ AllHandedTo /\ AllPermitDepth /\ Governed
  <2>1. HandedDown(chain, request)
          <=> /\ Presented /\ Governed
              /\ \A i \in 1 .. Len(chain) - 1 : HandedTo(chain[i], chain[i + 1])
    BY DEF HandedDown, Pinned, HandedTo, Presented, Governed
  <2>2. (\A j \in DOMAIN chain :
           chain[j].maxAttenuation # None => j - 1 <= chain[j].maxAttenuation)
          <=> AllPermitDepth
    <3>1. \A j \in DOMAIN chain : chain[j].maxAttenuation \in Nat \cup {None}
      <4>1. \A j \in 1 .. Len(chain) : chain[j] \in Link
        OBVIOUS
      <4> QED
        BY <1>1, <4>1 DEF Link
    <3> QED
      BY <1>1, <3>1, NoneAssumption DEF AllPermitDepth, PermitsDepth
  <2> QED
    BY <2>1, <2>2 DEF WithinDepth, AllHandedTo, LowersLimit
<1>4. Narrows(chain) <=> AllNarrow
  BY <1>1 DEF Narrows, AllNarrow, NarrowsPair
<1> QED
  BY <1>2, <1>3, <1>4 DEF Entitled, Asked

-----------------------------------------------------------------------------
(* The inductive invariant.                                                 *)

LinkChecked(i) ==
    (pc = "links" /\ i < index) \/ pc \in {"walk", "depth", "asked", "done"}

\* Link i has been compared with the link above it.
WalkChecked(i) == (pc = "walk" /\ i < index) \/ pc \in {"depth", "asked", "done"}

DepthChecked(i) == (pc = "depth" /\ i < index) \/ pc \in {"asked", "done"}

Established ==
    /\ pc # "length" => Len(chain) \in 1 .. MaxChainDepth
    /\ \A i \in 1 .. Len(chain) : LinkChecked(i) => LinkInForce(chain[i])
    /\ pc \in {"walk", "depth", "asked", "done"} => Presented
    /\ \A i \in 1 .. Len(chain) - 1 : WalkChecked(i) =>
         HandedTo(chain[i], chain[i + 1]) /\ LowersLimit(chain[i], chain[i + 1])
    /\ \A j \in 1 .. Len(chain) : WalkChecked(j - 1) =>
         \A i \in 1 .. j : NarrowsPair(chain[i], chain[j])
    /\ \A i \in 2 .. Len(chain) : DepthChecked(i) => PermitsDepth(chain[i], i - 1)
    /\ pc \in {"asked", "done"} => Governed
    /\ pc = "done" => Asked

IndexOK ==
    /\ pc \in {"length", "asked"} => index = 1
    /\ pc = "links" => index \in 1 .. Len(chain) + 1
    /\ pc = "walk"  => index \in 1 .. Len(chain)
    /\ pc = "depth" => index \in 2 .. Len(chain) + 1

GrantedOK ==
    granted # None => granted = [subject   |-> Leaf(chain).subject,
                                 scope     |-> Leaf(chain).scope,
                                 actions   |-> Leaf(chain).actions,
                                 governing |-> request.governing]

Inv ==
    /\ TypeOK
    /\ IndexOK
    /\ GrantedOK
    /\ verdict \notin Faults => Established
    /\ verdict \in Faults => ~ Entitled(chain, request)

(* Every call starts with nothing established.                              *)
LEMMA InitInv == Init => Inv
<1> SUFFICES ASSUME Init PROVE Inv
  OBVIOUS
<1>1. chain \in Seq(Link) /\ request \in Request
  BY ChainsAssumption, RequestsAssumption DEF Init
<1>2. Len(chain) \in Nat
  BY <1>1
<1>3. verdict \notin Faults
  BY DEF Init, Faults
<1>4. TypeOK /\ IndexOK /\ GrantedOK
  BY <1>1, <1>2 DEF Init, TypeOK, IndexOK, GrantedOK, Stages
<1>5. Established
  BY <1>2 DEF Init, Established, LinkChecked, WalkChecked, DepthChecked
<1> QED
  BY <1>3, <1>4, <1>5 DEF Inv

(* A refusal keeps the invariant when the caller was not entitled.           *)
LEMMA RefuseInv ==
    ASSUME Inv, pc # "done", NEW fault \in Faults, Refuse(fault),
           UNCHANGED <<chain, request>>, ~ Entitled(chain, request)
    PROVE  Inv'
<1>1. verdict' \in Faults /\ pc' = "done" /\ granted' = None
  BY DEF Refuse, Inv, TypeOK, Faults
<1>2. TypeOK'
  <2>1. fault # "pending" /\ fault # "accepted"
    BY DEF Faults
  <2> QED
    BY <1>1, <2>1 DEF Inv, TypeOK, Refuse, Stages
<1>3. IndexOK' /\ GrantedOK'
  BY <1>1 DEF IndexOK, GrantedOK
<1> QED
  BY <1>1, <1>2, <1>3 DEF Inv

(* A group that passes keeps the invariant when what it established holds.   *)
LEMMA GoOnInv ==
    ASSUME Inv, pc # "done", NEW stage \in Stages, stage # "done",
           NEW i \in 1 .. Len(chain) + 1, GoOn(stage, i),
           UNCHANGED <<chain, request>>, IndexOK', Established'
    PROVE  Inv'
<1>1. verdict = "pending" /\ verdict' = "pending" /\ granted = None /\ granted' = None
  BY DEF GoOn, Inv, TypeOK
<1>2. TypeOK'
  BY <1>1 DEF Inv, TypeOK, GoOn
<1>3. verdict' \notin Faults
  BY <1>1 DEF Faults
<1> QED
  BY <1>1, <1>2, <1>3 DEF Inv, GrantedOK

(* What an unfinished call knows of its arguments.                           *)
LEMMA Running ==
    ASSUME Inv, pc # "done"
    PROVE  /\ chain \in Seq(Link) /\ request \in Request
           /\ Len(chain) \in Nat
           /\ \A i \in 1 .. Len(chain) : chain[i] \in Link
           /\ Established /\ IndexOK
<1>1. chain \in Seq(Link) /\ request \in Request
  BY DEF Inv, TypeOK
<1>2. verdict \notin Faults
  BY DEF Inv, TypeOK, Faults
<1> QED
  BY <1>1, <1>2 DEF Inv

(* Each action keeps the invariant.                                          *)
LEMMA CheckLengthInv == Inv /\ CheckLength => Inv'
<1> SUFFICES ASSUME Inv, CheckLength PROVE Inv'
  OBVIOUS
<1>0. pc = "length" /\ pc # "done" /\ UNCHANGED <<chain, request>>
  BY DEF CheckLength, Judge
<1>1. CASE \E fault \in FirstFault(LengthChecks) : Refuse(fault)
  <2> PICK fault \in FirstFault(LengthChecks) : Refuse(fault)
    BY <1>1
  <2>1. fault \in Faults /\ ~ Passes(LengthChecks)
    BY FaultsOfTheStages, FirstFaultRefuses
  <2>2. ~ Entitled(chain, request)
    BY <2>1, LengthPasses, <1>0, Running, EntitledByGroups, MaxChainDepthAssumption
  <2> QED
    BY <1>0, <2>1, <2>2, RefuseInv
<1>2. CASE Passes(LengthChecks) /\ GoOn("links", 1)
  <2>1. Len(chain) \in 1 .. MaxChainDepth
    BY <1>0, <1>2, Running, LengthPasses, MaxChainDepthAssumption
  <2>2. Established'
    BY <1>0, <1>2, <2>1 DEF GoOn, Established, LinkChecked, WalkChecked, DepthChecked
  <2>3. IndexOK'
    BY <1>0, <1>2, <2>1 DEF GoOn, IndexOK
  <2>4. "links" \in Stages /\ 1 \in 1 .. Len(chain) + 1
    BY <1>0, Running DEF Stages
  <2> QED
    BY <1>0, <1>2, <2>2, <2>3, <2>4, GoOnInv
<1> QED
  BY <1>1, <1>2 DEF CheckLength, Judge

\* One round of the link loop adds the link it passed to those in force.
LEMMA CheckLinkInv == Inv /\ CheckLink => Inv'
<1> SUFFICES ASSUME Inv, CheckLink PROVE Inv'
  OBVIOUS
<1> DEFINE link == chain[index]
<1>0. pc = "links" /\ pc # "done" /\ UNCHANGED <<chain, request>>
  BY DEF CheckLink, Judge
<1>a. index \in 1 .. Len(chain) /\ Len(chain) \in Nat /\ link \in Link
      /\ chain \in Seq(Link) /\ request \in Request
  BY <1>0, Running DEF CheckLink, IndexOK
<1>1. CASE \E fault \in FirstFault(LinkChecks(link)) : Refuse(fault)
  <2> PICK fault \in FirstFault(LinkChecks(link)) : Refuse(fault)
    BY <1>1
  <2>1. fault \in Faults /\ ~ Passes(LinkChecks(link))
    BY FaultsOfTheStages, FirstFaultRefuses
  <2>2. ~ LinkInForce(link)
    BY <1>a, <2>1, LinkPasses
  <2>3. ~ Entitled(chain, request)
    BY <1>a, <2>2, EntitledByGroups
  <2> QED
    BY <1>0, <2>1, <2>3, RefuseInv
<1>2. CASE Passes(LinkChecks(link)) /\ GoOn("links", index + 1)
  <2>1. LinkInForce(link)
    BY <1>a, <1>2, LinkPasses
  <2>2. Established'
    <3>1. Established
      BY <1>0, Running
    <3>2. pc' = "links" /\ index' = index + 1 /\ chain' = chain /\ request' = request
      BY <1>0, <1>2 DEF GoOn
    <3>3. \A i \in 1 .. Len(chain) : i < index + 1 => LinkInForce(chain[i])
      BY <1>0, <1>a, <2>1, <3>1 DEF Established, LinkChecked
    <3> QED
      BY <1>0, <3>1, <3>2, <3>3
         DEF Established, LinkChecked, WalkChecked, DepthChecked, LinkInForce
  <2>3. IndexOK'
    BY <1>0, <1>a, <1>2 DEF GoOn, IndexOK
  <2>4. "links" \in Stages /\ index + 1 \in 1 .. Len(chain) + 1
    BY <1>a DEF Stages
  <2> QED
    BY <1>0, <1>2, <2>2, <2>3, <2>4, GoOnInv
<1> QED
  BY <1>1, <1>2 DEF CheckLink, Judge

\* The presenter's check ends the link loop and starts the walk.
LEMMA CheckPresenterInv == Inv /\ CheckPresenter => Inv'
<1> SUFFICES ASSUME Inv, CheckPresenter PROVE Inv'
  OBVIOUS
<1>0. pc = "links" /\ pc # "done" /\ UNCHANGED <<chain, request>>
  BY DEF CheckPresenter, Judge
<1>a. /\ chain \in Seq(Link) /\ request \in Request /\ Len(chain) \in Nat
      /\ index > Len(chain) /\ index \in Nat /\ Established
  BY <1>0, Running DEF CheckPresenter, IndexOK
<1>1. CASE \E fault \in FirstFault(PresenterChecks) : Refuse(fault)
  <2> PICK fault \in FirstFault(PresenterChecks) : Refuse(fault)
    BY <1>1
  <2>1. fault \in Faults /\ ~ Passes(PresenterChecks)
    BY FaultsOfTheStages, FirstFaultRefuses
  <2>2. ~ Entitled(chain, request)
    BY <1>a, <2>1, PresenterPasses, EntitledByGroups DEF Presented
  <2> QED
    BY <1>0, <2>1, <2>2, RefuseInv
<1>2. CASE Passes(PresenterChecks) /\ GoOn("walk", 1)
  <2>1. Presented
    BY <1>2, PresenterPasses DEF Presented
  <2>2. \A i \in 1 .. Len(chain) : LinkInForce(chain[i])
    BY <1>0, <1>a DEF Established, LinkChecked
  <2>3. Len(chain) \in 1 .. MaxChainDepth
    BY <1>0, <1>a DEF Established
  <2>4. NarrowsPair(chain[1], chain[1])
    <3>1. chain[1] \in Link /\ LinkInForce(chain[1])
      BY <1>a, <2>2, <2>3
    <3> QED
      BY <3>1 DEF NarrowsPair, LinkInForce, Link
  <2>5. Established'
    <3>1. pc' = "walk" /\ index' = 1 /\ chain' = chain /\ request' = request
      BY <1>0, <1>2 DEF GoOn
    <3>2. \A j \in 1 .. Len(chain) : j - 1 < 1 =>
            \A i \in 1 .. j : NarrowsPair(chain[i], chain[j])
      BY <1>a, <2>4
    <3> QED
      BY <1>a, <2>1, <2>2, <2>3, <3>1, <3>2
         DEF Established, LinkChecked, WalkChecked, DepthChecked, LinkInForce,
             Presented, NarrowsPair
  <2>6. IndexOK'
    BY <1>0, <1>2, <2>3 DEF GoOn, IndexOK
  <2>7. "walk" \in Stages /\ 1 \in 1 .. Len(chain) + 1
    BY <1>a DEF Stages
  <2> QED
    BY <1>0, <1>2, <2>5, <2>6, <2>7, GoOnInv
<1> QED
  BY <1>1, <1>2 DEF CheckPresenter, Judge

(* One step further up, every link below is still within the new ancestor:   *)
(* narrowing is transitive, and that is why comparing neighbours suffices.   *)
LEMMA NarrowsFurther ==
    ASSUME chain \in Seq(Link), request \in Request,
           NEW k \in 1 .. Len(chain) - 1,
           \A i \in 1 .. Len(chain) : LinkInForce(chain[i]),
           \A i \in 1 .. k : NarrowsPair(chain[i], chain[k]),
           NarrowsPair(chain[k], chain[k + 1])
    PROVE  \A i \in 1 .. k + 1 : NarrowsPair(chain[i], chain[k + 1])
<1>1. \A i \in 1 .. Len(chain) : chain[i].until \in Nat
  <2>1. \A i \in 1 .. Len(chain) : chain[i] \in Link
    OBVIOUS
  <2> QED
    BY <2>1 DEF LinkInForce, Link
<1> SUFFICES ASSUME NEW i \in 1 .. k + 1
             PROVE  NarrowsPair(chain[i], chain[k + 1])
  OBVIOUS
<1>2. CASE i = k + 1
  BY <1>1, <1>2 DEF NarrowsPair
<1>3. CASE i \in 1 .. k
  <2>1. NarrowsPair(chain[i], chain[k])
    BY <1>3
  <2>2. /\ chain[i].until \in Nat
        /\ chain[k].until \in Nat
        /\ chain[k + 1].until \in Nat
    BY <1>1, <1>3
  <2> QED
    BY <2>1, <2>2 DEF NarrowsPair
<1> QED
  BY <1>2, <1>3

\* One round of the walk adds the pair of links it passed.
LEMMA WalkLinkInv == Inv /\ WalkLink => Inv'
<1> SUFFICES ASSUME Inv, WalkLink PROVE Inv'
  OBVIOUS
<1> DEFINE link   == chain[index]
           parent == chain[index + 1]
<1>0. pc = "walk" /\ pc # "done" /\ UNCHANGED <<chain, request>>
  BY DEF WalkLink, Judge
<1>a. /\ chain \in Seq(Link) /\ request \in Request /\ Len(chain) \in Nat
      /\ index \in 1 .. Len(chain) - 1 /\ Established
  BY <1>0, Running DEF WalkLink, IndexOK
<1>b. link \in Link /\ parent \in Link
  <2>1. index \in 1 .. Len(chain) /\ index + 1 \in 1 .. Len(chain)
    BY <1>a
  <2> QED
    BY <1>a, <2>1
<1>c. \A i \in 1 .. Len(chain) : LinkInForce(chain[i])
  BY <1>0, <1>a DEF Established, LinkChecked
<1>d. LinkInForce(link) /\ LinkInForce(parent)
  BY <1>a, <1>c
<1>1. CASE \E fault \in FirstFault(WalkChecks(link, parent)) : Refuse(fault)
  <2> PICK fault \in FirstFault(WalkChecks(link, parent)) : Refuse(fault)
    BY <1>1
  <2>1. fault \in Faults /\ ~ Passes(WalkChecks(link, parent))
    BY FaultsOfTheStages, FirstFaultRefuses
  <2>2. ~ (HandedTo(link, parent) /\ NarrowsPair(link, parent) /\ LowersLimit(link, parent))
    BY <1>b, <1>d, <1>a, <2>1, WalkPasses
  <2>3. ~ Entitled(chain, request)
    <3>1. SUFFICES ASSUME Entitled(chain, request) PROVE FALSE
      OBVIOUS
    <3>2. AllHandedTo /\ AllNarrow
      BY <1>a, <3>1, EntitledByGroups
    <3>3. HandedTo(link, parent) /\ LowersLimit(link, parent)
      BY <1>a, <3>2 DEF AllHandedTo
    <3>4. index + 1 \in 1 .. Len(chain) /\ index \in 1 .. index + 1
      BY <1>a
    <3>5. NarrowsPair(link, parent)
      BY <3>2, <3>4 DEF AllNarrow
    <3> QED
      BY <2>2, <3>3, <3>5
  <2> QED
    BY <1>0, <2>1, <2>3, RefuseInv
<1>2. CASE Passes(WalkChecks(link, parent)) /\ GoOn("walk", index + 1)
  <2>1. HandedTo(link, parent) /\ NarrowsPair(link, parent) /\ LowersLimit(link, parent)
    BY <1>a, <1>b, <1>d, <1>2, WalkPasses
  <2>2. pc' = "walk" /\ index' = index + 1 /\ chain' = chain /\ request' = request
    BY <1>0, <1>2 DEF GoOn
  <2>3. \A i \in 1 .. Len(chain) - 1 : i < index + 1 =>
          HandedTo(chain[i], chain[i + 1]) /\ LowersLimit(chain[i], chain[i + 1])
    BY <1>0, <1>a, <2>1 DEF Established, WalkChecked
  <2>4. \A j \in 1 .. Len(chain) : j - 1 < index =>
          \A i \in 1 .. j : NarrowsPair(chain[i], chain[j])
    BY <1>0, <1>a DEF Established, WalkChecked
  <2>5. \A i \in 1 .. index + 1 : NarrowsPair(chain[i], chain[index + 1])
    <3>1. \A i \in 1 .. index : NarrowsPair(chain[i], chain[index])
      BY <1>a, <2>4
    <3> QED
      BY <1>a, <1>c, <2>1, <3>1, NarrowsFurther
  <2>6. \A j \in 1 .. Len(chain) : j - 1 < index + 1 =>
          \A i \in 1 .. j : NarrowsPair(chain[i], chain[j])
    <3> SUFFICES ASSUME NEW j \in 1 .. Len(chain), j - 1 < index + 1
                 PROVE  \A i \in 1 .. j : NarrowsPair(chain[i], chain[j])
      OBVIOUS
    <3>1. CASE j - 1 < index
      BY <2>4, <3>1
    <3>2. CASE j = index + 1
      BY <2>5, <3>2
    <3> QED
      BY <1>a, <3>1, <3>2
  <2>7. Established'
    BY <1>0, <1>a, <1>c, <2>2, <2>3, <2>6
       DEF Established, LinkChecked, WalkChecked, DepthChecked, LinkInForce,
           Presented, NarrowsPair, HandedTo, LowersLimit
  <2>8. IndexOK'
    BY <1>a, <2>2 DEF IndexOK
  <2>9. "walk" \in Stages /\ index + 1 \in 1 .. Len(chain) + 1
    BY <1>a DEF Stages
  <2> QED
    BY <1>0, <1>2, <2>7, <2>8, <2>9, GoOnInv
<1> QED
  BY <1>1, <1>2 DEF WalkLink, Judge

\* The end of the walk leaves every pair of links checked.
LEMMA EndWalkInv == Inv /\ EndWalk => Inv'
<1> SUFFICES ASSUME Inv, EndWalk PROVE Inv'
  OBVIOUS
<1>0. /\ pc = "walk" /\ pc # "done" /\ UNCHANGED <<chain, request>>
      /\ GoOn("depth", 2) /\ index = Len(chain)
  BY DEF EndWalk
<1>a. Len(chain) \in Nat \ {0} /\ Established
  BY <1>0, Running DEF IndexOK
<1>1. pc' = "depth" /\ index' = 2 /\ chain' = chain /\ request' = request
  BY <1>0 DEF GoOn
<1>2. Established'
  <2>1. \A i \in 1 .. Len(chain) - 1 : i < index
    BY <1>0, <1>a
  <2>2. \A j \in 1 .. Len(chain) : j - 1 < index
    BY <1>0, <1>a
  <2> QED
    BY <1>0, <1>a, <1>1, <2>1, <2>2
       DEF Established, LinkChecked, WalkChecked, DepthChecked, LinkInForce,
           Presented, NarrowsPair, HandedTo, LowersLimit
<1>3. IndexOK'
  BY <1>a, <1>1 DEF IndexOK
<1>4. "depth" \in Stages /\ 2 \in 1 .. Len(chain) + 1
  BY <1>a DEF Stages
<1> QED
  BY <1>0, <1>2, <1>3, <1>4, GoOnInv

\* One round of the depth loop adds the ancestor it passed.
LEMMA CheckDepthInv == Inv /\ CheckDepth => Inv'
<1> SUFFICES ASSUME Inv, CheckDepth PROVE Inv'
  OBVIOUS
<1> DEFINE link == chain[index]
<1>0. pc = "depth" /\ pc # "done" /\ UNCHANGED <<chain, request>>
  BY DEF CheckDepth, Judge
<1>a. /\ chain \in Seq(Link) /\ request \in Request /\ Len(chain) \in Nat
      /\ index \in 2 .. Len(chain) /\ link \in Link /\ Established
  BY <1>0, Running DEF CheckDepth, IndexOK
<1>1. CASE \E fault \in FirstFault(DepthChecks(link, index - 1)) : Refuse(fault)
  <2> PICK fault \in FirstFault(DepthChecks(link, index - 1)) : Refuse(fault)
    BY <1>1
  <2>1. fault \in Faults /\ ~ Passes(DepthChecks(link, index - 1))
    BY FaultsOfTheStages, FirstFaultRefuses
  <2>2. ~ PermitsDepth(link, index - 1)
    BY <1>a, <2>1, DepthPasses
  <2>3. ~ Entitled(chain, request)
    BY <1>a, <2>2, EntitledByGroups DEF AllPermitDepth
  <2> QED
    BY <1>0, <2>1, <2>3, RefuseInv
<1>2. CASE Passes(DepthChecks(link, index - 1)) /\ GoOn("depth", index + 1)
  <2>1. PermitsDepth(link, index - 1)
    BY <1>a, <1>2, DepthPasses
  <2>2. pc' = "depth" /\ index' = index + 1 /\ chain' = chain /\ request' = request
    BY <1>0, <1>2 DEF GoOn
  <2>3. \A i \in 2 .. Len(chain) : i < index + 1 => PermitsDepth(chain[i], i - 1)
    BY <1>0, <1>a, <2>1 DEF Established, DepthChecked
  <2>4. Established'
    BY <1>0, <1>a, <2>2, <2>3
       DEF Established, LinkChecked, WalkChecked, DepthChecked, LinkInForce,
           Presented, NarrowsPair, HandedTo, LowersLimit, PermitsDepth
  <2>5. IndexOK'
    BY <1>a, <2>2 DEF IndexOK
  <2>6. "depth" \in Stages /\ index + 1 \in 1 .. Len(chain) + 1
    BY <1>a DEF Stages
  <2> QED
    BY <1>0, <1>2, <2>4, <2>5, <2>6, GoOnInv
<1> QED
  BY <1>1, <1>2 DEF CheckDepth, Judge

\* The root's check closes the facts about the chain itself.
LEMMA CheckRootInv == Inv /\ CheckRoot => Inv'
<1> SUFFICES ASSUME Inv, CheckRoot PROVE Inv'
  OBVIOUS
<1>0. pc = "depth" /\ pc # "done" /\ UNCHANGED <<chain, request>>
  BY DEF CheckRoot, Judge
<1>a. /\ chain \in Seq(Link) /\ request \in Request /\ Len(chain) \in Nat
      /\ index > Len(chain) /\ index \in Nat /\ Established
  BY <1>0, Running DEF CheckRoot, IndexOK
<1>1. CASE \E fault \in FirstFault(RootChecks) : Refuse(fault)
  <2> PICK fault \in FirstFault(RootChecks) : Refuse(fault)
    BY <1>1
  <2>1. fault \in Faults /\ ~ Passes(RootChecks)
    BY FaultsOfTheStages, FirstFaultRefuses
  <2>2. ~ Entitled(chain, request)
    BY <1>a, <2>1, RootPasses, EntitledByGroups DEF Governed
  <2> QED
    BY <1>0, <2>1, <2>2, RefuseInv
<1>2. CASE Passes(RootChecks) /\ GoOn("asked", 1)
  <2>1. Governed
    BY <1>2, RootPasses DEF Governed
  <2>2. pc' = "asked" /\ index' = 1 /\ chain' = chain /\ request' = request
    BY <1>0, <1>2 DEF GoOn
  <2>3. \A i \in 2 .. Len(chain) : PermitsDepth(chain[i], i - 1)
    BY <1>0, <1>a DEF Established, DepthChecked
  <2>4. Established'
    BY <1>0, <1>a, <2>1, <2>2, <2>3
       DEF Established, LinkChecked, WalkChecked, DepthChecked, LinkInForce,
           Presented, NarrowsPair, HandedTo, LowersLimit, PermitsDepth, Governed
  <2>5. IndexOK'
    BY <2>2 DEF IndexOK
  <2>6. "asked" \in Stages /\ 1 \in 1 .. Len(chain) + 1
    BY <1>a DEF Stages
  <2> QED
    BY <1>0, <1>2, <2>4, <2>5, <2>6, GoOnInv
<1> QED
  BY <1>1, <1>2 DEF CheckRoot, Judge

\* The last checks decide, and what they return is the leaf's.
LEMMA CheckAskedInv == Inv /\ CheckAsked => Inv'
<1> SUFFICES ASSUME Inv, CheckAsked PROVE Inv'
  OBVIOUS
<1>0. pc = "asked" /\ pc # "done" /\ UNCHANGED <<chain, request>>
  BY DEF CheckAsked
<1>a. /\ chain \in Seq(Link) /\ request \in Request /\ Len(chain) \in Nat \ {0}
      /\ Established /\ index = 1
  BY <1>0, Running DEF Established, IndexOK
<1>1. CASE \E fault \in FirstFault(AskedChecks) : Refuse(fault)
  <2> PICK fault \in FirstFault(AskedChecks) : Refuse(fault)
    BY <1>1
  <2>1. fault \in Faults /\ ~ Passes(AskedChecks)
    BY FaultsOfTheStages, FirstFaultRefuses
  <2>2. ~ Entitled(chain, request)
    BY <1>a, <2>1, AskedPasses, EntitledByGroups DEF Asked
  <2> QED
    BY <1>0, <2>1, <2>2, RefuseInv
<1>2. CASE Passes(AskedChecks) /\ Grant
  <2>1. Asked
    BY <1>2, AskedPasses DEF Asked
  <2>2. /\ pc' = "done" /\ index' = index /\ chain' = chain /\ request' = request
        /\ verdict' = "accepted"
    BY <1>0, <1>2 DEF Grant, Return
  <2>3. Established'
    BY <1>0, <1>a, <2>1, <2>2
       DEF Established, LinkChecked, WalkChecked, DepthChecked, LinkInForce,
           Presented, NarrowsPair, HandedTo, LowersLimit, PermitsDepth, Governed,
           Asked
  <2>4. granted' \in VerifiedAuthority /\ granted' # None
    <3>1. chain[1] \in Link
      BY <1>a
    <3>2. granted' \in VerifiedAuthority
      BY <1>2, <1>a, <3>1 DEF Grant, Return, VerifiedAuthority, Leaf, Link, Request
    <3> QED
      BY <3>2, NoneIsNoGrant
  <2>5. TypeOK'
    BY <1>a, <2>2, <2>4 DEF TypeOK, Stages, Faults
  <2>6. IndexOK' /\ GrantedOK'
    BY <1>2, <2>2 DEF IndexOK, GrantedOK, Grant, Return, Leaf
  <2>7. verdict' \notin Faults
    BY <2>2 DEF Faults
  <2> QED
    BY <2>3, <2>5, <2>6, <2>7 DEF Inv
<1> QED
  BY <1>1, <1>2 DEF CheckAsked

\* Every step of the call, and every stuttering step, preserves the invariant.
LEMMA NextInv == Inv /\ [Next]_vars => Inv'
<1> SUFFICES ASSUME Inv, [Next]_vars PROVE Inv'
  OBVIOUS
<1>1. CASE CheckLength
  BY <1>1, CheckLengthInv
<1>2. CASE CheckLink
  BY <1>2, CheckLinkInv
<1>3. CASE CheckPresenter
  BY <1>3, CheckPresenterInv
<1>4. CASE WalkLink
  BY <1>4, WalkLinkInv
<1>5. CASE EndWalk
  BY <1>5, EndWalkInv
<1>6. CASE CheckDepth
  BY <1>6, CheckDepthInv
<1>7. CASE CheckRoot
  BY <1>7, CheckRootInv
<1>8. CASE CheckAsked
  BY <1>8, CheckAskedInv
<1>9. CASE Returned \/ UNCHANGED vars
  BY <1>9 DEF Returned, vars, Inv, TypeOK, IndexOK, GrantedOK, Established,
     LinkChecked, WalkChecked, DepthChecked, LinkInForce, Presented, NarrowsPair,
     HandedTo, LowersLimit, PermitsDepth, Governed, Asked
<1> QED
  BY <1>1, <1>2, <1>3, <1>4, <1>5, <1>6, <1>7, <1>8, <1>9 DEF Next

(* The invariant holds throughout every call.                                *)
THEOREM InvHolds == Spec => []Inv
  BY InitInv, NextInv, PTL DEF Spec

-----------------------------------------------------------------------------
(* What it gives.                                                           *)

(* The call's locals stay in range, and a VerifiedAuthority exists exactly   *)
(* when the verdict is "accepted".                                           *)
THEOREM TypeCorrect == Spec => []TypeOK
<1>1. Inv => TypeOK
  BY DEF Inv
<1> QED
  BY <1>1, InvHolds, PTL

(* A chain that is accepted entitles whoever presents it.                    *)
LEMMA AcceptedIsEntitled ==
    ASSUME Inv, granted # None
    PROVE  Entitled(chain, request)
<1>1. verdict = "accepted" /\ pc = "done" /\ chain \in Seq(Link) /\ request \in Request
  BY DEF Inv, TypeOK
<1>2. Established
  BY <1>1 DEF Inv, Faults
<1>3. Len(chain) \in Nat
  BY <1>1
<1>4. Len(chain) \in 1 .. MaxChainDepth /\ Presented /\ Governed /\ Asked
  BY <1>1, <1>2 DEF Established
<1>5. \A i \in 1 .. Len(chain) : LinkInForce(chain[i])
  BY <1>1, <1>2 DEF Established, LinkChecked
<1>6. AllHandedTo /\ AllNarrow /\ AllPermitDepth
  BY <1>1, <1>2 DEF Established, WalkChecked, DepthChecked,
     AllHandedTo, AllNarrow, AllPermitDepth
<1> QED
  BY <1>1, <1>4, <1>5, <1>6, EntitledByGroups

(* What verify_chain returns is never more than the root, or any credential  *)
(* between, conferred: for every chain, request and ceiling.                 *)
THEOREM NeverMore == Spec => []NeverMoreThanConferred
<1>1. Inv => NeverMoreThanConferred
  <2> SUFFICES ASSUME Inv, granted # None, NEW j \in DOMAIN chain
               PROVE  /\ granted.scope = chain[j].scope
                      /\ granted.actions \subseteq chain[j].actions
                      /\ chain[j].from <= request.at
                      /\ chain[j].until # None /\ request.at <= chain[j].until
                      /\ Leaf(chain).until <= chain[j].until
                      /\ chain[j].maxAttenuation # None
                           => j - 1 <= chain[j].maxAttenuation
    BY DEF NeverMoreThanConferred
  <2>1. Entitled(chain, request)
    BY AcceptedIsEntitled
  <2>2. chain \in Seq(Link) /\ 1 \in 1 .. j
    BY DEF Inv, TypeOK
  <2>3. granted.scope = Leaf(chain).scope /\ granted.actions = Leaf(chain).actions
    BY DEF Inv, GrantedOK
  <2> QED
    BY <2>1, <2>2, <2>3 DEF Entitled, AllInForce, Narrows, WithinDepth, Leaf
<1> QED
  BY <1>1, InvHolds, PTL

(* An accepted chain without its leaf entitles the leaf's issuer.            *)
LEMMA EntitledAbove ==
    ASSUME chain \in Seq(Link), request \in Request, Len(chain) > 1,
           Entitled(chain, request)
    PROVE  Entitled(Tail(chain), [request EXCEPT !.presenter = chain[1].issuer])
<1> DEFINE above == Tail(chain)
           asked == [request EXCEPT !.presenter = chain[1].issuer]
<1>1. /\ Len(chain) \in Nat /\ above \in Seq(Link)
      /\ Len(above) = Len(chain) - 1
      /\ DOMAIN chain = 1 .. Len(chain) /\ DOMAIN above = 1 .. Len(above)
      /\ \A i \in 1 .. Len(above) : above[i] = chain[i + 1]
  OBVIOUS
<1>2. \A i \in 1 .. Len(chain) : chain[i] \in Link
  OBVIOUS
<1>3. /\ asked.at = request.at /\ asked.governing = request.governing
      /\ asked.scope = request.scope /\ asked.action = request.action
      /\ asked.presenter = chain[1].issuer
  BY DEF Request
<1> HIDE DEF above, asked
<1>4. Len(above) \in 1 .. MaxChainDepth
  BY <1>1, MaxChainDepthAssumption DEF Entitled
<1>5. AllInForce(above, asked)
  BY <1>1, <1>3 DEF Entitled, AllInForce
<1>6. HandedDown(above, asked)
  <2>1. Root(above) = Root(chain)
    BY <1>1 DEF Root
  <2>2. SameReference(Leaf(above).subject, asked.presenter)
    BY <1>1, <1>3 DEF Entitled, HandedDown, Leaf, SameReference
  <2>3. \A i \in 1 .. Len(above) - 1 :
          Pinned(above, i) /\ SameReference(above[i].issuer, above[i + 1].subject)
    <3> SUFFICES ASSUME NEW i \in 1 .. Len(above) - 1
                 PROVE  /\ Pinned(above, i)
                        /\ SameReference(above[i].issuer, above[i + 1].subject)
      OBVIOUS
    <3>1. /\ i + 1 \in 1 .. Len(chain) - 1
          /\ above[i] = chain[i + 1] /\ above[i + 1] = chain[(i + 1) + 1]
      BY <1>1
    <3>2. Pinned(chain, i + 1)
          /\ SameReference(chain[i + 1].issuer, chain[(i + 1) + 1].subject)
      BY <3>1 DEF Entitled, HandedDown
    <3> QED
      BY <3>1, <3>2 DEF Pinned
  <2> QED
    BY <1>3, <2>1, <2>2, <2>3 DEF Entitled, HandedDown
<1>7. Narrows(above)
  BY <1>1 DEF Entitled, Narrows
<1>8. WithinDepth(above)
  <2>1. \A j \in DOMAIN above : above[j].maxAttenuation # None
          => j - 1 <= above[j].maxAttenuation
    <3> SUFFICES ASSUME NEW j \in 1 .. Len(above), above[j].maxAttenuation # None
                 PROVE  j - 1 <= above[j].maxAttenuation
      BY <1>1
    <3>1. j + 1 \in 1 .. Len(chain) /\ above[j] = chain[j + 1]
      BY <1>1
    <3>2. j <= chain[j + 1].maxAttenuation
      BY <1>1, <3>1 DEF Entitled, WithinDepth
    <3>3. chain[j + 1].maxAttenuation \in Nat
      BY <1>2, <3>1 DEF Link
    <3> QED
      BY <3>1, <3>2, <3>3
  <2> QED
    BY <1>1, <2>1 DEF Entitled, WithinDepth
<1>9. Leaf(above).scope = asked.scope /\ asked.action \in Leaf(above).actions
  <2>1. 2 \in DOMAIN chain /\ 1 \in 1 .. 2 /\ Leaf(above) = chain[2]
    BY <1>1 DEF Leaf
  <2>2. chain[1].scope = chain[2].scope /\ chain[1].actions \subseteq chain[2].actions
    BY <2>1 DEF Entitled, Narrows
  <2> QED
    BY <1>3, <2>1, <2>2 DEF Entitled, Leaf
<1>10. Entitled(above, asked)
  BY <1>4, <1>5, <1>6, <1>7, <1>8, <1>9 DEF Entitled
<1> QED
  BY <1>10 DEF above, asked

(* Nobody passes on what it could not itself have exercised at that instant. *)
THEOREM GrantorAlwaysHoldsIt == Spec => []GrantorHoldsIt
<1>1. Inv => GrantorHoldsIt
  BY AcceptedIsEntitled, EntitledAbove DEF GrantorHoldsIt, Inv, TypeOK
<1> QED
  BY <1>1, InvHolds, PTL

(* Cut to whole seconds, windows that held hold at the same second, and none *)
(* outlives an ancestor's that it did not outlive before.                    *)
LEMMA EntitledOnTheWire ==
    ASSUME chain \in Seq(Link), request \in Request, Entitled(chain, request)
    PROVE  Entitled(WireChain(chain), [request EXCEPT !.at = WholeSecond(@)])
<1> DEFINE wire == WireChain(chain)
           asked == [request EXCEPT !.at = WholeSecond(@)]
<1>1. Len(chain) \in Nat /\ DOMAIN chain = 1 .. Len(chain)
  OBVIOUS
<1>2. \A i \in 1 .. Len(chain) : chain[i] \in Link
  OBVIOUS
<1>3. DOMAIN wire = 1 .. Len(chain) /\ Len(wire) = Len(chain)
  BY <1>1 DEF WireChain
<1>4. \A i \in 1 .. Len(chain) :
        /\ wire[i].kind = chain[i].kind
        /\ wire[i].issuer = chain[i].issuer
        /\ wire[i].subject = chain[i].subject
        /\ wire[i].scope = chain[i].scope
        /\ wire[i].actions = chain[i].actions
        /\ wire[i].maxAttenuation = chain[i].maxAttenuation
        /\ wire[i].parent = chain[i].parent
        /\ wire[i].digest = chain[i].digest
        /\ wire[i].from = WholeSecond(chain[i].from)
        /\ wire[i].until = WholeSecondOption(chain[i].until)
  BY <1>1, <1>2 DEF WireChain, OnTheWire, Link
<1>5. /\ asked.governing = request.governing /\ asked.scope = request.scope
      /\ asked.action = request.action /\ asked.presenter = request.presenter
      /\ asked.at = WholeSecond(request.at) /\ request.at \in Nat
  BY DEF Request
<1> HIDE DEF wire, asked
<1>6. \A i \in 1 .. Len(chain) :
        /\ chain[i].from \in Nat /\ chain[i].until \in Nat
        /\ wire[i].until = WholeSecond(chain[i].until)
  BY <1>1, <1>2, <1>4 DEF Entitled, AllInForce, Link, WholeSecondOption
<1>7. AllInForce(wire, asked)
  <2> SUFFICES ASSUME NEW i \in 1 .. Len(chain)
               PROVE  /\ wire[i].kind = "Authority"
                      /\ wire[i].actions # {}
                      /\ wire[i].from <= asked.at
                      /\ wire[i].until # None /\ asked.at <= wire[i].until
    BY <1>3 DEF AllInForce
  <2>1. /\ chain[i].kind = "Authority" /\ chain[i].actions # {}
        /\ chain[i].from <= request.at /\ request.at <= chain[i].until
    BY <1>1 DEF Entitled, AllInForce
  <2>2. wire[i].from <= asked.at /\ asked.at <= wire[i].until
    BY <1>4, <1>5, <1>6, <2>1, WholeSecondMonotone
  <2>3. wire[i].until \in Nat
    BY <1>6, WholeSecondMonotone
  <2> QED
    BY <1>4, <2>1, <2>2, <2>3, NoneAssumption
<1>8. HandedDown(wire, asked)
  <2>1. Len(chain) \in 1 .. Len(chain) /\ 1 \in 1 .. Len(chain)
    BY <1>1 DEF Entitled
  <2>2. \A i \in 1 .. Len(wire) - 1 :
          Pinned(wire, i) /\ SameReference(wire[i].issuer, wire[i + 1].subject)
    <3> SUFFICES ASSUME NEW i \in 1 .. Len(chain) - 1
                 PROVE  /\ Pinned(wire, i)
                        /\ SameReference(wire[i].issuer, wire[i + 1].subject)
      BY <1>3
    <3>1. i \in 1 .. Len(chain) /\ i + 1 \in 1 .. Len(chain)
      BY <1>1
    <3>2. Pinned(chain, i) /\ SameReference(chain[i].issuer, chain[i + 1].subject)
      BY DEF Entitled, HandedDown
    <3> QED
      BY <1>4, <3>1, <3>2 DEF Pinned
  <2> QED
    BY <1>3, <1>4, <1>5, <2>1, <2>2 DEF Entitled, HandedDown, Root, Leaf
<1>9. Narrows(wire)
  <2> SUFFICES ASSUME NEW j \in 1 .. Len(chain), NEW i \in 1 .. j
               PROVE  /\ wire[i].scope = wire[j].scope
                      /\ wire[i].actions \subseteq wire[j].actions
                      /\ wire[i].until <= wire[j].until
    BY <1>3 DEF Narrows
  <2>1. i \in 1 .. Len(chain)
    BY <1>1
  <2>2. /\ chain[i].scope = chain[j].scope
        /\ chain[i].actions \subseteq chain[j].actions
        /\ chain[i].until <= chain[j].until
    BY <1>1 DEF Entitled, Narrows
  <2>3. wire[i].until <= wire[j].until
    BY <1>6, <2>1, <2>2, WholeSecondMonotone
  <2> QED
    BY <1>4, <2>1, <2>2, <2>3
<1>10. WithinDepth(wire)
  <2>1. \A j \in 1 .. Len(chain) : wire[j].maxAttenuation # None
          => j - 1 <= wire[j].maxAttenuation
    BY <1>1, <1>4 DEF Entitled, WithinDepth
  <2>2. \A i \in 1 .. Len(chain) - 1 : i \in 1 .. Len(chain) /\ i + 1 \in 1 .. Len(chain)
    BY <1>1
  <2> QED
    BY <1>3, <1>4, <2>1, <2>2 DEF Entitled, WithinDepth
<1>11. Entitled(wire, asked)
  <2>1. 1 \in 1 .. Len(chain)
    BY <1>1 DEF Entitled
  <2> QED
    BY <1>3, <1>4, <1>5, <1>7, <1>8, <1>9, <1>10, <2>1 DEF Entitled, Leaf
<1> QED
  BY <1>11 DEF wire, asked

(* An acceptance survives the cut to whole seconds the wire form makes, for  *)
(* every sub-second resolution.                                              *)
THEOREM AlwaysSurvivesTheWire == Spec => []SurvivesTheWire
<1>1. Inv => SurvivesTheWire
  BY AcceptedIsEntitled, EntitledOnTheWire DEF SurvivesTheWire, Inv, TypeOK
<1> QED
  BY <1>1, InvHolds, PTL

-----------------------------------------------------------------------------
(* What the walk knows of the limits: as long as every link so far bears    *)
(* one, each bears at least its distance above the leaf.                    *)

Compared(k) == (pc = "walk" /\ k <= index) \/ pc = "depth"

LimitsClimb ==
    \A k \in 1 .. Len(chain) :
        (Compared(k) /\ \A i \in 1 .. k : chain[i].maxAttenuation # None)
            => k - 1 <= chain[k].maxAttenuation

DepthInv == LimitsClimb /\ DepthLoopIsForBareLinks

(* Only the depth loop returns ExceedsMaxAttenuation.                        *)
LEMMA DepthFaultIsTheLoops ==
    /\ "ExceedsMaxAttenuation" \notin FirstFault(LengthChecks)
    /\ \A link : "ExceedsMaxAttenuation" \notin FirstFault(LinkChecks(link))
    /\ "ExceedsMaxAttenuation" \notin FirstFault(PresenterChecks)
    /\ \A link, parent :
         "ExceedsMaxAttenuation" \notin FirstFault(WalkChecks(link, parent))
    /\ "ExceedsMaxAttenuation" \notin FirstFault(RootChecks)
    /\ "ExceedsMaxAttenuation" \notin FirstFault(AskedChecks)
<1>1. "ExceedsMaxAttenuation" \notin FirstFault(LengthChecks)
  BY FirstFaultRefuses DEF LengthChecks, Check
<1>2. \A link : "ExceedsMaxAttenuation" \notin FirstFault(LinkChecks(link))
  BY FirstFaultRefuses DEF LinkChecks, Check
<1>3. "ExceedsMaxAttenuation" \notin FirstFault(PresenterChecks)
  BY FirstFaultRefuses DEF PresenterChecks, Check
<1>4. \A link, parent :
        "ExceedsMaxAttenuation" \notin FirstFault(WalkChecks(link, parent))
  BY FirstFaultRefuses DEF WalkChecks, Check
<1>5. "ExceedsMaxAttenuation" \notin FirstFault(RootChecks)
  BY FirstFaultRefuses DEF RootChecks, Check
<1>6. "ExceedsMaxAttenuation" \notin FirstFault(AskedChecks)
  BY FirstFaultRefuses DEF AskedChecks, Check
<1> QED
  BY <1>1, <1>2, <1>3, <1>4, <1>5, <1>6

\* One link further up, the limits still climb.
LEMMA WalkLinkClimbs ==
    ASSUME Inv, Inv', LimitsClimb, WalkLink
    PROVE  LimitsClimb'
<1>0. pc = "walk" /\ pc # "done" /\ UNCHANGED <<chain, request>>
  BY DEF WalkLink, Judge
<1>a. /\ chain \in Seq(Link) /\ Len(chain) \in Nat
      /\ index \in 1 .. Len(chain) - 1
  BY <1>0, Running DEF WalkLink, IndexOK
<1>1. CASE pc' = "done"
  BY <1>1 DEF LimitsClimb, Compared
<1>2. CASE pc' = "walk" /\ index' = index + 1 /\ verdict' = verdict
  <2>1. LowersLimit(chain[index], chain[index + 1])
    <3>1. verdict' \notin Faults
      BY <1>0, <1>2 DEF Inv, TypeOK, Faults
    <3>2. Established'
      BY <3>1 DEF Inv
    <3>3. \A i \in 1 .. Len(chain) - 1 :
            i < index + 1 => LowersLimit(chain[i], chain[i + 1])
      BY <1>0, <1>2, <3>2 DEF Established, WalkChecked, LowersLimit
    <3> QED
      BY <1>a, <3>3
  <2> SUFFICES ASSUME NEW k \in 1 .. Len(chain), k <= index + 1,
                      \A i \in 1 .. k : chain[i].maxAttenuation # None
               PROVE  k - 1 <= chain[k].maxAttenuation
    BY <1>0, <1>2 DEF LimitsClimb, Compared
  <2>2. CASE k <= index
    BY <1>0, <2>2 DEF LimitsClimb, Compared
  <2>3. CASE k = index + 1
    <3>1. chain[index].maxAttenuation # None /\ chain[k].maxAttenuation # None
      BY <1>a, <2>3
    <3>2. index - 1 <= chain[index].maxAttenuation
      BY <1>0, <1>a, <2>3 DEF LimitsClimb, Compared
    <3>3. chain[index].maxAttenuation \in Nat /\ chain[k].maxAttenuation \in Nat
      <4>1. chain[index] \in Link /\ chain[k] \in Link
        BY <1>a
      <4> QED
        BY <3>1, <4>1 DEF Link
    <3>4. chain[index].maxAttenuation < chain[k].maxAttenuation
      BY <2>1, <2>3, <3>1 DEF LowersLimit
    <3> QED
      BY <1>a, <2>3, <3>2, <3>3, <3>4
  <2> QED
    BY <1>a, <2>2, <2>3
<1> QED
  BY <1>0, <1>1, <1>2 DEF WalkLink, Judge, Refuse, GoOn

\* What the depth loop refuses lies above a link that bears no limit.
LEMMA CheckDepthIsForBareLinks ==
    ASSUME Inv, DepthInv, CheckDepth
    PROVE  DepthInv'
<1> DEFINE link == chain[index]
<1>0. pc = "depth" /\ pc # "done" /\ UNCHANGED <<chain, request>>
  BY DEF CheckDepth, Judge
<1>a. /\ chain \in Seq(Link) /\ Len(chain) \in Nat
      /\ index \in 2 .. Len(chain) /\ link \in Link
  BY <1>0, Running DEF CheckDepth, IndexOK
<1>1. CASE \E fault \in FirstFault(DepthChecks(link, index - 1)) : Refuse(fault)
  <2>1. index' = index /\ pc' = "done"
    BY <1>1 DEF Refuse
  <2>2. ~ Passes(DepthChecks(link, index - 1))
    BY <1>1, FirstFaultRefuses
  <2>3. link.maxAttenuation # None /\ ~ (index - 1 <= link.maxAttenuation)
    BY <1>a, <2>2, DepthPasses DEF PermitsDepth
  <2>4. \E i \in 1 .. index : chain[i].maxAttenuation = None
    BY <1>0, <1>a, <2>3 DEF DepthInv, LimitsClimb, Compared
  <2>5. \E i \in 1 .. index - 1 : chain[i].maxAttenuation = None
    BY <1>a, <2>3, <2>4
  <2> QED
    BY <1>0, <2>1, <2>5
       DEF DepthInv, LimitsClimb, Compared, DepthLoopIsForBareLinks
<1>2. CASE GoOn("depth", index + 1)
  <2>1. verdict' # "ExceedsMaxAttenuation" /\ pc' = "depth"
    BY <1>0, <1>2 DEF GoOn, Inv, TypeOK
  <2> QED
    BY <1>0, <2>1 DEF DepthInv, LimitsClimb, Compared, DepthLoopIsForBareLinks
<1> QED
  BY <1>1, <1>2 DEF CheckDepth, Judge

LEMMA DepthStep == Inv /\ Inv' /\ DepthInv /\ [Next]_vars => DepthInv'
<1> SUFFICES ASSUME Inv, Inv', DepthInv, [Next]_vars PROVE DepthInv'
  OBVIOUS
<1>a. pc # "done" => verdict # "ExceedsMaxAttenuation"
  BY DEF Inv, TypeOK
\* A step that neither compares limits nor returns from the depth loop.
<1>b. ASSUME verdict' # "ExceedsMaxAttenuation", pc' \notin {"walk", "depth"}
      PROVE  DepthInv'
  BY <1>b DEF DepthInv, LimitsClimb, Compared, DepthLoopIsForBareLinks
<1>1. CASE CheckLength
  <2>1. verdict' # "ExceedsMaxAttenuation" /\ pc' \in {"done", "links"}
    BY <1>1, <1>a, DepthFaultIsTheLoops DEF CheckLength, Judge, Refuse, GoOn
  <2> QED
    BY <1>b, <2>1
<1>2. CASE CheckLink
  <2>1. verdict' # "ExceedsMaxAttenuation" /\ pc' \in {"done", "links"}
    BY <1>2, <1>a, DepthFaultIsTheLoops DEF CheckLink, Judge, Refuse, GoOn
  <2> QED
    BY <1>b, <2>1
<1>3. CASE CheckPresenter
  <2>1. UNCHANGED chain /\ verdict' # "ExceedsMaxAttenuation"
        /\ (pc' = "done" \/ (pc' = "walk" /\ index' = 1))
    BY <1>3, <1>a, DepthFaultIsTheLoops DEF CheckPresenter, Judge, Refuse, GoOn
  <2>2. chain \in Seq(Link)
    BY DEF Inv, TypeOK
  <2>3. ASSUME NEW k \in 1 .. Len(chain), k <= 1, chain[k].maxAttenuation # None
        PROVE  k - 1 <= chain[k].maxAttenuation
    <3>1. chain[k] \in Link
      BY <2>2
    <3> QED
      BY <2>3, <3>1 DEF Link
  <2>4. LimitsClimb'
    BY <2>1, <2>3 DEF LimitsClimb, Compared
  <2> QED
    BY <2>1, <2>4 DEF DepthInv, DepthLoopIsForBareLinks
<1>4. CASE WalkLink
  <2>1. verdict' # "ExceedsMaxAttenuation"
    BY <1>4, <1>a, DepthFaultIsTheLoops DEF WalkLink, Judge, Refuse, GoOn
  <2> QED
    BY <1>4, <2>1, WalkLinkClimbs DEF DepthInv, DepthLoopIsForBareLinks
<1>5. CASE EndWalk
  <2>1. pc = "walk" /\ pc # "done" /\ index = Len(chain) /\ UNCHANGED chain
        /\ verdict' = verdict
    BY <1>5 DEF EndWalk, GoOn
  <2>2. Len(chain) \in Nat
    BY DEF Inv, TypeOK
  <2>3. \A k \in 1 .. Len(chain) : Compared(k)
    BY <2>1, <2>2 DEF Compared
  <2> QED
    BY <1>a, <2>1, <2>3 DEF DepthInv, LimitsClimb, DepthLoopIsForBareLinks
<1>6. CASE CheckDepth
  BY <1>6, CheckDepthIsForBareLinks
<1>7. CASE CheckRoot
  <2>1. verdict' # "ExceedsMaxAttenuation" /\ pc' \in {"done", "asked"}
    BY <1>7, <1>a, DepthFaultIsTheLoops DEF CheckRoot, Judge, Refuse, GoOn
  <2> QED
    BY <1>b, <2>1
<1>8. CASE CheckAsked
  <2>1. verdict' # "ExceedsMaxAttenuation" /\ pc' = "done"
    BY <1>8, <1>a, DepthFaultIsTheLoops DEF CheckAsked, Grant, Return, Refuse
  <2> QED
    BY <1>b, <2>1
<1>9. CASE Returned \/ UNCHANGED vars
  BY <1>9 DEF Returned, vars, DepthInv, LimitsClimb, Compared,
     DepthLoopIsForBareLinks
<1> QED
  BY <1>1, <1>2, <1>3, <1>4, <1>5, <1>6, <1>7, <1>8, <1>9 DEF Next

(* A raised limit is refused where it is raised, for every chain: when the   *)
(* depth loop refuses, a link below the ancestor it names bears no limit.    *)
THEOREM DepthLoopOnlyForBareLinks == Spec => []DepthLoopIsForBareLinks
<1>1. Init => DepthInv
  BY DEF Init, DepthInv, LimitsClimb, Compared, DepthLoopIsForBareLinks
<1>2. DepthInv => DepthLoopIsForBareLinks
  BY DEF DepthInv
<1> QED
  BY <1>1, <1>2, DepthStep, InvHolds, PTL DEF Spec

-----------------------------------------------------------------------------
(* The refinement, without its fairness: every step of verify_chain is the   *)
(* abstract verifier's decision or leaves its answer pending.                *)

(* The abstract verifier judges by the same terms.                           *)
LEMMA SameTerms ==
    /\ Decision!Link = Link
    /\ Decision!Request = Request
    /\ \A ch, rq : Decision!Entitled(ch, rq) <=> Entitled(ch, rq)
<1>1. Decision!Link = Link /\ Decision!Request = Request
  BY DEF Decision!Link, Link, Decision!Request, Request, Decision!Ref, Ref,
     Decision!Named, Named
<1> SUFFICES ASSUME NEW ch, NEW rq
             PROVE  Decision!Entitled(ch, rq) <=> Entitled(ch, rq)
  BY <1>1
<1>2. Decision!AllInForce(ch, rq) <=> AllInForce(ch, rq)
  BY DEF Decision!AllInForce, AllInForce
<1>3. Decision!HandedDown(ch, rq) <=> HandedDown(ch, rq)
  BY DEF Decision!HandedDown, HandedDown, Decision!Pinned, Pinned, Decision!Root,
     Root, Decision!Leaf, Leaf, Decision!SameReference, SameReference,
     Decision!Unreadable, Unreadable, Decision!SameDigest, SameDigest
<1>4. Decision!Narrows(ch) <=> Narrows(ch)
  BY DEF Decision!Narrows, Narrows
<1>5. Decision!WithinDepth(ch) <=> WithinDepth(ch)
  BY DEF Decision!WithinDepth, WithinDepth
<1> QED
  BY <1>2, <1>3, <1>4, <1>5 DEF Decision!Entitled, Entitled, Decision!Leaf, Leaf

\* A call that begins is a question not yet decided.
LEMMA InitDecision == Init => Decision!Init
  BY ChainsAssumption, RequestsAssumption, SameTerms DEF Init, Decision!Init, Answer

GrantsOnlyTheEntitled == granted # None => Entitled(chain, request)

\* Every step of the call decides as the abstract verifier does, or is none of
\* its steps.
LEMMA StepDecision ==
    Inv /\ Inv' /\ GrantsOnlyTheEntitled' /\ [Next]_vars
      => [Decision!Next]_(Decision!vars)
<1> SUFFICES ASSUME Inv, Inv', GrantsOnlyTheEntitled', [Next]_vars
             PROVE  [Decision!Next]_(Decision!vars)
  OBVIOUS
<1>1. chain' = chain /\ request' = request
  BY DEF Next, vars, CheckLength, CheckLink, CheckPresenter, WalkLink, EndWalk,
     CheckDepth, CheckRoot, CheckAsked, Returned, Judge
<1>2. CASE verdict' = verdict
  BY <1>1, <1>2 DEF Decision!vars, Answer
<1>3. CASE verdict' # verdict
  <2>1. pc # "done" /\ pc' = "done"
    BY <1>3 DEF Next, vars, CheckLength, CheckLink, CheckPresenter, WalkLink, EndWalk,
       CheckDepth, CheckRoot, CheckAsked, Returned, Judge, Refuse, GoOn, Grant, Return
  <2>2. verdict = "pending" /\ Answer = "pending"
    BY <2>1 DEF Inv, TypeOK, Answer
  <2>3. CASE verdict' = "accepted"
    <3>1. Entitled(chain, request)'
      <4>1. (granted # None)'
        BY <2>3 DEF Inv, TypeOK
      <4> QED
        BY <4>1 DEF GrantsOnlyTheEntitled
    <3> QED
      BY <1>1, <2>2, <2>3, <3>1, SameTerms DEF Decision!Next, Decision!Decide, Answer
  <2>4. CASE verdict' \in Faults
    <3>1. ~ Entitled(chain', request')
      BY <2>4 DEF Inv
    <3>2. Answer' = "refused"
      BY <2>4 DEF Answer, Faults
    <3> QED
      BY <1>1, <2>2, <3>1, <3>2, SameTerms DEF Decision!Next, Decision!Decide
  <2>5. verdict' # "pending"
    BY <2>1 DEF Inv, TypeOK
  <2> QED
    BY <2>3, <2>4, <2>5 DEF Inv, TypeOK
<1> QED
  BY <1>2, <1>3

(* verify_chain grants if, and only if, the presenter is entitled: every     *)
(* behaviour of the verifier is one of the abstract verifier's.              *)
THEOREM ImplementsDecisionSafely ==
    Spec => Decision!Init /\ [][Decision!Next]_(Decision!vars)
<1>1. Inv => GrantsOnlyTheEntitled
  BY AcceptedIsEntitled DEF GrantsOnlyTheEntitled
<1> QED
  BY <1>1, InvHolds, InitDecision, StepDecision, PTL DEF Spec

=============================================================================
