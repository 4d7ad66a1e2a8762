-------------------------- MODULE JsonDepthProofs --------------------------
(***************************************************************************)
(* What the walk of JsonDepth decides, for every document, bound and order *)
(* of members.                                                             *)
(***************************************************************************)
EXTENDS JsonDepth, TLAPS, SequenceTheorems, FiniteSetTheorems

-----------------------------------------------------------------------------
(* Paths.                                                                   *)

LEMMA DocumentFacts ==
    ASSUME NEW d \in Documents
    PROVE  /\ IsFiniteSet(d)
           /\ \A value \in d : value \in Seq(Key)
           /\ <<>> \in d
           /\ \A value \in d : \A n \in 0 .. Len(value) : SubSeq(value, 1, n) \in d
BY DocumentsAssumption DEF Path

LEMMA SamePath ==
    ASSUME NEW v \in Seq(Key), NEW w \in Seq(Key), IsUnder(v, w), Len(v) = Len(w)
    PROVE  v = w
BY SeqEqual DEF IsUnder

LEMMA UnderTransitive ==
    ASSUME NEW u \in Seq(Key), NEW v \in Seq(Key), NEW w \in Seq(Key),
           IsUnder(u, v), IsUnder(v, w)
    PROVE  IsUnder(u, w)
BY DEF IsUnder

\* Two paths that some value is under are under one another.
LEMMA UnderComparable ==
    ASSUME NEW u \in Seq(Key), NEW v \in Seq(Key), NEW w \in Seq(Key),
           IsUnder(u, v), IsUnder(u, w), Len(v) <= Len(w)
    PROVE  IsUnder(w, v)
BY DEF IsUnder

\* What lies below a value lies under one of its members.
LEMMA Through ==
    ASSUME doc \in Documents, NEW v \in doc, NEW w \in doc,
           IsUnder(v, w), v # w
    PROVE  \E m \in Members(w) : IsUnder(v, m)
<1> DEFINE m == SubSeq(v, 1, Len(w) + 1)
<1>1. v \in Seq(Key) /\ w \in Seq(Key)
  BY DocumentFacts
<1>2. Len(w) < Len(v)
  BY <1>1, SamePath DEF IsUnder
<1>3. Len(w) + 1 \in 0 .. Len(v)
  BY <1>1, <1>2
<1>4. m \in doc
  BY <1>3, DocumentFacts
<1>5. /\ Len(m) = Len(w) + 1
      /\ \A i \in 1 .. Len(w) + 1 : m[i] = v[i]
  <2>1. \A i \in 1 .. Len(w) + 1 : v[i] \in Key
    BY <1>1, <1>3
  <2>2. 1 \in Int /\ Len(w) + 1 \in Int /\ 1 <= Len(w) + 1
    BY <1>1
  <2>3. /\ Len(m) = IF 1 <= Len(w) + 1 THEN Len(w) + 1 - 1 + 1 ELSE 0
        /\ \A i \in 1 .. Len(w) + 1 - 1 + 1 : m[i] = v[1 + i - 1]
    BY <2>1, <2>2, SubSeqProperties
  <2> QED
    BY <2>2, <2>3, <1>1
<1>6. IsUnder(m, w)
  BY <1>1, <1>5 DEF IsUnder
<1>7. IsUnder(v, m)
  BY <1>1, <1>2, <1>5 DEF IsUnder
<1> HIDE DEF m
<1> QED
  BY <1>4, <1>5, <1>6, <1>7 DEF Members

-----------------------------------------------------------------------------
(* The stack.                                                               *)

LEMMA RestFacts ==
    ASSUME NEW s \in Seq(Entry), s # <<>>
    PROVE  /\ Len(s) \in Nat \ {0}
           /\ Top(s) \in Entry
           /\ Rest(s) \in Seq(Entry)
           /\ Len(Rest(s)) = Len(s) - 1
           /\ \A i \in 1 .. Len(s) - 1 : Rest(s)[i] = s[i]
<1>1. Len(s) \in Nat \ {0}
  BY EmptySeq
<1>2. Top(s) \in Entry
  BY <1>1 DEF Top
<1>3. \A i \in 1 .. Len(s) - 1 : s[i] \in Entry
  BY <1>1
<1>4. /\ Rest(s) \in Seq(Entry)
      /\ Len(Rest(s)) = IF 1 <= Len(s) - 1 THEN Len(s) - 1 - 1 + 1 ELSE 0
      /\ \A i \in 1 .. Len(s) - 1 - 1 + 1 : Rest(s)[i] = s[1 + i - 1]
  BY <1>1, <1>3, SubSeqProperties DEF Rest
<1>5. Len(Rest(s)) = Len(s) - 1
  <2> DEFINE n == Len(s)
             m == Len(Rest(s))
  <2>1. m = IF 1 <= n - 1 THEN n - 1 - 1 + 1 ELSE 0
    BY <1>4
  <2>2. n \in Nat \ {0}
    BY <1>1
  <2> HIDE DEF n, m
  <2>3. m = n - 1
    BY <2>1, <2>2
  <2> QED
    BY <2>3 DEF n, m
<1>6. \A i \in 1 .. Len(s) - 1 : Rest(s)[i] = s[i]
  <2>1. Len(s) - 1 - 1 + 1 = Len(s) - 1
    BY <1>1
  <2>2. ASSUME NEW i \in 1 .. Len(s) - 1
        PROVE  Rest(s)[i] = s[i]
    <3>1. 1 + i - 1 = i
      OBVIOUS
    <3> QED
      BY <1>4, <2>1, <3>1
  <2> QED
    BY <2>2
<1> QED
  BY <1>1, <1>2, <1>4, <1>5, <1>6

LEMMA OrderFacts ==
    ASSUME NEW S, IsFiniteSet(S), S \subseteq Entry, NEW order \in Orders(S)
    PROVE  /\ order \in Seq(Entry)
           /\ \A i \in 1 .. Len(order) : order[i] \in S
           /\ \A i, j \in 1 .. Len(order) : order[i] = order[j] => i = j
           /\ \A e \in S : \E i \in 1 .. Len(order) : order[i] = e
<1>1. Cardinality(S) \in Nat
  BY FS_CardinalityType
<1>2. order \in [1 .. Cardinality(S) -> S]
  BY DEF Orders
<1>3. order \in Seq(Entry) /\ Len(order) = Cardinality(S)
  BY <1>1, <1>2
<1> QED
  BY <1>2, <1>3 DEF Orders

\* A set of entries made from a finite set of values is finite.
LEMMA EntriesFinite ==
    ASSUME NEW V, IsFiniteSet(V), NEW d
    PROVE  IsFiniteSet({[value |-> v, depth |-> d] : v \in V})
<1> DEFINE f == [v \in V |-> [value |-> v, depth |-> d]]
           T == {[value |-> v, depth |-> d] : v \in V}
<1>1. f \in Surjection(V, T)
  BY DEF Surjection
<1>2. IsFiniteSet(T)
  BY <1>1, FS_Surjection
<1> QED
  BY <1>2

\* What is pushed on a stack comes after what was there.
LEMMA PushFacts ==
    ASSUME NEW s \in Seq(Entry), NEW t \in Seq(Entry)
    PROVE  /\ s \o t \in Seq(Entry)
           /\ Len(s \o t) = Len(s) + Len(t)
           /\ \A i \in 1 .. Len(s) : (s \o t)[i] = s[i]
           /\ \A i \in 1 .. Len(t) : (s \o t)[Len(s) + i] = t[i]
<1>1. s \o t \in Seq(Entry) /\ Len(s \o t) = Len(s) + Len(t)
  BY ConcatProperties
<1>2. \A i \in 1 .. Len(s) + Len(t) :
         (s \o t)[i] = IF i <= Len(s) THEN s[i] ELSE t[i - Len(s)]
  BY ConcatProperties
<1>3. Len(s) \in Nat /\ Len(t) \in Nat
  OBVIOUS
<1>4. ASSUME NEW i \in 1 .. Len(s)
      PROVE  (s \o t)[i] = s[i]
  BY <1>2, <1>3
<1>5. ASSUME NEW i \in 1 .. Len(t)
      PROVE  (s \o t)[Len(s) + i] = t[i]
  <2>1. /\ Len(s) + i \in 1 .. Len(s) + Len(t)
        /\ ~ (Len(s) + i <= Len(s))
        /\ Len(s) + i - Len(s) = i
    BY <1>3
  <2> QED
    BY <1>2, <2>1
<1> QED
  BY <1>1, <1>4, <1>5

-----------------------------------------------------------------------------
(* The roots of either walk.                                                *)

LEMMA RootsTyped ==
    ASSUME NEW d \in Documents, NEW c,
           NEW root \in Roots(d, c)
    PROVE  /\ root \in Entry
           /\ root.value \in d
           /\ root.depth = Depth(root.value)
<1>1. CASE c = "check_depth"
  <2>1. root \in OpenRoots(d)
    BY <1>1 DEF Roots
  <2>2. \A value \in d : value \in Seq(Key) /\ Len(value) \in Nat
    BY DocumentFacts
  <2>3. ASSUME NEW value \in d, NEW n \in Nat, Len(value) = n - 1,
               root = [value |-> value, depth |-> n]
        PROVE  root \in Entry /\ root.value \in d /\ root.depth = Depth(root.value)
    <3>1. value \in Seq(Key)
      BY <2>2
    <3>2. root.value = value /\ root.depth = n
      BY <2>3
    <3>3. root \in Entry
      BY <2>3, <3>1 DEF Entry, Path
    <3>4. Depth(value) = n
      BY <2>3, <2>2 DEF Depth
    <3> QED
      BY <3>2, <3>3, <3>4
  <2>4. \E value \in d, n \in Nat :
           Len(value) = n - 1 /\ root = [value |-> value, depth |-> n]
    <3>1. CASE \E value \in {v \in d : Len(v) = 1 /\ v[1] \notin TopMembers} :
                  root = [value |-> value, depth |-> 2]
      <4>1. PICK value \in d : Len(value) = 1 /\ root = [value |-> value, depth |-> 2]
        BY <3>1
      <4>2. Len(value) = 2 - 1 /\ 2 \in Nat
        BY <4>1
      <4> QED
        BY <4>1, <4>2
    <3>2. CASE \E value \in d \cap {<<"credentialSubject", "object", "value">>} :
                  root = [value |-> value, depth |-> ValueDepth]
      <4>1. PICK value \in d : /\ value = <<"credentialSubject", "object", "value">>
                               /\ root = [value |-> value, depth |-> ValueDepth]
        BY <3>2
      <4>2. Len(value) = ValueDepth - 1 /\ ValueDepth \in Nat
        BY <4>1 DEF ValueDepth
      <4> QED
        BY <4>1, <4>2
    <3>3. CASE \E value \in {v \in d : /\ <<"credentialSubject", "object">> \in d
                                       /\ Len(v) = 2 /\ v[1] = "credentialSubject"
                                       /\ v[2] \notin StatementMembers} :
                  root = [value |-> value, depth |-> 3]
      <4>1. PICK value \in d : Len(value) = 2 /\ root = [value |-> value, depth |-> 3]
        BY <3>3
      <4>2. Len(value) = 3 - 1 /\ 3 \in Nat
        BY <4>1
      <4> QED
        BY <4>1, <4>2
    <3> QED
      BY <2>1, <3>1, <3>2, <3>3 DEF OpenRoots
  <2> QED
    BY <2>3, <2>4
<1>2. CASE c # "check_depth"
  <2>1. root = [value |-> <<>>, depth |-> 1] /\ <<>> \in d /\ <<>> \in Seq(Key)
    BY <1>2, DocumentFacts DEF Roots, DocumentRoots
  <2> QED
    BY <2>1 DEF Entry, Path, Depth
<1> QED
  BY <1>1, <1>2

\* check_depth walks every member that is open.
LEMMA OpenMembersAreRoots ==
    ASSUME NEW d \in Documents, NEW open \in OpenMembers(d)
    PROVE  \E root \in OpenRoots(d) : root.value = open
<1>1. CASE Len(open) = 1 /\ open[1] \notin TopMembers
  <2>1. [value |-> open, depth |-> 2] \in OpenRoots(d)
    BY <1>1 DEF OpenRoots, OpenMembers
  <2> QED
    BY <2>1
<1>2. CASE open = <<"credentialSubject", "object", "value">>
  <2>1. [value |-> open, depth |-> ValueDepth] \in OpenRoots(d)
    BY <1>2 DEF OpenRoots, OpenMembers
  <2> QED
    BY <2>1
<1>3. CASE /\ <<"credentialSubject", "object">> \in d
           /\ Len(open) = 2 /\ open[1] = "credentialSubject"
           /\ open[2] \notin StatementMembers
  <2>1. [value |-> open, depth |-> 3] \in OpenRoots(d)
    BY <1>3 DEF OpenRoots, OpenMembers
  <2> QED
    BY <2>1
<1> QED
  BY <1>1, <1>2, <1>3 DEF OpenMembers

LEMMA RootsFinite ==
    ASSUME NEW d \in Documents, NEW c
    PROVE  IsFiniteSet(Roots(d, c))
<1> DEFINE V1 == {v \in d : Len(v) = 1 /\ v[1] \notin TopMembers}
           V2 == d \cap {<<"credentialSubject", "object", "value">>}
           V3 == {v \in d : /\ <<"credentialSubject", "object">> \in d
                            /\ Len(v) = 2 /\ v[1] = "credentialSubject"
                            /\ v[2] \notin StatementMembers}
           E1 == {[value |-> value, depth |-> 2] : value \in V1}
           E2 == {[value |-> value, depth |-> ValueDepth] : value \in V2}
           E3 == {[value |-> value, depth |-> 3] : value \in V3}
<1>1. IsFiniteSet(d)
  BY DocumentFacts
<1>2. V1 \subseteq d /\ V2 \subseteq d /\ V3 \subseteq d
  OBVIOUS
<1>3. IsFiniteSet(V1) /\ IsFiniteSet(V2) /\ IsFiniteSet(V3)
  <2> HIDE DEF V1, V2, V3
  <2> QED
    BY <1>1, <1>2, FS_Subset
<1>4. IsFiniteSet(E1) /\ IsFiniteSet(E2) /\ IsFiniteSet(E3)
  <2> HIDE DEF V1, V2, V3
  <2> QED
    BY <1>3, EntriesFinite
<1>5. IsFiniteSet(E1 \cup E2 \cup E3)
  <2> HIDE DEF E1, E2, E3
  <2> QED
    BY <1>4, FS_Union
<1>6. IsFiniteSet(OpenRoots(d))
  BY <1>5 DEF OpenRoots
<1>7. IsFiniteSet(DocumentRoots(d))
  BY FS_Singleton DEF DocumentRoots
<1> QED
  BY <1>6, <1>7 DEF Roots

LEMMA RootsApart ==
    ASSUME NEW d \in Documents, NEW c,
           NEW r1 \in Roots(d, c), NEW r2 \in Roots(d, c),
           IsUnder(r1.value, r2.value)
    PROVE  r1 = r2
<1>1. CASE c = "check_depth"
  <2> DEFINE V1 == {v \in d : Len(v) = 1 /\ v[1] \notin TopMembers}
             V2 == d \cap {<<"credentialSubject", "object", "value">>}
             V3 == {v \in d : /\ <<"credentialSubject", "object">> \in d
                              /\ Len(v) = 2 /\ v[1] = "credentialSubject"
                              /\ v[2] \notin StatementMembers}
  <2>1. \A r \in OpenRoots(d) :
           \/ r.value \in V1 /\ r = [value |-> r.value, depth |-> 2]
           \/ r.value \in V2 /\ r = [value |-> r.value, depth |-> ValueDepth]
           \/ r.value \in V3 /\ r = [value |-> r.value, depth |-> 3]
    BY DEF OpenRoots
  <2>2. r1 \in OpenRoots(d) /\ r2 \in OpenRoots(d)
    BY <1>1 DEF Roots
  <2>3. \A v \in V1 : v \in Seq(Key) /\ Len(v) = 1 /\ v[1] # "credentialSubject"
    BY DocumentFacts, MembersAssumption
  <2>4. \A v \in V2 : v \in Seq(Key) /\ Len(v) = 3 /\ v[1] = "credentialSubject"
                      /\ v[2] = "object"
    BY DocumentFacts
  <2>5. \A v \in V3 : v \in Seq(Key) /\ Len(v) = 2 /\ v[1] = "credentialSubject"
                      /\ v[2] # "object"
    BY DocumentFacts, MembersAssumption
  <2>6. /\ Len(r2.value) <= Len(r1.value)
        /\ \A i \in 1 .. Len(r2.value) : r1.value[i] = r2.value[i]
    BY DEF IsUnder
  <2> HIDE DEF V1, V2, V3
  <2>7. CASE r1.value \in V1
    <3>1. r2.value \in V1
      BY <2>1, <2>2, <2>3, <2>4, <2>5, <2>6, <2>7
    <3>2. r1.value = r2.value
      BY <2>3, <2>7, <3>1, SamePath
    <3> QED
      BY <2>1, <2>2, <2>3, <2>4, <2>5, <2>7, <3>1, <3>2
  <2>8. CASE r1.value \in V2
    <3>1. r2.value \notin V1
      BY <2>3, <2>4, <2>6, <2>8
    <3>2. r2.value \notin V3
      <4>1. SUFFICES ASSUME r2.value \in V3 PROVE FALSE
        OBVIOUS
      <4>2. 2 \in 1 .. Len(r2.value)
        BY <2>5, <4>1
      <4>3. r1.value[2] = r2.value[2]
        BY <2>6, <4>2
      <4> QED
        BY <2>4, <2>5, <2>8, <4>1, <4>3
    <3>3. r2.value \in V2
      BY <2>1, <2>2, <3>1, <3>2
    <3>4. r1.value = r2.value
      BY <2>4, <2>8, <3>3, SamePath
    <3> QED
      BY <2>1, <2>2, <2>3, <2>4, <2>5, <2>8, <3>3, <3>4
  <2>9. CASE r1.value \in V3
    <3>1. r2.value \in V3
      BY <2>1, <2>2, <2>3, <2>4, <2>5, <2>6, <2>9
    <3>2. r1.value = r2.value
      BY <2>5, <2>9, <3>1, SamePath
    <3> QED
      BY <2>1, <2>2, <2>3, <2>4, <2>5, <2>9, <3>1, <3>2
  <2> QED
    BY <2>1, <2>2, <2>7, <2>8, <2>9
<1>2. CASE c # "check_depth"
  BY <1>2 DEF Roots, DocumentRoots
<1> QED
  BY <1>1, <1>2

-----------------------------------------------------------------------------
(* The invariant.                                                           *)

\* Whatever is too deep and has not been refused is still below the stack.
Covered ==
    result = "walking" =>
        \A v \in doc : Depth(v) > MaxJsonDepth =>
            \E i \in DOMAIN pending : IsUnder(v, pending[i].value)

IInv == TypeOK /\ PendingApart /\ Covered /\ DecidesDepth

LEMMA InitInvariant == Init => IInv
<1> SUFFICES ASSUME Init PROVE IInv
  OBVIOUS
<1> DEFINE roots == Roots(doc, call)
<1>1. doc \in Documents /\ result = "walking" /\ pending \in Orders(roots)
  BY DEF Init
<1>2. /\ call \in {"check_json_depth", "check_depth"}
      /\ call = "check_depth" => IsCredential(doc)
  BY DEF Init
<1>3. \A root \in roots :
         root \in Entry /\ root.value \in doc /\ root.depth = Depth(root.value)
  BY <1>1, RootsTyped
<1>4. IsFiniteSet(roots)
  BY <1>1, RootsFinite
<1>5. \A r1, r2 \in roots : IsUnder(r1.value, r2.value) => r1 = r2
  BY <1>1, RootsApart
<1>6. /\ pending \in Seq(Entry)
      /\ \A i \in 1 .. Len(pending) : pending[i] \in roots
      /\ \A i, j \in 1 .. Len(pending) : pending[i] = pending[j] => i = j
      /\ \A e \in roots : \E i \in 1 .. Len(pending) : pending[i] = e
  <2> HIDE DEF roots
  <2>1. roots \subseteq Entry
    BY <1>3
  <2> QED
    BY <1>1, <1>4, <2>1, OrderFacts
<1>7. DOMAIN pending = 1 .. Len(pending)
  BY <1>6
<1>8. TypeOK
  <2> HIDE DEF roots
  <2> QED
    BY <1>1, <1>2, <1>3, <1>6, <1>7 DEF TypeOK
<1>9. PendingApart
  <2> HIDE DEF roots
  <2> QED
    BY <1>5, <1>6, <1>7 DEF PendingApart
<1>10. Covered
  <2> SUFFICES ASSUME NEW v \in doc, Depth(v) > MaxJsonDepth
               PROVE  \E root \in roots : IsUnder(v, root.value)
    <3> HIDE DEF roots
    <3> QED
      BY <1>6, <1>7 DEF Covered
  <2>1. v \in Seq(Key)
    BY <1>1, DocumentFacts
  <2>2. CASE call = "check_depth"
    <3>1. Depth(v) > ClosedDepth
      BY <2>1, DepthsAssumption DEF Depth
    <3>2. PICK open \in OpenMembers(doc) : IsUnder(v, open)
      BY <1>2, <2>2, <3>1 DEF IsCredential
    <3>3. PICK root \in OpenRoots(doc) : root.value = open
      BY <1>1, OpenMembersAreRoots
    <3> QED
      BY <2>2, <3>2, <3>3 DEF Roots
  <2>3. CASE call # "check_depth"
    <3>1. [value |-> <<>>, depth |-> 1] \in roots
      BY <2>3 DEF Roots, DocumentRoots
    <3>2. IsUnder(v, <<>>)
      BY <2>1 DEF IsUnder
    <3> QED
      BY <3>1, <3>2
  <2> QED
    BY <2>2, <2>3
<1>11. DecidesDepth
  BY <1>1 DEF DecidesDepth
<1> QED
  BY <1>8, <1>9, <1>10, <1>11 DEF IInv

-----------------------------------------------------------------------------
(* The steps.                                                               *)

\* The members of a value, as entries of the stack.
LEMMA InsideFacts ==
    ASSUME doc \in Documents, NEW top \in Entry, top.value \in doc,
           top.depth = Depth(top.value)
    PROVE  /\ IsFiniteSet(Inside(top))
           /\ Inside(top) \subseteq Entry
           /\ \A e \in Inside(top) :
                 /\ e.value \in doc /\ e.depth = Depth(e.value)
                 /\ Len(e.value) = Len(top.value) + 1
                 /\ IsUnder(e.value, top.value)
           /\ \A m \in Members(top.value) : \E e \in Inside(top) : e.value = m
           /\ \A e1, e2 \in Inside(top) : e1.value = e2.value => e1 = e2
<1>1. \A m \in Members(top.value) :
         /\ m \in doc /\ m \in Seq(Key)
         /\ Len(m) = Len(top.value) + 1 /\ IsUnder(m, top.value)
  BY DocumentFacts DEF Members
<1>2. top.value \in Seq(Key) /\ Len(top.value) \in Nat
  BY DocumentFacts
<1>3. ASSUME NEW e \in Inside(top)
      PROVE  /\ e \in Entry /\ e.value \in doc /\ e.depth = Depth(e.value)
             /\ Len(e.value) = Len(top.value) + 1
             /\ IsUnder(e.value, top.value)
  <2>1. PICK m \in Members(top.value) : e = [value |-> m, depth |-> top.depth + 1]
    BY DEF Inside
  <2>2. e.value = m /\ e.depth = top.depth + 1
    BY <2>1
  <2>3. top.depth + 1 \in Nat /\ top.depth + 1 = Depth(m)
    BY <1>1, <1>2 DEF Depth
  <2>4. e \in Entry
    BY <1>1, <2>1, <2>3 DEF Entry, Path
  <2> QED
    BY <1>1, <2>2, <2>3, <2>4
<1>4. IsFiniteSet(Inside(top))
  <2>1. IsFiniteSet(doc) /\ Members(top.value) \subseteq doc
    BY DocumentFacts DEF Members
  <2>2. IsFiniteSet(Members(top.value))
    BY <2>1, FS_Subset
  <2> QED
    BY <2>2, EntriesFinite DEF Inside
<1>5. ASSUME NEW m \in Members(top.value)
      PROVE  \E e \in Inside(top) : e.value = m
  <2>1. [value |-> m, depth |-> top.depth + 1] \in Inside(top)
    BY DEF Inside
  <2>2. [value |-> m, depth |-> top.depth + 1].value = m
    OBVIOUS
  <2> QED
    BY <2>1, <2>2
<1>6. \A e1, e2 \in Inside(top) : e1.value = e2.value => e1 = e2
  BY DEF Inside
<1> QED
  BY <1>3, <1>4, <1>5, <1>6

\* What a step takes from the stack, and replaces by its members, is behind.
LEMMA TopIsBehind ==
    ASSUME IInv, pending # <<>>, doc' = doc,
           \A i \in DOMAIN pending' :
              \/ i \in 1 .. Len(pending) - 1 /\ pending'[i] = pending[i]
              \/ pending'[i] \in Inside(Top(pending))
    PROVE  Ahead' \subseteq Ahead \ {Top(pending).value}
<1> DEFINE top == Top(pending)
<1>1. /\ pending \in Seq(Entry) /\ doc \in Documents
      /\ DOMAIN pending = 1 .. Len(pending)
      /\ \A i \in DOMAIN pending :
            pending[i].value \in doc /\ pending[i].depth = Depth(pending[i].value)
  BY DEF IInv, TypeOK
<1>2. Len(pending) \in DOMAIN pending /\ top = pending[Len(pending)] /\ top \in Entry
  BY <1>1, RestFacts DEF Top
<1>3. \A e \in Inside(top) :
         /\ e.value \in doc /\ Len(e.value) = Len(top.value) + 1
         /\ IsUnder(e.value, top.value)
  BY <1>1, <1>2, InsideFacts
<1>4. \A value \in doc : value \in Seq(Key)
  BY <1>1, DocumentFacts
<1>5. SUFFICES ASSUME NEW v \in doc, NEW i \in DOMAIN pending',
                      IsUnder(v, pending'[i].value)
               PROVE  v \in Ahead /\ v # top.value
  BY DEF Ahead
<1>6. CASE i \in 1 .. Len(pending) - 1 /\ pending'[i] = pending[i]
  <2>1. i \in DOMAIN pending /\ i # Len(pending)
    BY <1>1, <1>2, <1>6
  <2>2. ~ IsUnder(top.value, pending[i].value)
    BY <1>2, <2>1 DEF IInv, PendingApart
  <2> QED
    BY <1>5, <1>6, <2>1, <2>2 DEF Ahead
<1>7. CASE pending'[i] \in Inside(top)
  <2> DEFINE w == pending'[i].value
  <2>1. /\ w \in Seq(Key) /\ Len(w) = Len(top.value) + 1 /\ IsUnder(w, top.value)
        /\ v \in Seq(Key) /\ top.value \in Seq(Key) /\ IsUnder(v, w)
    BY <1>1, <1>2, <1>3, <1>4, <1>5, <1>7
  <2> HIDE DEF w, top
  <2>2. IsUnder(v, top.value)
    BY <2>1, UnderTransitive
  <2>3. Len(v) # Len(top.value)
    BY <2>1 DEF IsUnder
  <2> QED
    BY <1>2, <2>2, <2>3 DEF Ahead
<1> QED
  BY <1>5, <1>6, <1>7

LEMMA RefuseInvariant ==
    ASSUME IInv, Refuse
    PROVE  IInv' /\ Ahead' \subseteq Ahead \ {Top(pending).value}
<1> USE DEF IInv
<1>1. /\ result = "walking" /\ pending # <<>> /\ pending \in Seq(Entry)
      /\ doc \in Documents /\ doc' = doc /\ call' = call
      /\ result' = "refused" /\ pending' = Rest(pending)
      /\ Top(pending).depth > MaxJsonDepth
  BY DEF Refuse, TypeOK
<1>2. /\ Len(pending) \in Nat \ {0}
      /\ Rest(pending) \in Seq(Entry)
      /\ Len(Rest(pending)) = Len(pending) - 1
      /\ \A i \in 1 .. Len(pending) - 1 : Rest(pending)[i] = pending[i]
  BY <1>1, RestFacts
<1>3. /\ DOMAIN pending = 1 .. Len(pending)
      /\ DOMAIN pending' = 1 .. Len(pending) - 1
  BY <1>1, <1>2
<1>4. Top(pending).value \in doc /\ Top(pending).depth = Depth(Top(pending).value)
  BY <1>2, <1>3 DEF TypeOK, Top
<1>5. TypeOK'
  BY <1>1, <1>2, <1>3 DEF TypeOK
<1>6. PendingApart'
  BY <1>1, <1>2, <1>3 DEF PendingApart
<1>7. Covered'
  BY <1>1 DEF Covered
<1>8. DecidesDepth'
  BY <1>1, <1>4 DEF DecidesDepth
<1>9. Ahead' \subseteq Ahead \ {Top(pending).value}
  <2> HIDE DEF IInv
  <2> QED
    BY <1>1, <1>2, <1>3, TopIsBehind
<1> QED
  BY <1>5, <1>6, <1>7, <1>8, <1>9

LEMMA PassInvariant == IInv /\ Pass => IInv'
<1> SUFFICES ASSUME IInv, Pass PROVE IInv'
  OBVIOUS
<1> USE DEF IInv
<1>1. /\ result = "walking" /\ pending = <<>> /\ result' = "within"
      /\ doc' = doc /\ call' = call /\ pending' = pending
  BY DEF Pass
<1>2. DOMAIN pending = {}
  BY <1>1
<1>3. \A v \in doc : ~ (Depth(v) > MaxJsonDepth)
  BY <1>1, <1>2 DEF Covered
<1>4. TypeOK'
  BY <1>1 DEF TypeOK
<1>5. PendingApart'
  BY <1>1 DEF PendingApart
<1>6. Covered'
  BY <1>1 DEF Covered
<1>7. DecidesDepth'
  BY <1>1, <1>3 DEF DecidesDepth
<1> QED
  BY <1>4, <1>5, <1>6, <1>7

LEMMA VisitInvariant ==
    ASSUME IInv, Visit
    PROVE  IInv' /\ Ahead' \subseteq Ahead \ {Top(pending).value}
<1> USE DEF IInv
<1> DEFINE top == Top(pending)
           rest == Rest(pending)
           k == Len(pending) - 1
<1>1. /\ result = "walking" /\ pending # <<>> /\ pending \in Seq(Entry)
      /\ doc \in Documents /\ doc' = doc /\ call' = call /\ result' = result
      /\ top.depth <= MaxJsonDepth
  BY DEF Visit, TypeOK
<1>2. PICK order \in Orders(Inside(top)) : pending' = rest \o order
  BY DEF Visit
<1>3. /\ Len(pending) \in Nat \ {0} /\ top \in Entry
      /\ rest \in Seq(Entry) /\ Len(rest) = k
      /\ \A i \in 1 .. k : rest[i] = pending[i]
  BY <1>1, RestFacts
<1>4. DOMAIN pending = 1 .. Len(pending) /\ top = pending[Len(pending)]
  BY <1>1 DEF Top
<1>5. top.value \in doc /\ top.depth = Depth(top.value)
  BY <1>3, <1>4 DEF TypeOK
<1>6. /\ IsFiniteSet(Inside(top))
      /\ Inside(top) \subseteq Entry
      /\ \A e \in Inside(top) :
            /\ e.value \in doc /\ e.depth = Depth(e.value)
            /\ Len(e.value) = Len(top.value) + 1
            /\ IsUnder(e.value, top.value)
      /\ \A m \in Members(top.value) : \E e \in Inside(top) : e.value = m
      /\ \A e1, e2 \in Inside(top) : e1.value = e2.value => e1 = e2
  BY <1>1, <1>3, <1>5, InsideFacts
<1> HIDE DEF top, rest
<1>7. /\ order \in Seq(Entry)
      /\ \A i \in 1 .. Len(order) : order[i] \in Inside(top)
      /\ \A i, j \in 1 .. Len(order) : order[i] = order[j] => i = j
      /\ \A e \in Inside(top) : \E i \in 1 .. Len(order) : order[i] = e
  BY <1>2, <1>6, OrderFacts
<1>8. /\ pending' \in Seq(Entry)
      /\ Len(pending') = k + Len(order)
      /\ \A i \in 1 .. k : pending'[i] = pending[i]
      /\ \A i \in 1 .. Len(order) : pending'[k + i] = order[i]
  <2>1. /\ rest \o order \in Seq(Entry)
        /\ Len(rest \o order) = Len(rest) + Len(order)
        /\ \A i \in 1 .. Len(rest) : (rest \o order)[i] = rest[i]
        /\ \A i \in 1 .. Len(order) : (rest \o order)[Len(rest) + i] = order[i]
    BY <1>3, <1>7, PushFacts
  <2> QED
    BY <1>2, <1>3, <2>1
<1>9. k \in Nat /\ Len(order) \in Nat /\ DOMAIN pending' = 1 .. k + Len(order)
  BY <1>3, <1>7, <1>8
<1>10. ASSUME NEW i \in DOMAIN pending'
       PROVE  \/ i \in 1 .. k /\ i \in DOMAIN pending /\ pending'[i] = pending[i]
              \/ /\ i - k \in 1 .. Len(order)
                 /\ pending'[i] = order[i - k]
                 /\ pending'[i] \in Inside(top)
  <2>1. CASE i \in 1 .. k
    BY <1>3, <1>4, <1>8, <2>1
  <2>2. CASE i \notin 1 .. k
    <3>1. i - k \in 1 .. Len(order) /\ k + (i - k) = i
      BY <1>9, <2>2
    <3>2. pending'[i] = order[i - k]
      BY <1>8, <3>1
    <3> QED
      BY <1>7, <3>1, <3>2
  <2> QED
    BY <2>1, <2>2
<1> HIDE DEF k
<1>11. TypeOK'
  <2>1. \A i \in DOMAIN pending' :
           pending'[i].value \in doc /\ pending'[i].depth = Depth(pending'[i].value)
    BY <1>6, <1>10 DEF TypeOK
  <2> QED
    BY <1>1, <1>8, <2>1 DEF TypeOK
<1>12. \A i \in DOMAIN pending : pending[i].value \in Seq(Key)
  BY <1>1, DocumentFacts DEF TypeOK
<1>13. top.value \in Seq(Key) /\ \A e \in Inside(top) : e.value \in Seq(Key)
  BY <1>1, <1>5, <1>6, DocumentFacts
<1>14. \A i \in 1 .. k : /\ i \in DOMAIN pending
                         /\ ~ IsUnder(pending[i].value, top.value)
                         /\ ~ IsUnder(top.value, pending[i].value)
  BY <1>3, <1>4 DEF PendingApart, k
<1>15. PendingApart'
  <2> SUFFICES ASSUME NEW i \in DOMAIN pending', NEW j \in DOMAIN pending', i # j,
                      IsUnder(pending'[i].value, pending'[j].value)
               PROVE  FALSE
    BY DEF PendingApart
  <2>1. CASE i \in 1 .. k /\ j \in 1 .. k
    BY <1>8, <1>14, <2>1 DEF PendingApart
  <2>2. CASE i \notin 1 .. k /\ j \notin 1 .. k
    <3>1. /\ i - k \in 1 .. Len(order) /\ pending'[i] = order[i - k]
          /\ j - k \in 1 .. Len(order) /\ pending'[j] = order[j - k]
          /\ pending'[i] \in Inside(top) /\ pending'[j] \in Inside(top)
      BY <1>10, <2>2
    <3>2. pending'[i].value = pending'[j].value
      BY <1>6, <1>13, <3>1, SamePath
    <3>3. order[i - k] = order[j - k]
      BY <1>6, <3>1, <3>2
    <3>4. i - k = j - k
      BY <1>7, <3>1, <3>3
    <3> QED
      BY <1>9, <3>4
  <2>3. CASE i \in 1 .. k /\ j \notin 1 .. k
    <3>1. pending'[i] = pending[i] /\ pending'[j] \in Inside(top)
      BY <1>8, <1>10, <2>3
    <3>2. IsUnder(pending[i].value, top.value)
      BY <1>6, <1>12, <1>13, <1>14, <2>3, <3>1, UnderTransitive
    <3> QED
      BY <1>14, <2>3, <3>2
  <2>4. CASE i \notin 1 .. k /\ j \in 1 .. k
    <3>1. pending'[j] = pending[j] /\ pending'[i] \in Inside(top)
      BY <1>8, <1>10, <2>4
    <3> DEFINE m == pending'[i].value
             w == pending[j].value
    <3>3. /\ m \in Seq(Key) /\ w \in Seq(Key)
          /\ IsUnder(m, w) /\ IsUnder(m, top.value)
      BY <1>6, <1>12, <1>13, <1>14, <2>4, <3>1
    <3>4. Len(w) <= Len(top.value) \/ Len(top.value) <= Len(w)
      BY <1>13, <3>3
    <3> HIDE DEF m
    <3>5. IsUnder(top.value, w) \/ IsUnder(w, top.value)
      BY <1>13, <3>3, <3>4, UnderComparable
    <3> QED
      BY <1>14, <2>4, <3>5
  <2> QED
    BY <2>1, <2>2, <2>3, <2>4
<1>16. Covered'
  <2> SUFFICES ASSUME NEW v \in doc, Depth(v) > MaxJsonDepth
               PROVE  \E i \in DOMAIN pending' : IsUnder(v, pending'[i].value)
    BY <1>1 DEF Covered
  <2>1. PICK i \in DOMAIN pending : IsUnder(v, pending[i].value)
    BY <1>1 DEF Covered
  <2>2. CASE i \in 1 .. k
    BY <1>8, <1>9, <2>1, <2>2
  <2>3. CASE i \notin 1 .. k
    <3>1. i = Len(pending)
      BY <1>3, <1>4, <2>3 DEF k
    <3>2. IsUnder(v, top.value)
      BY <1>4, <2>1, <3>1
    <3>3. v # top.value
      <4>1. Depth(v) \in Int /\ MaxJsonDepth \in Int
        BY <1>1, DocumentFacts, DepthsAssumption DEF Depth
      <4>2. Depth(top.value) <= MaxJsonDepth
        BY <1>1, <1>5
      <4> QED
        BY <4>1, <4>2
    <3>4. PICK m \in Members(top.value) : IsUnder(v, m)
      BY <1>1, <1>5, <3>2, <3>3, Through
    <3>5. PICK n \in 1 .. Len(order) : order[n].value = m
      BY <1>6, <1>7, <3>4
    <3>6. k + n \in DOMAIN pending' /\ pending'[k + n].value = m
      BY <1>8, <1>9, <3>5
    <3> QED
      BY <3>4, <3>6
  <2> QED
    BY <2>2, <2>3
<1>17. DecidesDepth'
  BY <1>1 DEF DecidesDepth
<1>18. Ahead' \subseteq Ahead \ {top.value}
  <2> HIDE DEF IInv
  <2> QED
    BY <1>1, <1>10, TopIsBehind DEF top, k
<1> QED
  BY <1>11, <1>15, <1>16, <1>17, <1>18 DEF top

LEMMA Invariant == Spec => []IInv
<1>1. IInv /\ [Next]_vars => IInv'
  <2>1. IInv /\ UNCHANGED vars => IInv'
    BY DEF IInv, TypeOK, PendingApart, Covered, DecidesDepth, vars
  <2> QED
    BY <2>1, RefuseInvariant, VisitInvariant, PassInvariant DEF Next
<1> QED
  BY InitInvariant, <1>1, PTL DEF Spec

-----------------------------------------------------------------------------
(* The theorems.                                                            *)

(* For every document, bound and order of the members, the depth the walk   *)
(* carries with a value is its depth in the document (exceeds_max_depth).   *)
THEOREM TypeCorrect == Spec => []TypeOK
<1>1. IInv => TypeOK
  BY DEF IInv
<1> QED
  BY Invariant, <1>1, PTL

(* Documents as wide and as deep as they come are refused exactly when a    *)
(* value lies deeper than MAX_JSON_DEPTH, by check_json_depth, and by       *)
(* check_depth, which walks the open members only.                          *)
THEOREM AlwaysDecidesDepth == Spec => []DecidesDepth
<1>1. IInv => DecidesDepth
  BY DEF IInv
<1> QED
  BY Invariant, <1>1, PTL

(* The stack of exceeds_max_depth never holds a value together with one     *)
(* inside it, nor a value twice, from several roots either.                 *)
THEOREM AlwaysApart == Spec => []PendingApart
<1>1. IInv => PendingApart
  BY DEF IInv
<1> QED
  BY Invariant, <1>1, PTL

(* Whatever exceeds_max_depth takes from its stack is done with, and each   *)
(* turn of its loop leaves fewer of the document's values before it: from   *)
(* any roots, in any order of the members, the walk is linear.              *)
THEOREM EachValueOnce == Spec => VisitsOnce
<1>1. IInv /\ [Next]_vars => [pending # <<>> => Ahead' \subseteq Ahead \ {Top(pending).value}]_vars
  BY RefuseInvariant, VisitInvariant DEF Next, Pass
<1> QED
  BY Invariant, <1>1, PTL DEF Spec, VisitsOnce
=============================================================================
