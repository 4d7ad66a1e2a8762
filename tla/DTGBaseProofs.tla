---------------------------- MODULE DTGBaseProofs ----------------------------
(***************************************************************************)
(* What passing a sequence of checks means, for the lengths the library's  *)
(* functions have, facts about instants cut to whole seconds, and          *)
(* inductions over the positions of a chain.                               *)
(***************************************************************************)
EXTENDS DTGBase, WellFoundedInduction, TLAPS

(* A single check passes exactly when its condition does not hold. *)
LEMMA Passes1 ==
    ASSUME NEW f1,
           NEW p1
    PROVE  Passes(<<Check(f1, p1)>>)
             <=> (~ p1)
  BY DEF Passes, Check

(* All 2 checks pass exactly when no condition holds. *)
LEMMA Passes2 ==
    ASSUME NEW f1, NEW f2,
           NEW p1, NEW p2
    PROVE  Passes(<<Check(f1, p1), Check(f2, p2)>>)
             <=> (~ p1 /\ ~ p2)
  BY DEF Passes, Check

(* An error that is returned is that of a check that does not pass.          *)
LEMMA FirstFaultRefuses ==
    ASSUME NEW checks, NEW fault \in FirstFault(checks)
    PROVE  /\ ~ Passes(checks)
           /\ \E k \in DOMAIN checks : fault = checks[k].fault
  BY DEF FirstFault, Passes

-----------------------------------------------------------------------------
(* Cutting two instants to whole seconds keeps their order.                  *)
LEMMA TimesMonotone ==
    ASSUME NEW k \in Nat, NEW m \in Int, NEW n \in Int, m <= n
    PROVE  k * m <= k * n
  OBVIOUS

\* An instant is a number of whole seconds and a rest below one second.
LEMMA SecondsAndRest ==
    ASSUME NEW t \in Nat
    PROVE  /\ t \div SubSeconds \in Nat
           /\ t % SubSeconds \in 0 .. SubSeconds - 1
           /\ t = SubSeconds * (t \div SubSeconds) + (t % SubSeconds)
  BY SubSecondsAssumption

\* Cutting to whole seconds keeps instants in order.
LEMMA WholeSecondMonotone ==
    ASSUME NEW s \in Nat, NEW t \in Nat, s <= t
    PROVE  WholeSecond(s) \in Nat /\ WholeSecond(s) <= WholeSecond(t)
<1> DEFINE qs == s \div SubSeconds
           qt == t \div SubSeconds
<1>1. /\ qs \in Nat /\ qt \in Nat /\ SubSeconds \in Nat
      /\ WholeSecond(s) = SubSeconds * qs /\ WholeSecond(t) = SubSeconds * qt
      /\ SubSeconds * qs <= s /\ t < SubSeconds * qt + SubSeconds
  BY SecondsAndRest, SubSecondsAssumption DEF WholeSecond
<1> HIDE DEF qs, qt
<1>2. qs <= qt
  <2> SUFFICES ASSUME qt + 1 <= qs PROVE FALSE
    BY <1>1
  <2>1. SubSeconds * (qt + 1) <= SubSeconds * qs
    BY <1>1, TimesMonotone
  <2>2. SubSeconds * (qt + 1) = SubSeconds * qt + SubSeconds
    BY <1>1
  <2> QED
    BY <1>1, <2>1, <2>2
<1> QED
  BY <1>1, <1>2, TimesMonotone

(* A multiple of the instants in a second is a whole second.                *)
LEMMA MultipleIsSecond ==
    ASSUME NEW q \in Nat
    PROVE  (SubSeconds * q) % SubSeconds = 0
<1> DEFINE n == SubSeconds * q
           d == n \div SubSeconds
           r == n % SubSeconds
<1>1. SubSeconds \in Nat /\ SubSeconds >= 1
  BY SubSecondsAssumption
<1>2. n \in Nat
  BY <1>1
<1>3. d \in Nat /\ r \in 0 .. SubSeconds - 1 /\ n = SubSeconds * d + r
  BY <1>2, SecondsAndRest
<1> HIDE DEF d, r
<1>4. SubSeconds * (q - d) = r
  BY <1>1, <1>3
<1>5. q - d = 0
  <2>1. CASE q - d >= 1
    <3>1. SubSeconds * 1 <= SubSeconds * (q - d)
      BY <2>1, <1>1, <1>3, TimesMonotone
    <3> QED
      BY <3>1, <1>1, <1>3, <1>4
  <2>2. CASE q - d <= -1
    <3>1. SubSeconds * (q - d) <= SubSeconds * (-1)
      BY <2>2, <1>1, <1>3, TimesMonotone
    <3> QED
      BY <3>1, <1>1, <1>3, <1>4
  <2> QED
    BY <2>1, <2>2, <1>3
<1>6. r = 0
  BY <1>1, <1>4, <1>5
<1> QED
  BY <1>6 DEF r

(* What is written has whole seconds, is no later, and writing it again      *)
(* changes nothing.                                                          *)
LEMMA WholeSecondIsWhole ==
    ASSUME NEW t \in Nat
    PROVE  /\ WholeSecond(t) \in Nat
           /\ WholeSecond(t) % SubSeconds = 0
           /\ WholeSecond(t) <= t
<1>1. WholeSecond(t) = SubSeconds * (t \div SubSeconds)
  BY SecondsAndRest, SubSecondsAssumption DEF WholeSecond
<1>2. WholeSecond(t) % SubSeconds = 0
  BY <1>1, SecondsAndRest, MultipleIsSecond
<1>3. WholeSecond(t) \in Nat
  BY WholeSecondMonotone
<1>4. t % SubSeconds \in Nat
  BY SecondsAndRest, SubSecondsAssumption
<1>5. WholeSecond(t) <= t
  BY <1>4 DEF WholeSecond
<1> QED
  BY <1>2, <1>3, <1>5

(* Cutting once is enough, and a window stays as empty as it was.           *)
LEMMA CutTwice ==
    ASSUME NEW from \in Nat, NEW until \in Nat \cup {None}
    PROVE  /\ WholeSecond(from) \in Nat
           /\ WholeSecondOption(until) \in Nat \cup {None}
           /\ WholeSecond(WholeSecond(from)) = WholeSecond(from)
           /\ WholeSecondOption(WholeSecondOption(until)) = WholeSecondOption(until)
           /\ EmptyWindow(WholeSecond(from), WholeSecondOption(until))
                 <=> EmptyWindow(from, until)
<1>1. \A t \in Nat :
         /\ WholeSecond(t) \in Nat /\ WholeSecond(t) # None
         /\ WholeSecond(WholeSecond(t)) = WholeSecond(t)
  <2> TAKE t \in Nat
  <2>1. WholeSecond(t) \in Nat /\ WholeSecond(t) % SubSeconds = 0
    BY WholeSecondIsWhole
  <2>2. WholeSecond(WholeSecond(t)) = WholeSecond(t) - (WholeSecond(t) % SubSeconds)
    BY DEF WholeSecond
  <2> HIDE DEF WholeSecond
  <2>3. WholeSecond(WholeSecond(t)) = WholeSecond(t)
    BY <2>1, <2>2
  <2> QED
    BY <2>1, <2>3, NoneAssumption
<1>2. CASE until = None
  BY <1>1, <1>2 DEF WholeSecondOption, EmptyWindow
<1>3. CASE until # None
  BY <1>1, <1>3 DEF WholeSecondOption, EmptyWindow
<1> QED
  BY <1>2, <1>3

-----------------------------------------------------------------------------
(* Induction over naturals, by the smallest counterexample.                 *)

\* A set of naturals that holds something has a smallest element.
LEMMA SmallestExists ==
    ASSUME NEW T, T \subseteq Nat, T # {}
    PROVE  \E x \in T : \A y \in T : x <= y
<1>1. PICK x \in T : \A y \in T : ~ (<<y, x>> \in OpToRel(<, Nat))
  BY NatLessThanWellFounded, WFMin
<1>2. \A y \in Nat : <<y, x>> \in OpToRel(<, Nat) <=> y < x
  BY DEF OpToRel
<1>3. \A y \in T : ~ (y < x)
  BY <1>1, <1>2
<1>4. \A y \in T : x <= y
  BY <1>3
<1> QED
  BY <1>4

\* What holds at n, and at each position below one it holds at, holds from 1 to n.
LEMMA Downwards ==
    ASSUME NEW n \in Nat, NEW S, n \in S,
           \A k \in 1 .. n - 1 : k + 1 \in S => k \in S
    PROVE  1 .. n \subseteq S
<1> DEFINE T == {d \in Nat : d < n /\ n - d \notin S}
<1>1. SUFFICES T = {}
  <2>1. ASSUME NEW k \in 1 .. n, T = {}
        PROVE  k \in S
    <3>1. n - k \in Nat /\ n - k < n /\ n - (n - k) = k
      OBVIOUS
    <3>2. n - k \notin T
      BY <2>1
    <3>3. n - (n - k) \in S
      BY <3>1, <3>2
    <3> QED
      BY <3>1, <3>3
  <2> QED
    BY <2>1
<1>2. SUFFICES ASSUME T # {} PROVE FALSE
  OBVIOUS
<1>3. PICK d \in T : \A e \in T : d <= e
  <2>1. T \subseteq Nat
    OBVIOUS
  <2> HIDE DEF T
  <2> QED
    BY <1>2, <2>1, SmallestExists
<1>4. d \in Nat /\ d < n /\ n - d \notin S
  OBVIOUS
<1>5. d # 0
  BY <1>4
<1>6. d - 1 \in Nat /\ d - 1 \notin T
  <2> HIDE DEF T
  <2> QED
    BY <1>3, <1>4, <1>5
<1>7. n - (d - 1) \in S
  BY <1>4, <1>6
<1>8. n - d \in 1 .. n - 1 /\ n - d + 1 = n - (d - 1)
  BY <1>4, <1>5
<1> QED
  BY <1>4, <1>7, <1>8

\* What holds at 1, and above each position below n it holds at, holds from 1 to n.
LEMMA Upwards ==
    ASSUME NEW n \in Nat, NEW S, 1 \in S,
           \A k \in 1 .. n - 1 : k \in S => k + 1 \in S
    PROVE  1 .. n \subseteq S
<1> DEFINE R == {k \in 1 .. n : n + 1 - k \in S}
<1>1. SUFFICES ASSUME n # 0 PROVE 1 .. n \subseteq S
  OBVIOUS
<1>2. n \in R
  BY <1>1
<1>3. ASSUME NEW k \in 1 .. n - 1, k + 1 \in R
      PROVE  k \in R
  <2>1. n - k \in 1 .. n - 1 /\ n + 1 - (k + 1) = n - k /\ n + 1 - k = (n - k) + 1
    OBVIOUS
  <2>2. n - k \in S
    BY <1>3, <2>1
  <2> QED
    BY <2>1, <2>2
<1>4. 1 .. n \subseteq R
  <2> HIDE DEF R
  <2> QED
    BY <1>2, <1>3, Downwards
<1>5. ASSUME NEW k \in 1 .. n PROVE k \in S
  <2>1. n + 1 - k \in 1 .. n /\ n + 1 - (n + 1 - k) = k
    OBVIOUS
  <2>2. n + 1 - (n + 1 - k) \in S
    BY <1>4, <2>1
  <2> QED
    BY <2>1, <2>2
<1> QED
  BY <1>5
=============================================================================
