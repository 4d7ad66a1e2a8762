------------------------- MODULE MCDelegationChain -------------------------
(***************************************************************************)
(* Chains of up to four grants under a ceiling of three, each at most two  *)
(* edits away from a chain in order, and the budgets of a chain in order   *)
(* in every combination.  The edits are those of tests/delegation_chain.rs *)
(* and the values a hand-built JSON may carry.                             *)
(***************************************************************************)
EXTENDS DelegationChain

CONSTANTS p, a, b, c, x,            \* the principal, three delegates, a stranger
          d1, d2, d3, d4,           \* the digests of the grants, root first
          sign, pay, vote

MCDids == {p, a, b, c, x}
MCDigests == {d1, d2, d3, d4}
MCActs == {sign, pay, vote}

Plain(did) == [did |-> did, located |-> FALSE]
Located(did) == [did |-> did, located |-> TRUE]
Holder == <<p, a, b, c, x>>
DigestAt == <<d1, d2, d3, d4>>

\* The grant at the given level of a chain of n in order, the root at level 1:
\* each allows exactly what lies below it.
InOrder(level, n) ==
    [kind     |-> "Delegation",
     accepts  |-> FALSE,
     issuer   |-> Plain(Holder[level]),
     subject  |-> Plain(Holder[level + 1]),
     from     |-> 1,
     until    |-> 8,
     scope    |-> {sign, pay},
     maxDepth |-> IF level = n THEN None ELSE n - level,
     parent   |-> IF level = 1 THEN None
                  ELSE [digest |-> DigestAt[level - 1], base |-> "z"],
     digest   |-> DigestAt[level]]

ChainInOrder(n) == [i \in 1 .. n |-> InOrder(n + 1 - i, n)]

\* What an edit may put in a field, for a link at that level.
Values(field, level) ==
    CASE field = "kind" -> {"NoGrant", "Other"}
      [] field = "accepts" -> {TRUE}
      [] field = "issuer" -> {Plain(x), Located(Holder[level]), Plain(p)}
      [] field = "subject" -> {Plain(x), Located(Holder[level + 1])}
      [] field = "from" -> {5, 6}
      [] field = "until" -> {None, 4, 5, 7, 9}
      [] field = "scope" -> {{}, {sign}, {sign, pay, vote}}
      [] field = "maxDepth" -> {None, 0, 1, 2}
      [] field = "parent" -> {None, [digest |-> None, base |-> "z"],
                              [digest |-> d1, base |-> "u"],
                              [digest |-> d2, base |-> "u"]}
      [] OTHER -> {None, d4}

Fields == {"kind", "accepts", "issuer", "subject", "from", "until", "scope",
           "maxDepth", "parent", "digest"}

\* The chains one edit away from ch.
Edited(ch) ==
    UNION {UNION {{[ch EXCEPT ![i] = [@ EXCEPT ![f] = v]]
                     : v \in Values(f, Len(ch) + 1 - i)}
                  : f \in Fields}
           : i \in DOMAIN ch}

WithEdits(chains) == chains \cup UNION {Edited(ch) : ch \in chains}

\* Every way to give the links of a chain their budgets.
Budgeted(n) ==
    {[i \in 1 .. n |-> [ChainInOrder(n)[i] EXCEPT !.maxDepth = budget[i]]]
        : budget \in [1 .. n -> {None, 0, 1, 2, 3}]}

MCChains ==
    UNION {WithEdits(WithEdits({ChainInOrder(n)})) : n \in 0 .. 3}
    \cup WithEdits({ChainInOrder(4)})
    \cup Budgeted(3)

Asks(presenter) ==
    [principal |-> Plain(p), act |-> sign, presenter |-> presenter, at |-> 5]

MCRequests ==
    UNION {{Asks(Plain(h)),
            [Asks(Plain(h)) EXCEPT !.act = vote],
            [Asks(Plain(h)) EXCEPT !.at = 7]} : h \in {a, b, c}}
    \cup {Asks(Located(c)),
          [Asks(Plain(c)) EXCEPT !.principal = Located(p)],
          [Asks(Plain(c)) EXCEPT !.principal = Plain(a)]}
=============================================================================
