-------------------------- MODULE MCAuthorityChain --------------------------
(***************************************************************************)
(* Chains of up to four links under a ceiling of three, each at most two   *)
(* edits away from a chain in order, asked about by a request at most one  *)
(* edit away from the one that chain answers.  The edits are the ways the  *)
(* tests tamper with a link through authority_mut and credential_mut, and  *)
(* the values a hand-built JSON may carry.                                 *)
(***************************************************************************)
EXTENDS AuthorityChain

CONSTANTS g, a, b, c, x,            \* the governing party, three holders, a stranger
          d1, d2, d3, d4,           \* the digests of the links, root first
          room, hall, read, write, admin

MCDids == {g, a, b, c, x}
MCDigests == {d1, d2, d3, d4}
MCScopes == {room, hall}
MCActions == {read, write, admin}

Plain(did) == [did |-> did, located |-> FALSE]
Located(did) == [did |-> did, located |-> TRUE]
Holder == <<g, a, b, c, x>>
DigestAt == <<d1, d2, d3, d4>>

\* The link at the given level of a chain in order, the root at level 1.
InOrder(level) ==
    [kind           |-> "Authority",
     issuer         |-> Plain(Holder[level]),
     subject        |-> Plain(Holder[level + 1]),
     from           |-> 1,
     until          |-> 8,
     scope          |-> room,
     actions        |-> {read, write},
     maxAttenuation |-> None,
     parent         |-> IF level = 1 THEN None
                        ELSE [digest |-> DigestAt[level - 1], base |-> "z"],
     digest         |-> DigestAt[level]]

ChainInOrder(n) == [i \in 1 .. n |-> InOrder(n + 1 - i)]

\* What an edit may put in a field, for a link at that level.
Values(field, level) ==
    CASE field = "kind" -> {"NoGrant", "Other"}
      [] field = "issuer" -> {Plain(x), Located(Holder[level]), Plain(g)}
      [] field = "subject" -> {Plain(x), Located(Holder[level + 1])}
      [] field = "from" -> {5, 6}
      [] field = "until" -> {None, 4, 5, 7, 9}
      [] field = "scope" -> {hall}
      [] field = "actions" -> {{}, {read}, {read, write, admin}}
      [] field = "maxAttenuation" -> {0, 1, 2}
      [] field = "parent" -> {None, [digest |-> None, base |-> "z"],
                              [digest |-> d1, base |-> "u"],
                              [digest |-> d2, base |-> "u"]}
      [] OTHER -> {None, d4}

Fields == {"kind", "issuer", "subject", "from", "until", "scope", "actions",
           "maxAttenuation", "parent", "digest"}

\* The chains one edit away from ch.
Edited(ch) ==
    UNION {UNION {{[ch EXCEPT ![i] = [@ EXCEPT ![f] = v]]
                     : v \in Values(f, Len(ch) + 1 - i)}
                  : f \in Fields}
           : i \in DOMAIN ch}

WithEdits(chains) == chains \cup UNION {Edited(ch) : ch \in chains}

MCChains ==
    UNION {WithEdits(WithEdits({ChainInOrder(n)})) : n \in 0 .. 3}
    \cup WithEdits({ChainInOrder(4)})

Asks(presenter) ==
    [governing |-> Plain(g), scope |-> room, action |-> read,
     presenter |-> presenter, at |-> 5]

MCRequests ==
    UNION {{Asks(Plain(h)),
            [Asks(Plain(h)) EXCEPT !.action = admin],
            [Asks(Plain(h)) EXCEPT !.at = 7]} : h \in {a, b, c}}
    \cup {Asks(Located(c)),
          [Asks(Plain(c)) EXCEPT !.governing = Located(g)],
          [Asks(Plain(c)) EXCEPT !.governing = Plain(a)],
          [Asks(Plain(c)) EXCEPT !.scope = hall]}
=============================================================================
