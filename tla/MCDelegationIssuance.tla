------------------------ MODULE MCDelegationIssuance ------------------------
(***************************************************************************)
(* A principal, two delegates, one of them also under a located reference, *)
(* windows that nest at two instants to the second, and the documents of   *)
(* other implementations: v1.1 spelling, members that are null, ends that  *)
(* are within a second, missing or cannot be read, both halves at once.    *)
(***************************************************************************)
EXTENDS DelegationIssuance

CONSTANTS p, a, sign, pay

MCDids == {p, a}
MCActs == {sign, pay}
MCDigests == (1 .. MaxVdcs) \X {"model", "wire"}

Plain(did) == [did |-> did, located |-> FALSE]
Located(did) == [did |-> did, located |-> TRUE]

MCPrincipals == {Plain(p)}
MCDelegates == {Plain(p), Plain(a)}
MCScopeLists == {{sign}, {sign, pay}}

Window(from, until) == [from |-> from, until |-> until]

\* At SubSeconds = 2 the ends of the first two fall within a second.
MCWindows == {Window(0, 9), Window(1, 5), Window(2, 6)}

\* A grant from elsewhere, its end within a second, which this library never
\* writes.
FromElsewhere ==
    [issuer |-> Plain(p), subject |-> Plain(a), from |-> 0, until |-> 9,
     scope |-> {sign}, maxDepth |-> 2, parent |-> None, accepts |-> None,
     ours |-> FALSE, over |-> 0, by |-> "received"]

\* Filled in where it is received.
Answer == Name(<<1, "wire">>)

MCReceived ==
    {FromElsewhere,
     [FromElsewhere EXCEPT !.until = 8, !.ours = TRUE],
     [FromElsewhere EXCEPT !.subject = Located(a)],
     [FromElsewhere EXCEPT !.until = None],
     [FromElsewhere EXCEPT !.until = Null],
     [FromElsewhere EXCEPT !.until = Garbled],
     [FromElsewhere EXCEPT !.scope = Null],
     [FromElsewhere EXCEPT !.until = 8, !.scope = {}, !.ours = TRUE],
     [FromElsewhere EXCEPT !.accepts = Null],
     [FromElsewhere EXCEPT !.accepts = Answer],
     [FromElsewhere EXCEPT !.accepts = Answer, !.scope = Null, !.maxDepth = None],
     [FromElsewhere EXCEPT !.accepts = Answer, !.scope = None]}
=============================================================================
