-------------------------- MODULE MCMembershipEdge --------------------------
(***************************************************************************)
(* Two parties that are each a community to the other, as in a network of  *)
(* communities, one of them also reached by a located reference.           *)
(***************************************************************************)
EXTENDS MembershipEdge

CONSTANTS c, m

MCDids == {c, m}

Plain(did) == [did |-> did, located |-> FALSE]
Located(did) == [did |-> did, located |-> TRUE]

MCRefs == {Plain(c), Plain(m), Located(m)}

\* Either to the other, under either reference, and a member to itself.
MCPairs == {<<Plain(c), Plain(m)>>, <<Plain(m), Plain(c)>>,
            <<Plain(c), Located(m)>>, <<Located(m), Plain(c)>>,
            <<Plain(m), Located(m)>>}

Window(from, until) == [from |-> from, until |-> until]

\* At SubSeconds = 2 the second ends at 8 on the wire and the last is empty there.
MCWindows == {Window(2, None), Window(3, 9), Window(4, 5)}
=============================================================================
