------------------------ MODULE MCAuthorityIssuance ------------------------
(***************************************************************************)
(* A governing party, a holder and windows that nest, overlap and miss one *)
(* another, at two instants to the second.                                 *)
(***************************************************************************)
EXTENDS AuthorityIssuance, TLC

CONSTANTS g, a, read, write

MCDids == {g, a}
MCScopes == {g}
MCActions == {read, write}
MCDigests == (1 .. MaxVacs) \X {"model", "wire"}

\* The two actions are told apart by nothing but their names.
SameActions == Permutations(MCActions)

Window(from, until) == [from |-> from, until |-> until]

\* At SubSeconds = 2 the third is empty on the wire.
Nested == {Window(0, 9), Window(2, 7), Window(6, 7)}

Disjoint == {Window(0, 9), Window(1, 4), Window(6, 9)}
=============================================================================
