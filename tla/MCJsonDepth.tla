----------------------------- MODULE MCJsonDepth -----------------------------
(***************************************************************************)
(* The bound lowered to the depth of the library's own types.  A statement *)
(* with any subset of chains under its open members, on both sides of the  *)
(* bound, one of them forked; a credential that is not a statement; and a  *)
(* document that is no credential.                                         *)
(***************************************************************************)
EXTENDS JsonDepth

MCKey == {"credentialSubject", "object", "value", "credentialStatus",
          "issuer", "authority", "actions", "note", "k", "l"}

Prefixes(path) == {SubSeq(path, 1, n) : n \in 0 .. Len(path)}

Document(paths) == {<<>>} \cup UNION {Prefixes(path) : path \in paths}

Closed == {<<"issuer">>, <<"credentialSubject", "object">>}

Status  == <<"credentialStatus">>
Extra   == <<"note">>
Value   == <<"credentialSubject", "object", "value">>
Member  == <<"credentialSubject", "note">>

\* At depths 5 and 6, the bound and past it.
Chains == {Status \o <<"k", "k", "k">>, Status \o <<"k", "k", "k", "k">>,
           Extra \o <<"k", "l">>, Extra \o <<"k", "k", "k", "k">>,
           Value \o <<"k">>, Value \o <<"k", "l">>, Value \o <<"l">>,
           Member \o <<"k", "k">>, Member \o <<"l", "k", "k">>}

Vac == {<<"issuer">>, <<"credentialSubject", "authority", "actions", "k">>}

MCDocuments ==
    {Document(Closed \cup chains) : chains \in {c \in SUBSET Chains : Cardinality(c) <= 4}}
    \cup {Document(Vac), Document(Vac \cup {Status \o <<"k", "k", "k", "k">>}),
          Document({<<"k", "l", "k", "l", "k">>, <<"l", "k">>}), {<<>>}}
=============================================================================
