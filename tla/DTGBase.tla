------------------------------ MODULE DTGBase ------------------------------
(***************************************************************************)
(* What every part of the dtg-credentials library shares: optional         *)
(* members, instants and their wire form, validity windows, party          *)
(* references, digests as they are carried, and the shape of a function    *)
(* that returns the first error it meets.                                  *)
(***************************************************************************)
EXTENDS Integers, Sequences, FiniteSets

CONSTANTS
    None,        \* Rust's `None`; also a digest that cannot be computed or read
    Dids,        \* the parties, each one DID
    Digests,     \* the raw digest values
    SubSeconds   \* instants of an in-memory timestamp to one wire second

ASSUME NoneAssumption == None \notin Int /\ None \notin Digests
ASSUME SubSecondsAssumption == SubSeconds \in Nat \ {0}

-----------------------------------------------------------------------------
(* Time.  A DateTime<Utc> carries sub-seconds in memory and whole seconds   *)
(* on the wire.                                                             *)

\* trunc_subsecs(0), and what iso8601_format writes.
WholeSecond(t) == t - (t % SubSeconds)

\* The Option<DateTime<Utc>> form.
WholeSecondOption(t) == IF t = None THEN None ELSE WholeSecond(t)

\* check_window refuses a window that is empty at whole seconds.
EmptyWindow(from, until) ==
    until # None /\ WholeSecond(until) <= WholeSecond(from)

-----------------------------------------------------------------------------
(* Parties.  A did:scid party may be named with the ?src= locator it is     *)
(* resolved through, so one DID has two references.                         *)

Ref == [did : Dids, located : BOOLEAN]

\* affinidi_did_common::scid::same_reference.
SameReference(a, b) == a.did = b.did

-----------------------------------------------------------------------------
(* Digests.  One digest has a spelling per multibase; a string that does    *)
(* not decode to a sha2-256 multihash has none to compare (digest = None).  *)

Named == [digest : Digests \cup {None}, base : {"z", "u"}]

\* decode_digest_multibase fails.
Unreadable(named) == named.digest = None

\* digests_match, once the carried value has been read: decoded bytes are
\* compared, never the strings.
SameDigest(named, digest) == named.digest = digest

-----------------------------------------------------------------------------
(* Chains, as both verifiers take them: leaf first.  Positions count from 1 *)
(* here and from 0 in the source.  `digest` is what digest_multibase() of a *)
(* link returns, None when it fails (JSON too deep).                        *)

Leaf(chain) == chain[1]
Root(chain) == chain[Len(chain)]

\* Link i names, by a digest that can be read and recomputed, the link above it.
Pinned(chain, i) ==
    /\ chain[i + 1].digest # None
    /\ chain[i].parent # None
    /\ ~ Unreadable(chain[i].parent)
    /\ SameDigest(chain[i].parent, chain[i + 1].digest)

-----------------------------------------------------------------------------
(* A function of the library that returns at the first failing check is a   *)
(* sequence of checks, in the order of the source.                          *)

Check(fault, when) == [fault |-> fault, when |-> when]

Passes(checks) == \A k \in DOMAIN checks : ~ checks[k].when

\* The error returned: the singleton of the first failing check, or {}.
FirstFault(checks) ==
    {checks[k].fault : k \in {k \in DOMAIN checks :
        checks[k].when /\ \A j \in 1 .. k - 1 : ~ checks[j].when}}
=============================================================================
