# A TLA+ model of dtg-credentials

`dtg-credentials` is a Rust library that builds, signs, parses and checks the
credentials of a Decentralized Trust Graph: memberships, authority, delegations,
statements. It has no threads, no storage and no network of its own. What makes it
hard is that its decisions are spread out: a chain of credentials is built by one
party after another, each seeing only its neighbour, over documents that were cut to
whole seconds and re-written on the way, and judged later by somebody else from
whatever he was given. The modules here model those decisions and the sequences of
calls that lead to them; TLC checks them on small instances and TLAPS proves the main
results for every chain, window and number of documents.

## The system

| Part (file under `src/src/`) | State | Operations | What makes it correct |
|---|---|---|---|
| Authority chains (`authority.rs`) | the locals of one call | `verify_chain` | grants exactly what every link conferred, to the party the leaf names, while all are in force |
| Delegation chains (`delegation.rs`) | the locals of one call | `verify_chain` | appoints exactly for what every link allows, no further from the principal than each permits |
| VAC issuance (`create.rs`) | the VACs built | `new_vac`, `new_community_role_vac`, `with_max_attenuation`, `attenuate`, `attenuate_from_json` | chains built by it verify; children never exceed parents |
| VDC issuance and edge (`create.rs`, `lib.rs`) | the grants and acceptances built | `new_vdc`, `redelegate`, `redelegate_from_json`, `new_delegate_vdc_for`, `accepts` | as above, plus: an edge needs both halves |
| Membership edge (`create.rs`, `lib.rs`) | grants and acknowledgements, signed or changed | `new_vmc`, `new_member_vmc_for`, `acknowledges` | an edge is made by both parties, survives re-signing, ends with its grant |
| Signing (`lib.rs`) | a credential and its proof | `validate`, `sign`, `verify_proof_with_public_key`, `verify_grant_with_public_key` | what is signed is valid; a proof counts only if its issuer made it |
| Digests (`lib.rs`) | none | `digest_multibase`, `digest_multibase_json`, `digests_match` | equal claims, equal digests, whatever the proof and the spelling |
| Parsing (`lib.rs`) | a credential and the subtype cached beside it | `TryFrom`, `check_type`, `check_context`, `check_conformance`, `credential_mut` | what is signed reads as the same credential where it arrives |
| JSON depth (`lib.rs`) | an explicit stack | `exceeds_max_depth` | refuses exactly what is too deep, before recursing into it |
| Task citations (`create.rs`, `lib.rs`) | two members of a credential | `set_task_citation`, `cites_task` | both members come from one document, or neither is set |
| Statements (`statement.rs`) | the table of core profiles | `new_vsc` and the four profile constructors, `check_statement`, `witnesses_issuance_of`, `witnesses_presentation_of` | what is built can be signed, and names what it was built over |
| Predicate acceptance (`accept.rs`) | a map from predicates to constraints | `from_iris`, `from_registry`, `accept` | core profiles cannot be relaxed; acceptance is the same here and where the statement arrives |
| Personas, relationships, invitations (`create.rs`) | a credential | `new_vpc`, `new_vrc`, `new_vic` | as any credential |

The parts interact through values, not calls: constructors build a credential, `sign`
puts a proof on it, its JSON travels, a parse reads it (and cuts nothing, but cannot
restore what the wire form lost), digests tie one document to the claims of another,
and the chain or edge checks put the pieces together. Nothing orders these steps: a
document may be delivered twice, late or never, re-signed, or changed with
`credential_mut` after signing.

The hard behaviours are therefore: promises about a whole chain kept by checks of
neighbours; instants with sub-seconds in memory and none on the wire; a digest taken of
the parsed model on one side and of the received bytes on the other; references that
name one DID in two ways, compared by DID in some places and verbatim in others; absent
members that mean "no limit" for one credential and "none" for another; members that are
null, and so present to one reader and absent to another; unsigned limits that are
decremented; a subtype remembered beside an array that can be edited. `PROJECT.json` lists them
line by line under `hazards`.

## Modules

| Module | Role |
|---|---|
| `DTGBase` | options, instants and whole seconds, windows, references, digests, "first failing check" |
| `ChainCall` | one call of a `verify_chain`: its variables, how a group of checks ends it or goes on |
| `AuthorityTerms` | a VAC as the verifier reads it; `Entitled`, the promise |
| `AuthorityDecision` | abstract verifier: answers once, grants iff `Entitled` |
| `AuthorityChain` | `authority::verify_chain` in detail; implements `AuthorityDecision` |
| `DelegationTerms`, `DelegationDecision`, `DelegationChain` | the same for `delegation::verify_chain`, with `Appointed` |
| `AuthorityIssuance` | building VACs over a growing ledger, judged by `Entitled` |
| `DelegationIssuance` | building, receiving, re-delegating and accepting VDCs, judged by `Appointed` and `Accepts` |
| `MembershipEdge` | grants, acknowledgements, proofs and changes after signing |
| `Statement` | predicates, core profiles, Trust Task citations, the credential a statement is about |
| `Conformance` (extends `Statement`) | one credential in memory and on the wire; what a parse and `validate` check |
| `AcceptList` (extends `Conformance`) | accept-lists and what they take |
| `CredentialLifecycle` (extends `AcceptList`) | one credential: constructors, setters, edits, signing, sending, accepting |
| `JsonDepth` | the worklist of `exceeds_max_depth` and its two sets of roots |
| `MC...` | the instances TLC checks |
| `AuthorityChainProofs`, `DelegationChainProofs`, `AuthorityIssuanceProofs`, `DelegationIssuanceProofs`, `MembershipEdgeProofs`, `CredentialLifecycleProofs`, `JsonDepthProofs` | theorems about the module they are named for, and their proofs |
| `DTGBaseProofs` | the lemmas they share: sequences of checks, whole seconds, induction along a chain |

`AuthorityIssuance` and `DelegationIssuance` compose construction with verification: the
documents they build are presented to `Entitled` and `Appointed`, and
`ImplementsDecision` says that the verifiers' code decides exactly that. `Statement`,
`Conformance` and `AcceptList` are pure definitions without variables, composed by
`CredentialLifecycle`.

### From code to model

*A call of `verify_chain`* is a behaviour. `pc` names the group of checks that comes
next, `index` is the loop variable of the group, `verdict` the error returned or
`"accepted"`, and `granted` the returned value. Each group (`LinkChecks`, `WalkChecks`,
...) is the sequence of that loop body's conditions in the order of the source;
`FirstFault` is the early return. One step is one iteration of a loop or one group
outside a loop: the function touches nothing shared, so finer steps show nothing more.
`chain` and `request` are its arguments, chosen at the start. The arguments of an error
(indices, texts) are left out, its variant is kept.

*Instants* are natural numbers with `SubSeconds` instants to one second of the wire form.
*A reference* is a DID and whether it carries a locator; `SameReference` is the library
function `scid::same_reference`, and a plain `=` stands for the places that compare
strings. *A digest* is a value that tells claims apart; one that cannot be computed (JSON
too deep) or read (malformed) is `None`. Spellings of a digest differ in `base`.

*The ledger* of `AuthorityIssuance` holds every VAC built; a position stands for its
claims. `over` records the document a VAC was derived from and `spelling` whether the
document is written as this library writes it or in the v1.1 form, for which
`digest_multibase` and `digest_multibase_json` differ. Issuers and subjects are plain DIDs.
A refused construction leaves the ledger as it is, and which of its errors is returned
is left out, so the checks of a constructor are conjuncts.

*The ledger* of `DelegationIssuance` also holds documents that other implementations wrote,
and both halves of an edge. A member of a document may be absent (`None`) or `Null`, an end
also `Garbled`, not a timestamp. `Claims` is the parser's model of a document; the readers
of `create.rs` that take a `serde_json::Value` (`ReadsAsGrant`, `WithinGrant`, `ReadUntil`)
look at the document itself: its ends are whole seconds where this library wrote it, and as
fine as their writer pleased elsewhere (`WireUntil` in `AuthorityIssuance`). In both ledgers
`Lineages` holds, for each document, the path of
positions its maker has: the document and, up to the root, what each was derived from.

*The credential* of `CredentialLifecycle` is a record of the members of `DTGCommon` plus
`type`, the subtype `DTGCredential` caches, and `proof`, which records the serialized
members it covers and whose key made it. `Serialized` is what is written, signed and
digested, `Model` what a parse makes of it: the window is cut to seconds, a membership
grant's subject is written as `{ id }` and found again by its type, null becomes absent.
`Deserializes` is what serde itself asks of a document: the timestamps, the scope, and
members of the subject that fit a variant. The `...Checks` operators list the early returns
of a function in its order; where an error of one check makes a later one meaningless (an
array that names no subtype) the later checks are not reached. An IRI, a Trust Task
document, the credential a statement is about and an open JSON value are records or names of
what the code tells apart in them; `"deep"` is a value nested past `MAX_JSON_DEPTH` that
still parses (`serde_json` allows 128). `edited` remembers that `credential_mut` was used,
`cited` and `about` what the caller cited and stated something about: they are read by
properties and by nothing else. `Edits` is any assignment to the members that the checks
read. `Me` is the party that issues here; the verifier is whoever holds the credential next,
with `ProofHolds` or an accept-list.

*A document* of `JsonDepth` is the set of paths of keys it holds, so that it is as wide and
as deep as one likes without a recursive definition. `Orders` are all orders a map may yield
its members in. A credential is a document whose values past the depth of the library's own
types lie under its open members (`OpenMembers`, the fields the types declare as any JSON), and
`OpenRoots`, what `check_depth` starts from, is written down apart from them, as it is in the
code, so that a member `check_depth` forgot would show; the library's types
reach depth 5 (`credentialSubject.authority.actions[0]`; the comment at `lib.rs:1777` says
four), which is `ClosedDepth`, and the bound is 64, so that the difference has no effect.

*Documents* of `MembershipEdge` are claims and a proof. A digest covers exactly the
claims and is written as them. `sent` is everything that exists anywhere: receiving is
the quantifier over it, so loss, delay, duplication and reordering are all there.
`Acknowledge` is the order of calls the documentation of
`verify_grant_with_public_key` prescribes: verify, build, sign. A proof carries the
key that made it and the claims it covers; the cryptography is assumed to do its job.
`ours` says whether the claims are spelled as this library writes them: communities with other
software issue grants that are not (and may have sub-seconds), and a relay may respell any
document. `Wire` is what the library writes of the claims it holds, so what a parse leaves of a
document; `VerifyGrant` and `Digest` read the document itself, `VerifyProof` and `ModelDigest`
what the library would write of it. `AnswerTheirWay` is a member with other software, which
answers whatever it was sent, an answer too; what answers an answer is answered no further
(`AnswerToAnswer`, a bound on what naming nests to). A bare `#fragment` method (`None`) is the issuer's.

Definitions named `...Mutant` or `...Underflow` are not the code's: each is a
plausible bug in the definition after it, kept to show that a property notices it. The
specifications do not use them.

## What is checked

| Run | Instance | Shows |
|---|---|---|
| `authority_chain` | 340,529 states | all properties of `AuthorityChain`, and `ImplementsDecision` with its liveness |
| `delegation_chain` | 298,260 states | the same for `DelegationChain` |
| `authority_issuance` | 327,537 states | `BuiltChainsVerify` |
| `membership_edge` | 256,575 states | `EdgeIsMutual`, `AnswersComplete`, `HalvesStayApart`, `AnswerEndsWithGrant` |
| `delegation_issuance` | 169,364 states | `BuiltChainsAppoint`, `HalvesStayApart`, `ConsentEndsWithEveryGrant` |
| `credential_lifecycle` | 316,497 states | `SignedTravels`, `AcceptanceTravels`, `CitesOneDocument`, `StatementsNameTheirReferent`, `StatementsAreSignable` |
| `json_depth` | 36,131 states | `DecidesDepth`, `PendingApart`, `VisitsOnce`, and that the walk `Answers` |
| `attenuate_disjoint` | violated | `attenuate` builds a VAC no verifier ever accepts |
| `attenuate_received` | violated | `attenuate_from_json` and `verify_chain` digest different things |
| `redelegate_unreadable` | violated | an unreadable end of the parent bounds nothing |
| `vsc_needs_only_its_citation` | violated | `new_vsc` returns a statement no citation makes signable |
| `status_survives_the_wire` | violated | a status of JSON null is signed and not parsed |

**Properties.** `NeverMoreThanConferred` and `NeverMoreThanAppointed` compare the result
with *every* link, where the code compares neighbours. `GrantorHoldsIt` and
`DelegatorWasAppointed` say that whoever passed something on could have used it at that same
instant. `DepthLoopIsForBareLinks`: a limit raised below an ancestor is refused where it is
raised and, if some link in between bears none, by the depth loop; a decrement that wrapped at 0
would leave to the loop what the comparison is there for. `SurvivesTheWire` says that a chain
accepted in memory is accepted after it has
been written and read. `ImplementsDecision` is refinement: the verifier grants if, and only
if, `Entitled` (`Appointed`) holds, and always answers. `BuiltChainsVerify`: whatever
sequence of attenuations built a chain, it verifies as long as all of its windows are open;
where `with_max_attenuation` was used after `attenuate`, exactly if each limit so set is
below its parent's. `EdgeIsMutual`: an edge that verifies was signed by both, over exactly
those claims. `AnswersComplete`: an acknowledgement survives the community signing its grant
again and the grant being respelled; an answer to a document in another form completes no
edge. `HalvesStayApart` (of memberships): what answers a grant is answered by nothing, so that no
edge is read off two answers. `AnswerEndsWithGrant`: consent ends with the membership,
sub-seconds notwithstanding.

`BuiltChainsAppoint`: a re-delegation appoints whenever what it was derived from does, also
below grants written elsewhere. `HalvesStayApart` (of delegations): what counts as an acceptance for one
reader is a grant for none. `ConsentEndsWithEveryGrant`: an acceptance, compared with one
grant at whole seconds, outlasts no grant of the chain. `SignedTravels`: whatever was done
through `credential_mut` before signing, a credential that verifies here verifies where it
arrives, as the same type with the same subject. `AcceptanceTravels`: the same of
accept-lists, and none relaxes what the core profiles require. `CitesOneDocument`: the id
and the digest of a citation belong together through failed and repeated citations.
`StatementsNameTheirReferent`: a statement over a credential names it under any of its
proofs, and nothing else, in the role of its predicate. `StatementsAreSignable`: what the
constructors of a statement check, and `set_task_citation` after them, is all that
`validate` asks, a bare name for an object (`vsc_needs_only_its_citation`) and a status
nested too deep apart. `DecidesDepth`: the walk refuses exactly what is too deep, and the
open members with the depths written beside them stand for the whole credential.
`PendingApart`: what is on the stack lies in disjoint parts of the document. `VisitsOnce`: a
value taken from the stack is never come to again, so that each step leaves less ahead.

**Bounds.** Chains: lengths 0 to 4 under `MaxChainDepth = 3` (8 in the code), so both
sides of the ceiling occur; a chain of three has a leaf, a middle and a root, which is
every role a link plays. Chains up to three carry every pair of edits (`Edited`: the
tampering of the repository's tests, and the values a hand-built JSON may carry), so that
a second fault can mask or combine with a first; delegations also every combination of
budgets. `SubSeconds = 2` gives each second one instant the wire cannot write.
Ledger: three VACs (`MaxVacs`), the least at which a grandparent's limit matters, with
windows that nest and one that is empty on the wire. Edges: four documents
(`MaxDocuments`), enough for a grant, its answer, a second proof and a changed copy,
between two parties that are each a community, one of them also reached by a located
reference; five of the nine pairs of references issue grants (`Pairs`), either party to the
other under each reference, and one to itself.
VDCs: three documents (`MaxVdcs`): a root, a re-delegation and one more, or a grant, its
acceptance and an acceptance of that; `MaxChainDepth = 3` lets the longest be accepted; the received
documents are one ordinary grant and variants of it that differ in one or two members, among
them an end within a second.
Lifecycle: three calls (`MaxCalls`) after the constructor or parse, the least for
"edit, sign, send" and "cite, fail to cite, sign"; the inputs (`MCCredentialLifecycle`) are one
ordinary session,
credential, VMC and VSC each, with variants that differ in what one check reads, and two
windows, one of them empty only on the wire.
Depth: the bound is lowered to `ClosedDepth`, the least the argument allows, and documents
hold up to four chains, on both sides of the bound, under every kind of open member.

**Fairness.** Weak fairness on a call of `verify_chain`: it runs on its caller's thread,
takes no lock and awaits nothing; and, for the same reason, on the walk of `JsonDepth`.
Nothing else is fair; the parties of a ledger or an edge owe each other nothing, and no
liveness is claimed of them. Only `json_depth` switches deadlock checking off, because its
walk returns and is over; elsewhere a call that has returned and a bound that is reached
stutter explicitly.

**Divergences found.** `attenuate` is documented to make a chain a verifier would
reject impossible to build; a child's window may close before its parent's opens
(`create.rs:844`), and the parent may already be the last link that `MAX_CHAIN_DEPTH` permits,
as only the parent is looked at (`create.rs:798`). Both break `AttenuatedIsUsableSometime`; TLC
reports the first, whose trace is the shorter, and the second if `Windows` holds a single window. `attenuate_from_json` is documented to name
the digest the verifier
recomputes; `verify_chain` recomputes that of the parsed model (`authority.rs:391`), which
differs for a v1.1 document. The same mechanism concerns `acknowledges` with
`new_member_vmc_for`, where `AnswersComplete` says which edges never complete, and `accepts`
with `new_delegate_vdc_for`, where `BuiltChainsAppoint` excepts it.
`redelegate_from_json` reads an unreadable `validUntil` as none (`create.rs:1334`), against
the rule stated at `read_timestamp`. `new_vsc` says it checks everything but the citation and
leaves out that an `object.id` be an IRI (`statement.rs:461`). `credential_status` is documented
to survive a round trip and
does not when set to JSON null (`lib.rs:1624`).
Two more, seen while modelling, have no run: `check_type` takes the `PersonhoodCredential`
hint on any VMC, the member's half included (`lib.rs:1394`), and the W3C version cached at
construction is not compared by `validate` (`lib.rs:377`), so that an edit of `context` changes
one and not the other; neither changes what verifies.

## What is proved

For every value of the constants, from the named assumptions of the modules
(`NoneAssumption`, `SubSecondsAssumption`, `ChainsAssumption`, ...: the types of the
arguments, and that `None` is none of the values it is an alternative to):

* `AuthorityChainProofs`: `TypeCorrect`, `NeverMore`, `DepthLoopOnlyForBareLinks`,
  `GrantorAlwaysHoldsIt`, `AlwaysSurvivesTheWire`, and `ImplementsDecisionSafely`, the safety half of
  `ImplementsDecision`.
* `DelegationChainProofs`: `TypeCorrect`, `NeverMore`, `DelegatorsWereAppointed`,
  `ImplementsDecisionSafely`.
* `MembershipEdgeProofs`: `TypeCorrect`, `EdgesAreMutual`, `AnswersAlwaysComplete`,
  `HalvesAlwaysApart`, `AnswersEndWithGrants`, so all properties of that run.
* `AuthorityIssuanceProofs`: `TypeCorrect` and `AttenuationBuildsValidChains`, so all properties
  of that run; from `InputsAssumption`, which types what a caller may pass.
* `DelegationIssuanceProofs`: `TypeCorrect`, `HalvesAlwaysApart`, `RedelegationBuildsValidChains`,
  `ConsentNeverOutlivesAGrant`, so all properties of that run, and `RedelegationsNarrow`, what
  every re-delegation keeps of its parent whoever wrote that; from `InputsAssumption` and
  `MembersAssumption` (null, an unreadable end and absence differ).
* `CredentialLifecycleProofs`: `TypeCorrect`, `SignedAlwaysTravels`, `AcceptanceAlwaysTravels`,
  `AlwaysCitesOneDocument`, `StatementsAlwaysNameTheirReferent` and `StatementsAlwaysSignable`,
  so all properties of that run, for any number of calls, any sessions, credentials and
  accept-lists; and `ParsingSettles`, that what a parse made of any document is written and
  parsed again as itself. From `InputsAssumption`: windows are timestamps, predicates come with
  the tests they pass, and a received document is one serde deserializes (`Deserializes`);
  nothing is assumed of its arrays, issuer, citation and proof, nor which shape its subject has.
* `JsonDepthProofs`: `TypeCorrect`, `AlwaysDecidesDepth`, `AlwaysApart` and `EachValueOnce`, so all
  properties of that run but its liveness, for finite documents
  closed under prefixes (`DocumentsAssumption`), a bound no less than the depth of the
  closed types (`DepthsAssumption`) and `object` and `credentialSubject` being members the
  library's types name (`MembersAssumption`).

*The verifiers.* None of the properties is inductive: half-way through a walk nothing is
granted and they say nothing. `Inv` adds `Established`: at each `pc` and `index`, what the
passed groups have established. The walk compares neighbours, so `Established` carries
its conclusions for *all* pairs of links below the index; the step from `index` to
`index + 1` extends them by transitivity. For delegations the depth below each ancestor
comes from the budgets alone (`BudgetCoversDepth`): one step up, a budget that has fallen by
at least one still covers one more link. The other half of `Inv` is that a refusal is never
wrong, which is what makes refinement an equivalence. `GrantorHoldsIt` and
`DelegatorWasAppointed` then follow from the parts of `Entitled` restricted to the
upper chain, and `SurvivesTheWire` from cutting being monotone (`WholeSecondMonotone`).
`DepthLoopOnlyForBareLinks` has an invariant of its own, `DepthInv`: where all links passed bear
a limit, it falls by one at least from each to the next below (`LimitsClimb`), so that the
depth loop finds nothing.

*The edge.* `ProofsWereMade`: every proof in any document was once made by its key
over the claims it covers, which copying, amending, respelling and re-signing keep.
`AnswersMirror`: every answer built mirrors the grant it names, and ends with it. Both
directions of `AnswersComplete` rest on `Wire` leaving alone what is in this library's form
(`FormIsWire`) and always yielding that form (`WireTyped`).

*The ledgers.* A property of a lineage is not inductive link by link, so the invariants speak
of neighbours only: `InOrder` says of each document how it relates to the one it was derived
from (`Narrower`), and for VDCs that it names the position where the parent's claims are first
found (`NamesClaims`), which further documents do not move. A ledger only grows, so `InOrder`
of the earlier documents is kept (`IssueInvariant`, `WriteInvariant`), and each constructor
establishes it for its own. From neighbours to a whole chain it is an induction along the
path, made as a smallest counterexample (`Downwards`, `Upwards`): scopes, actions and ends by
transitivity, limits because each child bears at least one less. For delegations one step
suffices (`LongerChainAppoints`), since the property assumes the chain above appoints; that a
budget covers one more link is where the induction is. The limits of VACs are kept apart from the
rest (`Limited`), since `with_max_attenuation` keeps everything but them; that they fall from link
to link is both what `LimitsFit` adds and what `Entitled` asks, which makes it an equivalence.

*The lifecycle.* `Citing` (both members are those of the document last cited) and `Stating`
(the subject names the document it was made over, in the role of its maker) are kept by every
call but `credential_mut`; the step that needs care is a delivery, where the subject is
written and found again by its type.

The other properties compare the checks of a credential with those of what it is written and
parsed as, and the checks of `new_vsc` with those of `validate`. The code makes them in
different orders and stops at the first that fails, so the `...Checks` are sequences put
together from parts; `PassesBoth` takes such a sequence apart and the `*Read` lemmas say what
each part amounts to, whereupon the order no longer matters. `ConformingArrives` is the centre: a
credential whose members have their types (`Formed`) and which conforms is parsed as one of the
same subtype, because its array names one subtype and its subject has the one shape that fits
it, and then serde's untagged match finds that shape again. Its window stays open or empty by
`CutTwice`: the wire's cut is the only one there is, as what a proof covers is cut already.
`Formed` holds of every credential, even after `credential_mut`, and so is inductive; it needs
that a status and a scope are values of their types and that the subject's members are those of
its shape. For signing, `Drafted` records what `new_vsc` has made sure of, and `Sound` that the
citation its profile asks for is there too: a setter can undo neither, and `SoundConforms` takes
`Sound` to `validate`, check by check.

*The walk.* `DecidesDepth` says nothing until the walk ends; `Covered` is what makes it
inductive: while walking, every value past the bound lies under some entry of the stack.
Popping an entry within the bound hands whatever was under it to one of its members
(`Through`); an empty stack leaves nothing uncovered. The roots start `Covered` because a
credential is closed elsewhere, and apart because the three kinds of open members are
(`RootsApart`). `VisitsOnce` follows from the two halves of a step: the rest of the stack is apart
from the value taken, and its members lie strictly below it (`TopIsBehind`).

Every invariant and action property of the passing runs is a theorem. Only model-checked is
liveness under fairness, which is out of the prover's reach: that the walk `Answers`, of which
`EachValueOnce` proves the measure that falls, and that a call of `verify_chain` returns, the
part of `ImplementsDecision` that `ImplementsDecisionSafely` leaves out. The five divergences
are counterexamples of TLC's and have no theorem.

## Not modelled

* Cryptography, JCS, SHA-256 and multibase, which other crates do; a proof is assumed to
  cover exactly the serialized members.
* Signing a credential that already bears a proof: what the second proof covers is up to the
  external signer. In `MembershipEdge` signing again replaces the proof.
* Texts of errors; where several checks fail, the first in the order of the code is kept
  for the verifiers, and only that one failed for the constructors.
* `issuerScope` in the chain and edge modules, beyond a grant's being `public`.
* Revocation: `credentialStatus` is opaque to the library, and here.
* The names and contents of members the library does not model (`extra`), but for their depth. A
  caller that inserts into `extra` the name of a member the library does model writes it twice
  (`serde(flatten)`); `SignedTravels` says nothing of such a credential.
* Constructing an acknowledgement over a grant that names the member by a located reference
  (`create.rs:312`) is modelled, and refused under any other reference; that the member has a
  way to answer all the same is a possibility, which no property of behaviours states.
* The deprecated `sha256:<hex>` digests. The `digest` spelling of an acknowledgement is one of
  the forms that are not this library's.
* The JSON form of a predicate registry (`from_registry_json` is serde and `from_registry`).
* Proofs on VDCs and VACs: signatures of the links of a chain are the caller's to check before
  `verify_chain`, and what a proof does for an edge is shown for memberships.
* The examples, which use the library and keep no state of its.

## Plan

Nothing that a run checks is left to prove but liveness. What could be added: chains of VACs over
parents that other implementations wrote, as `DelegationIssuance` has them for VDCs; and, as an
action property of `CredentialLifecycle`, what each setter does to a proof that is already there.
