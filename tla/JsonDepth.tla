----------------------------- MODULE JsonDepth -----------------------------
(***************************************************************************)
(* exceeds_max_depth: the walk over an explicit stack by which the library *)
(* refuses JSON it must not recurse into, as check_json_depth calls it on  *)
(* a document and DTGCommon::check_depth on the open members of a          *)
(* credential.                                                             *)
(*                                                                         *)
(* A value is the path of keys that leads to it, a document the set of     *)
(* paths it holds; array elements and object members are alike.            *)
(***************************************************************************)
EXTENDS Integers, Sequences, FiniteSets

CONSTANTS
    Key,              \* member names and array positions
    MaxJsonDepth,     \* MAX_JSON_DEPTH
    ClosedDepth,      \* the deepest a member of a type of the library's reaches
    TopMembers,       \* the members DTGCommon has a field for, but the status
    StatementMembers, \* ... and CredentialSubjectStatement
    Documents         \* the documents walked

Path == Seq(Key)

(* Depth counts from the top, which is 1.                                   *)
Depth(value) == Len(value) + 1

IsUnder(value, root) ==
    /\ Len(root) <= Len(value)
    /\ \A i \in 1 .. Len(root) : value[i] = root[i]

ASSUME DepthsAssumption ==
    /\ MaxJsonDepth \in Nat /\ ClosedDepth \in Nat
    /\ MaxJsonDepth >= ClosedDepth
ASSUME MembersAssumption ==
    "credentialSubject" \in TopMembers /\ "object" \in StatementMembers
ASSUME DocumentsAssumption ==
    \A doc \in Documents :
        /\ IsFiniteSet(doc) /\ \A value \in doc : value \in Path
        /\ <<>> \in doc
        /\ \A value \in doc : \A n \in 0 .. Len(value) : SubSeq(value, 1, n) \in doc

VARIABLES
    doc,       \* the document, or the credential as it would be written
    call,      \* which of the two callers walks it
    pending,   \* the stack
    result

vars == <<doc, call, pending, result>>

Entry == [value : Path, depth : Nat]

-----------------------------------------------------------------------------
(* The roots of a walk.                                                     *)

DocumentRoots(d) == {[value |-> <<>>, depth |-> 1]}

\* The fields that hold any JSON, as the types declare them: credential_status
\* and extra of DTGCommon, and of a statement its object.value and its extra.
OpenMembers(d) ==
    {v \in d :
        \/ Len(v) = 1 /\ v[1] \notin TopMembers
        \/ v = <<"credentialSubject", "object", "value">>
        \/ /\ <<"credentialSubject", "object">> \in d
           /\ Len(v) = 2 /\ v[1] = "credentialSubject"
           /\ v[2] \notin StatementMembers}

\* A credential: what lies deeper than the library's own types go is open.
IsCredential(d) ==
    \A value \in d :
        Depth(value) > ClosedDepth => \E open \in OpenMembers(d) : IsUnder(value, open)

\* Not the code's: object.value counts as a member of the subject
\* (DecidesDepth).
ValueDepthMutant == 3

\* Where check_depth says that object.value sits.
ValueDepth == 4

\* Not the code's: a statement's extra members are not walked (DecidesDepth).
OpenRootsMutant(d) ==
    {[value |-> value, depth |-> 2] :
        value \in {v \in d : Len(v) = 1 /\ v[1] \notin TopMembers}}
    \cup {[value |-> value, depth |-> ValueDepth] :
        value \in d \cap {<<"credentialSubject", "object", "value">>}}

\* DTGCommon::extra and credential_status, then a statement's object.value
\* and its extra members, each at its own depth.
OpenRoots(d) ==
    {[value |-> value, depth |-> 2] :
        value \in {v \in d : Len(v) = 1 /\ v[1] \notin TopMembers}}
    \cup {[value |-> value, depth |-> ValueDepth] :
        value \in d \cap {<<"credentialSubject", "object", "value">>}}
    \cup {[value |-> value, depth |-> 3] :
        value \in {v \in d : /\ <<"credentialSubject", "object">> \in d
                             /\ Len(v) = 2 /\ v[1] = "credentialSubject"
                             /\ v[2] \notin StatementMembers}}

Roots(d, c) == IF c = "check_depth" THEN OpenRoots(d) ELSE DocumentRoots(d)

-----------------------------------------------------------------------------
(* The walk.                                                                *)

\* The members of a map, and so the roots, come in an order of the map's own.
Orders(entries) ==
    {order \in [1 .. Cardinality(entries) -> entries] :
        /\ \A i, j \in DOMAIN order : order[i] = order[j] => i = j
        /\ \A entry \in entries : \E i \in DOMAIN order : order[i] = entry}

Init ==
    /\ doc \in Documents
    /\ call \in {"check_json_depth"} \cup {c \in {"check_depth"} : IsCredential(doc)}
    /\ pending \in Orders(Roots(doc, call))
    /\ result = "walking"

Top(stack) == stack[Len(stack)]

\* Not the code's: a value without members stays on the stack (Answers).
RestMutant(stack) ==
    IF \E value \in doc : value # Top(stack).value /\ IsUnder(value, Top(stack).value)
    THEN SubSeq(stack, 1, Len(stack) - 1) ELSE stack

Rest(stack) == SubSeq(stack, 1, Len(stack) - 1)

Members(value) == {v \in doc : Len(v) = Len(value) + 1 /\ IsUnder(v, value)}

\* Not the code's: what is inside a value is pushed at the value's own depth
\* (TypeOK).
InsideMutant(entry) ==
    {[value |-> v, depth |-> entry.depth] : v \in Members(entry.value)}

\* Not the code's: everything below a value is pushed, not what is in it
\* (PendingApart).
InsideAllMutant(entry) ==
    {[value |-> v, depth |-> Depth(v)] :
        v \in {v \in doc : v # entry.value /\ IsUnder(v, entry.value)}}

\* Not the code's: a value is pushed back with what is in it (VisitsOnce).
InsideAgainMutant(entry) ==
    {[value |-> v, depth |-> Depth(v)] : v \in Members(entry.value) \cup {entry.value}}

Inside(entry) ==
    {[value |-> v, depth |-> entry.depth + 1] : v \in Members(entry.value)}

Refuse ==
    /\ result = "walking" /\ pending # <<>>
    /\ Top(pending).depth > MaxJsonDepth
    /\ result' = "refused"
    /\ pending' = Rest(pending)
    /\ UNCHANGED <<doc, call>>

Visit ==
    /\ result = "walking" /\ pending # <<>>
    /\ Top(pending).depth <= MaxJsonDepth
    /\ \E order \in Orders(Inside(Top(pending))) : pending' = Rest(pending) \o order
    /\ UNCHANGED <<doc, call, result>>

Pass ==
    /\ result = "walking" /\ pending = <<>>
    /\ result' = "within"
    /\ UNCHANGED <<doc, call, pending>>

Next == Refuse \/ Visit \/ Pass

\* The loop runs until it returns.
Spec == Init /\ [][Next]_vars /\ WF_vars(Next)

-----------------------------------------------------------------------------
(* Type invariant: the depth carried with a value is the depth it has in    *)
(* the document, whichever root the walk came from.                         *)
TypeOK ==
    /\ doc \in Documents
    /\ call \in {"check_json_depth", "check_depth"}
    /\ result \in {"walking", "refused", "within"}
    /\ pending \in Seq(Entry)
    /\ \A i \in DOMAIN pending :
          pending[i].value \in doc /\ pending[i].depth = Depth(pending[i].value)

(* The walk refuses exactly the documents with a value deeper than          *)
(* MAX_JSON_DEPTH; and walking only the open members, each from a depth     *)
(* written down in check_depth, decides the same of a credential as walking *)
(* the whole of it would.                                                   *)
DecidesDepth ==
    result # "walking" =>
        (result = "refused" <=> \E value \in doc : Depth(value) > MaxJsonDepth)

(* No value is on the stack twice, nor with one inside it: what is there    *)
(* lies in disjoint parts of the document, from several roots too.          *)
PendingApart ==
    \A i, j \in DOMAIN pending :
        i # j => ~ IsUnder(pending[i].value, pending[j].value)

\* The values the walk may still come to.
Ahead == {value \in doc : \E i \in DOMAIN pending : IsUnder(value, pending[i].value)}

(* A value once taken from the stack is never come to again, and nothing    *)
(* that was not ahead ever is: each step leaves strictly less ahead, so     *)
(* that the loop turns at most once for each value of the document.         *)
VisitsOnce ==
    [][pending # <<>> => Ahead' \subseteq Ahead \ {Top(pending).value}]_vars

(* The walk returns.                                                        *)
Answers == <>(result # "walking")
=============================================================================
