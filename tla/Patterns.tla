------------------------------ MODULE Patterns ------------------------------
(***************************************************************************)
(* The async paths of a function's parameters or results and what they say *)
(* about a concrete path (`Subscriptions::new`, `Subscriptions::resolve`,  *)
(* crates/transport/src/frame/conn/mod.rs).                                *)
(*                                                                         *)
(* A declared path is a sequence of indices and wildcards.  A concrete     *)
(* path, the one a frame or a handle carries, is a sequence of indices.    *)
(* An "element" is a prefix of a concrete path that ends at a position     *)
(* matched by a wildcard: an item of a list or of a stream.                *)
(***************************************************************************)
EXTENDS Naturals, Sequences

CONSTANTS
    Index,      \* the indices in use; finite, a u32 on the wire
    Wild,       \* the wildcard (`None` in `Option<usize>`)
    Declared    \* the async paths given to `Incoming::new`

ASSUME IndexAssumption == Index \subseteq Nat /\ Wild \notin Nat

ASSUME DeclaredAssumption ==
    \A d \in Declared : d \in Seq(Index \cup {Wild}) /\ d # <<>>

\* Declared paths and their prefixes, the keys of `Subscriptions::patterns`.
Patterns ==
    {<<>>} \cup UNION {{SubSeq(d, 1, k) : k \in 1..Len(d)} : d \in Declared}

\* "paths must not contain both a wildcard and an index at the same position"
\* (the documented precondition of `Incoming::new`).
ASSUME NoMixedPosition ==
    \A p, q \in Patterns :
        (/\ Len(p) = Len(q)
         /\ \A k \in 1..Len(p) : k < Len(p) => p[k] = q[k]
         /\ p # q)
        => p[Len(p)] # Wild /\ q[Len(q)] # Wild

\* `path.starts_with(prefix)`
StartsWith(path, prefix) ==
    Len(prefix) <= Len(path) /\ SubSeq(path, 1, Len(prefix)) = prefix

Matches(pattern, path) ==
    /\ Len(pattern) = Len(path)
    /\ \A k \in 1..Len(path) : pattern[k] \in {Wild, path[k]}

\* The concrete paths that `resolve` maps to a declared path or to a prefix of one.
Node ==
    {path \in UNION {[1..Len(p) -> Index] : p \in Patterns} :
        \E p \in Patterns : Matches(p, path)}

\* `Pattern::declared` of the pattern `path` resolves to.
IsDeclared == [path \in Node |-> \E p \in Declared \cup {<<>>} : Matches(p, path)]

\* `Pattern::wildcard` is `None`: nothing is nested in the pattern of `path`.
IsLeaf ==
    [path \in Node |->
        \A p \in Patterns :
            Len(p) = Len(path) + 1 => ~Matches(SubSeq(p, 1, Len(path)), path)]

\* The last position of `path` is matched by a wildcard.
IsElement(path) == \E p \in Patterns : Matches(p, path) /\ Len(p) > 0 /\ p[Len(p)] = Wild

\* The prefixes `&path[..=k]` for the positions k matched by a wildcard.
Elements ==
    [path \in Node |-> {e \in {SubSeq(path, 1, k) : k \in 1..Len(path)} : IsElement(e)}]

\* The path that contains the element `e`, and its index there.
Container(e) == SubSeq(e, 1, Len(e) - 1)
Position(e) == e[Len(e)]

\* The outermost of a non-empty set of elements of one path.
Outermost(es) == CHOOSE e \in es : \A f \in es : Len(e) <= Len(f)
=============================================================================
