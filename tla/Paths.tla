-------------------------------- MODULE Paths --------------------------------
(***************************************************************************)
(* The paths a function's values may be pending on, as the Rust side       *)
(* computes them to subscribe before the first byte arrives: from WIT      *)
(* types in crates/introspect/src/lib.rs, from component types in          *)
(* crates/wasmtime/src/paths.rs.  A pattern is a sequence of indices; AnyIndex  *)
(* stands for every index (an element of a list or stream).                *)
(***************************************************************************)
EXTENDS Values

AnyIndex == -1

(* Patterns below a position i, and i itself if the type there is asynchronous. *)
Below(i, r) ==
  {<<i>> \o q : q \in r.ps} \cup (IF r.fut THEN {<<i>>} ELSE {})

(* merge_wildcards: position k (from 0) of patterns that share what precedes it. *)
MergeAt(ps, k) ==
  LET wild == {SubSeq(q, 1, k) : q \in {q \in ps : Len(q) > k /\ q[k + 1] = AnyIndex}}
  IN  {IF Len(q) > k /\ SubSeq(q, 1, k) \in wild THEN [q EXCEPT ![k + 1] = AnyIndex] ELSE q : q \in ps}

(* Faulty variant: the patterns of the cases are only collected *)
MergeNothing(ps) == ps

MergeWildcards(ps) ==
  LET depth == Max({0} \cup {Len(q) : q \in ps})
  IN  FoldLeft(MergeAt, ps, [k \in 1..depth |-> k - 1])

RECURSIVE AsyncPaths(_)

(* The cases of a result or variant share their paths. *)
CasePaths(es) ==
  [ps |-> MergeWildcards(UNION {AsyncPaths(es[i]).ps : i \in 1..Len(es)}),
   fut |-> \E i \in 1..Len(es) : AsyncPaths(es[i]).fut]

(* async_paths_ty, async_paths_tyid: patterns below a value, and whether it is asynchronous. *)
AsyncPaths(t) ==
  CASE t.k \in {"list", "array"} -> [ps |-> Below(AnyIndex, AsyncPaths(t.e)), fut |-> FALSE]
    [] t.k = "option" -> AsyncPaths(t.e)
    [] t.k \in {"result", "variant"} -> CasePaths(t.es)
    [] t.k \in {"tuple", "record"} ->
         [ps |-> UNION {Below(i - 1, AsyncPaths(t.es[i])) : i \in 1..Len(t.es)}, fut |-> FALSE]
    [] t.k = "future" -> [ps |-> AsyncPaths(t.e).ps, fut |-> TRUE]
    [] t.k = "stream" -> [ps |-> Below(AnyIndex, AsyncPaths(t.e)), fut |-> TRUE]
    [] OTHER          -> [ps |-> {}, fut |-> FALSE]

(* params_async_paths and its counterparts in generated code: the types of a tuple. *)
ParamsAsyncPaths(ts) == AsyncPaths(TTup(ts)).ps

(* The depth of the declared paths, which limits the path of a frame. *)
PathsDepth(ps) == Max({0} \cup {Len(q) : q \in ps})

(* A pattern that matches the path q. *)
Declares(ps, q) ==
  \E d \in ps : Len(d) = Len(q) /\ \A k \in 1..Len(q) : d[k] \in {AnyIndex, q[k]}

(* The precondition of `Incoming::new`: no wildcard and index at the same position. *)
NotMixed(ps) ==
  \A d, e \in ps : \A k \in 1..Len(d) :
    k <= Len(e) /\ SubSeq(d, 1, k - 1) = SubSeq(e, 1, k - 1) => (d[k] = AnyIndex) = (e[k] = AnyIndex)
=============================================================================
