---------------------------- MODULE PatternFacts ----------------------------
(***************************************************************************)
(* Facts about paths, their prefixes and their elements, for every         *)
(* declaration: what the proofs about both receivers, the Rust and the Go  *)
(* one, know of a path.                                                    *)
(***************************************************************************)
EXTENDS Patterns, TLAPS, FiniteSetTheorems, SequenceTheorems, WellFoundedInduction

\* A non-empty set of naturals has a least member.
LEMMA NatMin ==
    ASSUME NEW T, T \subseteq Nat, T # {}
    PROVE  \E x \in T : \A y \in T : x <= y
<1>1. PICK x \in T : \A y \in T : ~(<<y, x>> \in OpToRel(<, Nat))
    BY NatLessThanWellFounded, WFMin
<1>2. \A y \in T : ~(y < x)
    BY <1>1 DEF OpToRel
<1> QED BY <1>2

\* Patterns are sequences of indices and wildcards, and a prefix of a pattern
\* is a pattern.
LEMMA PatternSeq ==
    ASSUME NEW p \in Patterns
    PROVE  p \in Seq(Index \cup {Wild}) /\ Len(p) \in Nat
<1>1. CASE p = <<>>
    BY <1>1
<1>2. CASE p # <<>>
    <2>1. PICK d \in Declared : p \in {SubSeq(d, 1, k) : k \in 1..Len(d)}
        BY <1>2 DEF Patterns
    <2>2. PICK k \in 1..Len(d) : p = SubSeq(d, 1, k)
        BY <2>1
    <2>3. d \in Seq(Index \cup {Wild})
        BY DeclaredAssumption
    <2> QED BY <2>2, <2>3, SubSeqProperties
<1> QED BY <1>1, <1>2

LEMMA PatternPrefix ==
    ASSUME NEW p \in Patterns, NEW k \in 0..Len(p)
    PROVE  SubSeq(p, 1, k) \in Patterns
<1>1. CASE k = 0
    BY <1>1, PatternSeq DEF Patterns
<1>2. CASE k > 0
    <2>1. PICK d \in Declared : \E j \in 1..Len(d) : p = SubSeq(d, 1, j)
        BY <1>2, PatternSeq DEF Patterns
    <2>0. PICK j \in 1..Len(d) : p = SubSeq(d, 1, j)
        BY <2>1
    <2>2. d \in Seq(Index \cup {Wild}) BY DeclaredAssumption
    <2>3. Len(p) = j /\ \A i \in 1..j : p[i] = d[i]
        BY <2>0, <2>2, SubSeqProperties
    <2>4. k \in 1..Len(d) BY <1>2, <2>2, <2>3
    <2>5. SubSeq(p, 1, k) = SubSeq(d, 1, k)
        BY <2>0, <2>2, <2>3, <2>4, <1>2
    <2> QED BY <2>4, <2>5 DEF Patterns
<1> QED BY <1>1, <1>2, PatternSeq

-----------------------------------------------------------------------------
\* Paths are sequences of indices.
LEMMA NodeSeq ==
    ASSUME NEW path \in Node
    PROVE  path \in Seq(Index) /\ Len(path) \in Nat /\ path \in Seq(Nat)
<1>1. PICK p \in Patterns : path \in [1..Len(p) -> Index]
    BY DEF Node
<1>2. Len(p) \in Nat
    BY PatternSeq
<1>3. path \in Seq(Index) /\ Len(path) = Len(p)
    BY <1>1, <1>2
<1>4. path \in Seq(Nat)
    BY <1>3, IndexAssumption, SeqMonotonic
<1> QED BY <1>2, <1>3, <1>4

LEMMA NodeRoot == <<>> \in Node /\ Elements[<<>>] = {}
<1>1. <<>> \in Patterns
    BY DEF Patterns
<1>2. Matches(<<>>, <<>>)
    BY DEF Matches
<1>3. <<>> \in [1..Len(<<>>) -> Index]
    OBVIOUS
<1>4. <<>> \in Node
    BY <1>1, <1>2, <1>3 DEF Node
<1> QED BY <1>4 DEF Elements

\* A prefix of a path is a path.
LEMMA NodePrefix ==
    ASSUME NEW path \in Node, NEW k \in 0..Len(path)
    PROVE  /\ SubSeq(path, 1, k) \in Node
           /\ Len(SubSeq(path, 1, k)) = k
           /\ \A i \in 1..k : SubSeq(path, 1, k)[i] = path[i]
<1> DEFINE e == SubSeq(path, 1, k)
<1>1. PICK p \in Patterns : Matches(p, path)
    BY DEF Node
<1>2. /\ path \in Seq(Index) /\ p \in Seq(Index \cup {Wild})
      /\ Len(p) = Len(path) /\ Len(p) \in Nat
    BY <1>1, NodeSeq, PatternSeq DEF Matches
<1> DEFINE q == SubSeq(p, 1, k)
<1>3. q \in Patterns
    BY <1>2, PatternPrefix
<1>4. /\ Len(e) = k /\ Len(q) = k /\ e \in [1..k -> Index]
      /\ \A i \in 1..k : e[i] = path[i] /\ q[i] = p[i]
    <2>1. e \in Seq(Index) /\ Len(e) = k /\ \A i \in 1..k : e[i] = path[i]
        BY <1>2
    <2>2. q \in Seq(Index \cup {Wild}) /\ Len(q) = k /\ \A i \in 1..k : q[i] = p[i]
        BY <1>2
    <2>3. e \in [1..k -> Index]
        BY <2>1, LenProperties
    <2> QED BY <2>1, <2>2, <2>3
<1>5. Matches(q, e)
    BY <1>1, <1>2, <1>4 DEF Matches
<1>6. e \in Node
    BY <1>3, <1>4, <1>5 DEF Node
<1> QED BY <1>4, <1>6

\* What an element of a path is.
LEMMA ElementFacts ==
    ASSUME NEW path \in Node, NEW e \in Elements[path]
    PROVE  /\ e \in Node /\ IsElement(e)
           /\ Len(e) \in 1..Len(path) /\ e = SubSeq(path, 1, Len(e))
           /\ Container(e) \in Node /\ Position(e) \in Nat
<1>1. PICK k \in 1..Len(path) : e = SubSeq(path, 1, k)
    BY DEF Elements
<1>2. e \in Node /\ Len(e) = k
    BY <1>1, NodeSeq, NodePrefix
<1>3. IsElement(e)
    BY DEF Elements
<1>4. Container(e) \in Node
    BY <1>2, NodeSeq, NodePrefix DEF Container
<1>5. Position(e) \in Nat
    BY <1>2, NodeSeq DEF Position
<1> QED BY <1>1, <1>2, <1>3, <1>4, <1>5

LEMMA ElementOfPath ==
    ASSUME NEW path \in Node, NEW e \in Node, IsElement(e), StartsWith(path, e)
    PROVE  e \in Elements[path] /\ Len(e) > 0
<1>1. Len(e) \in Nat /\ Len(e) > 0
    BY NodeSeq, PatternSeq DEF IsElement, Matches
<1>2. Len(e) \in 1..Len(path) /\ e = SubSeq(path, 1, Len(e))
    BY <1>1, NodeSeq DEF StartsWith
<1> QED BY <1>1, <1>2 DEF Elements

LEMMA ElementSelf ==
    ASSUME NEW e \in Node, IsElement(e)
    PROVE  e \in Elements[e] /\ Len(e) > 0
<1>1. StartsWith(e, e)
    BY NodeSeq DEF StartsWith
<1> QED BY <1>1, ElementOfPath

\* An element around an element of a path is an element of that path.
LEMMA ElementTrans ==
    ASSUME NEW path \in Node, NEW e \in Elements[path],
           NEW f \in Node, IsElement(f), StartsWith(e, f)
    PROVE  f \in Elements[path]
<1>1. /\ path \in Seq(Index) /\ e \in Seq(Index) /\ f \in Seq(Index)
      /\ Len(e) <= Len(path) /\ e = SubSeq(path, 1, Len(e))
    BY ElementFacts, NodeSeq
<1>2. Len(f) <= Len(e) /\ f = SubSeq(e, 1, Len(f))
    BY DEF StartsWith
<1>3. f = SubSeq(path, 1, Len(f))
    BY <1>1, <1>2
<1>4. StartsWith(path, f)
    BY <1>1, <1>2, <1>3 DEF StartsWith
<1> QED BY <1>4, ElementOfPath

\* The elements of a path are prefixes of one another.
LEMMA ElementChain ==
    ASSUME NEW path \in Node, NEW e \in Elements[path], NEW f \in Elements[path],
           Len(f) <= Len(e)
    PROVE  StartsWith(e, f)
<1>1. /\ path \in Seq(Index) /\ e \in Seq(Index) /\ f \in Seq(Index)
      /\ Len(e) <= Len(path) /\ e = SubSeq(path, 1, Len(e))
      /\ f = SubSeq(path, 1, Len(f))
    BY ElementFacts, NodeSeq
<1>2. f = SubSeq(e, 1, Len(f))
    BY <1>1
<1> QED BY <1>2 DEF StartsWith

\* What lies next to an element is an element.
LEMMA ElementSibling ==
    ASSUME NEW e \in Node, IsElement(e), NEW f \in Node,
           Len(f) = Len(e), Container(f) = Container(e)
    PROVE  IsElement(f)
<1>1. PICK p \in Patterns : Matches(p, e) /\ Len(p) > 0 /\ p[Len(p)] = Wild
    BY DEF IsElement
<1>2. /\ e \in Seq(Index) /\ f \in Seq(Index) /\ Len(e) \in Nat
      /\ Len(p) = Len(e) /\ Len(p) = Len(f)
    BY <1>1, NodeSeq DEF Matches
<1>3. \A k \in 1..(Len(e) - 1) : e[k] = f[k]
    <2> TAKE k \in 1..(Len(e) - 1)
    <2>1. Container(e)[k] = e[k] /\ Container(f)[k] = f[k]
        BY <1>2 DEF Container
    <2> QED BY <2>1
<1>4. Matches(p, f)
    BY <1>1, <1>2, <1>3 DEF Matches
<1> QED BY <1>1, <1>4 DEF IsElement

\* The outermost of some elements of a path contains the others.
LEMMA OutermostElement ==
    ASSUME NEW path \in Node, NEW es, es \subseteq Elements[path], es # {}
    PROVE  /\ Outermost(es) \in es
           /\ \A f \in es : Len(Outermost(es)) <= Len(f) /\ StartsWith(f, Outermost(es))
<1> DEFINE lens == {Len(e) : e \in es}
<1>1. lens \subseteq Nat /\ lens # {}
    BY ElementFacts, NodeSeq
<1>2. PICK n \in lens : \A m \in lens : n <= m
    BY <1>1, NatMin
<1>3. PICK e \in es : \A f \in es : Len(e) <= Len(f)
    BY <1>2
<1>4. Outermost(es) \in es /\ \A f \in es : Len(Outermost(es)) <= Len(f)
    BY <1>3 DEF Outermost
<1> QED BY <1>4, ElementChain

\* A pattern without wildcards is not an element: where another pattern first
\* differs from it both have an index.
LEMMA ConcreteNotElement ==
    ASSUME NEW d \in Patterns, d \in Node
    PROVE  ~IsElement(d)
<1> SUFFICES ASSUME IsElement(d) PROVE FALSE
    OBVIOUS
<1>1. PICK p \in Patterns : Matches(p, d) /\ Len(p) > 0 /\ p[Len(p)] = Wild
    BY DEF IsElement
<1>2. /\ d \in Seq(Nat) /\ Len(d) \in Nat /\ p \in Seq(Index \cup {Wild})
      /\ Len(p) = Len(d) /\ \A k \in 1..Len(d) : d[k] \in Nat /\ d[k] # Wild
    <2>1. d \in Seq(Nat) /\ Len(d) \in Nat /\ p \in Seq(Index \cup {Wild}) /\ Len(p) = Len(d)
        BY <1>1, NodeSeq, PatternSeq DEF Matches
    <2>2. \A k \in 1..Len(d) : d[k] \in Nat
        BY <2>1
    <2> QED BY <2>1, <2>2, IndexAssumption
<1> DEFINE wild == {k \in 1..Len(d) : p[k] = Wild}
<1>3. PICK k \in wild : \A j \in wild : k <= j
    <2>1. wild \subseteq Nat /\ Len(d) \in wild
        BY <1>1, <1>2
    <2> QED BY <2>1, NatMin
<1>4. k \in 1..Len(d) /\ p[k] = Wild /\ \A j \in 1..k : j < k => p[j] = d[j]
    BY <1>1, <1>2, <1>3 DEF Matches
<1> DEFINE dk == SubSeq(d, 1, k)
           pk == SubSeq(p, 1, k)
<1>5. dk \in Patterns /\ pk \in Patterns
    BY <1>2, <1>4, PatternPrefix
<1>6. /\ Len(dk) = k /\ Len(pk) = k
      /\ \A j \in 1..k : dk[j] = d[j] /\ pk[j] = p[j]
    BY <1>2, <1>4
<1>7. pk # dk /\ pk[Len(pk)] = Wild
    BY <1>2, <1>4, <1>6
<1>8. \A j \in 1..Len(pk) : j < Len(pk) => pk[j] = dk[j]
    BY <1>4, <1>6
<1> HIDE DEF pk, dk
<1> QED BY <1>5, <1>6, <1>7, <1>8, NoMixedPosition

\* A path that is declared as it stands is not within an element.
LEMMA ConcreteOutside ==
    ASSUME NEW d \in Declared, d \in Node
    PROVE  Elements[d] = {}
<1> SUFFICES ASSUME NEW e \in Elements[d] PROVE FALSE
    OBVIOUS
<1>1. e \in Node /\ IsElement(e) /\ Len(e) \in 1..Len(d) /\ e = SubSeq(d, 1, Len(e))
    BY ElementFacts
<1>2. e \in {SubSeq(d, 1, k) : k \in 1..Len(d)}
    BY <1>1
<1>3. e \in Patterns
    BY <1>2 DEF Patterns
<1> QED BY <1>1, <1>3, ConcreteNotElement

=============================================================================
