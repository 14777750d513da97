---------------------------- MODULE JsMuxProofs -----------------------------
(***************************************************************************)
(* Proofs about the JavaScript multiplexer, for any types, peer,           *)
(* application and limits: `finished` resolves only once all that was sent *)
(* was decoded, and an invocation fails only if someone did what makes it  *)
(* fail.                                                                   *)
(*                                                                         *)
(* The invariant accounts for every chunk of every sub-stream (Streams),   *)
(* ties the nodes of the trie to the tasks that read (TrieInv), has what   *)
(* is buffered wait below a node that may yet declare it (PendInv), and    *)
(* what was forgotten barred for good (PassedInv).  CalmInv holds as long  *)
(* as nobody is to blame: then all that arrives was declared before, and   *)
(* what is forgotten was ended by the peer.                                *)
(***************************************************************************)
EXTENDS JsMux, SequenceTheorems, WellFoundedInduction, TLAPS

-----------------------------------------------------------------------------
(* The invariant                                                           *)

Value == {"some", "end"}
ChanType == [q : Seq(Value), end : {"open", "eof", "discarded"}, cancelled : BOOLEAN,
             waiting : BOOLEAN, got : Value \cup {"none", "eof", "discarded"}]
NodeType == [chan : {TRUE}, sealed : BOOLEAN, decided : Nat, done : BOOLEAN, closed : BOOLEAN]
PendType == [in : BOOLEAN, at : Path, closed : BOOLEAN, counted : BOOLEAN]
ReaderType == [pc : {"off", "next", "decode", "send", "done"}, base : Nat]
SentType == [n : Nat, elems : Nat, over : BOOLEAN]

\* The reader of the channel c has a chunk it did not count yet.
Holding(c, r) == r.pc = "decode" \/ (r.pc = "next" /\ c.got \in Value)
HoldingSome(c, r) == r.pc = "decode" \/ (r.pc = "next" /\ c.got = "some")
HoldingEnd(c, r) == r.pc = "next" /\ c.got = "end"
OneIf(b) == IF b THEN 1 ELSE 0
HasEnd(q) == \E k \in 1..Len(q) : q[k] = "end"

\* Nothing follows the chunk that ends a stream.
Tidy(c, r) ==
    /\ \A k \in 1..Len(c.q) : k < Len(c.q) => c.q[k] = "some"
    /\ c.q # <<>> => ~HoldingEnd(c, r)

\* A channel and its reader agree.
ChanInv(c, r, app) ==
    /\ c.waiting => r.pc = "next" /\ c.q = <<>> /\ c.end = "open" /\ c.got = "none"
    /\ r.pc = "next" /\ ~c.waiting => c.got # "none"
    /\ r.pc = "next" /\ c.got \in {"eof", "discarded"} => c.q = <<>> /\ c.end # "open"
    /\ c.got = "discarded" \/ c.end = "discarded" => c.cancelled
    /\ c.cancelled => c.end # "open" /\ c.q = <<>> /\ app
    /\ r.pc = "done" => c.end # "open" /\ c.q = <<>>
    /\ r.pc \in {"decode", "send"} => c.got = "some"

\* Every chunk sent is decoded, being decoded, or in the channel.
FlowInv(p, c, r, d, s, app) ==
    /\ s.n = d + Len(c.q) + OneIf(Holding(c, r))
    /\ s.elems <= s.n
    /\ r.pc = "off" => d = 0 /\ r.base = 0
    /\ p # <<>> /\ Nested(p) =>
        (r.pc # "done" => r.base = d) /\ (r.pc = "done" /\ ~app => d = r.base + 1)
    /\ p = <<>> => r.pc \in {"next", "done"} /\ d = OneIf(r.pc = "done")
    /\ p = <<>> \/ ~Nested(p) => r.base = 0

\* What is known of the chunk that ends a stream, once it is sent.
EndInv(p, c, r, s, app) ==
    /\ s.over <=> (r.pc = "done" /\ s.over) \/ HoldingEnd(c, r) \/ HasEnd(c.q)
    /\ r.pc = "done" => p = <<>> \/ s.over \/ app
    /\ ~s.over => s.elems = s.n
    /\ s.over /\ Tidy(c, r) => s.n = s.elems + 1
    /\ r.pc # "done" /\ ~HoldingEnd(c, r) =>
        \A k \in 0..Len(c.q) : (\A j \in 1..k : c.q[j] = "some") =>
            r.base + OneIf(HoldingSome(c, r)) + k <= s.elems

StreamInv(p, c, r, d, s, app) ==
    /\ c \in ChanType /\ r \in ReaderType /\ d \in Nat /\ s \in SentType
    /\ ChanInv(c, r, app)
    /\ FlowInv(p, c, r, d, s, app)
    /\ EndInv(p, c, r, s, app)

App == "app" \in blame
Streams == \A p \in Path : StreamInv(p, mux.chan[p], reader[p], decoded[p], sent[p], App)

Trie == DOMAIN mux.trie
Node(p) == mux.trie[p]
On(p) == reader[p].pc # "off"

\* The child c of a node was declared, or never will be.
Barred(c) == Node(Front(c)).sealed \/ Last(c) < Node(Front(c)).decided

\* The lookup of p stops at n.
StopsAt(p, n) == n \in Trie /\ n \in Prefixes(p) /\ n # p /\ ChildAt(p, n) \notin Trie

TypeInv ==
    /\ mux = [trie |-> mux.trie, chan |-> mux.chan, pend |-> mux.pend, inbound |-> mux.inbound,
              aborted |-> mux.aborted, asleep |-> mux.asleep]
    /\ mux.trie = [p \in Trie |-> mux.trie[p]] /\ \A p \in Trie : mux.trie[p] \in NodeType
    /\ mux.chan \in [Path -> ChanType]
    /\ mux.pend \in [Path -> PendType]
    /\ mux.inbound \in {"open", "eof"} /\ mux.aborted = FALSE
    /\ reader \in [Path -> ReaderType] /\ decoded \in [Path -> Nat] /\ sent \in [Path -> SentType]
    /\ queue \in [Path -> [n : Nat, taken : Nat, closed : BOOLEAN, cancelled : BOOLEAN]]
    /\ ingress = [pc |-> ingress.pc, path |-> ingress.path, n |-> ingress.n]
    /\ ingress.path \in Path /\ ingress.n \in Nat

\* The trie: the nodes are those of streams that are being read, or that
\* ended and hold some that are.
TrieInv ==
    /\ <<>> \in Trie /\ Trie \subseteq Path
    /\ \A p \in Trie : Prefixes(p) \subseteq Trie
    /\ \A p \in Trie \ {<<>>} : Barred(p)
    /\ \A p \in Trie :
        /\ On(p) /\ (Node(p).done <=> reader[p].pc = "done")
        /\ Node(p).sealed <=> Node(p).done \/ (p # <<>> /\ ~Nested(p))
        /\ Node(p).decided = reader[p].base
        /\ ~mux.chan[p].cancelled

\* What is buffered is buffered where its lookup stops, and may be declared.
PendInv ==
    /\ \A p \in Path : mux.pend[p].in =>
        /\ StopsAt(p, mux.pend[p].at) /\ ~Barred(ChildAt(p, mux.pend[p].at))
        /\ mux.pend[p].at = <<>> => p[1] \in Params
        /\ ~mux.chan[p].cancelled
    /\ \A p \in Path : p \notin Trie /\ ~mux.pend[p].in => mux.chan[p].q = <<>>

\* A stream that was forgotten stays so.
PassedInv ==
    \A p \in Path : On(p) /\ p \notin Trie =>
        /\ \E n \in Path : StopsAt(p, n) /\ Barred(ChildAt(p, n))
        /\ mux.chan[p].end # "open" /\ mux.chan[p].q = <<>>
        /\ reader[p].pc # "done" => App

IngressInv ==
    /\ mux.inbound = "open" <=> ingress.pc # "end"
    /\ ingress.pc \in {"loop", "room", "route", "send", "end"}
    /\ ingress.pc = "send" =>
        /\ ingress.path \in Trie \/ mux.pend[ingress.path].in \/ mux.chan[ingress.path].end # "open"
        /\ ingress.n > 0

\* Every stream that was declared to the application is read.
StartedInv ==
    /\ reader[<<>>].pc = "done" => \A i \in Params : On(<<i>>)
    /\ \A p \in Path : Len(p) > 1 /\ Last(p) < reader[Front(p)].base => On(p) \/ App
    /\ \A p \in Path \ {<<>>} : \A i \in 0..sent[p].elems : i < sent[p].elems => i \in Index

-----------------------------------------------------------------------------
\* The peer declared the sub-stream p, by the value that holds it.
Declared(p) ==
    /\ Len(p) = 1 => sent[<<>>].n > 0 /\ Last(p) \in Params
    /\ Len(p) > 1 => Last(p) < sent[Front(p)].elems
AllDeclared(p) == \A x \in Prefixes(p) : Declared(x)

CalmIngress ==
    /\ ingress.pc \in {"room", "route", "send"} => AllDeclared(ingress.path) /\ ingress.n > 0
    /\ ingress.pc \in {"room", "route"} => Open(ingress.path)
    /\ ingress.pc = "send" /\ Open(ingress.path) =>
        ingress.path \in Trie \/ mux.pend[ingress.path].in

\* As long as nobody did anything that makes an invocation fail.
CalmInv ==
    /\ \A p \in Path : ~queue[p].cancelled /\ ~mux.pend[p].closed /\ Tidy(mux.chan[p], reader[p])
    /\ \A p \in Trie : ~Node(p).closed
    /\ sent[<<>>].n <= 1
    /\ \A p \in Path : sent[p].n > 0 \/ mux.pend[p].in \/ On(p) => AllDeclared(p)
    /\ CalmIngress
    /\ \A p \in Path : mux.inbound = "open" /\ ((p \in Trie /\ ~Node(p).done) \/ mux.pend[p].in) =>
        mux.chan[p].end = "open"
    /\ \A x \in Path : On(x) /\ x \notin Trie =>
        \A p \in Path : x \in Prefixes(p) /\ Declared(p) => sent[p].over
    /\ mux.inbound # "open" => Complete

AliveInv ==
    /\ TypeInv /\ Streams /\ TrieInv /\ PendInv /\ PassedInv /\ IngressInv /\ StartedInv
    /\ blame = {} => CalmInv

DoneInv ==
    finished => ingress.pc = "end" /\ tx = "closed" /\ \A p \in Path : reader[p].pc \in {"off", "done"}

JsMuxInv ==
    /\ OkMeansDecoded /\ NoBlame /\ DoneInv
    /\ mux.aborted \in BOOLEAN /\ (mux.aborted \/ AliveInv)

-----------------------------------------------------------------------------
(* Paths                                                                   *)

\* A path is a sequence of indices of bounded length, ...
LEMMA PathSeq ==
    ASSUME NEW p \in Path
    PROVE  /\ p \in Seq(Index) /\ p \in Seq(Nat) /\ Len(p) \in 0..Depth /\ Depth \in Nat
           /\ \A k \in 1..Len(p) : p[k] \in Index /\ p[k] \in Nat
<1>1. PICK n \in 0..Depth : p \in [1..n -> Index]
    BY DEF Path
<1>2. Depth \in Nat /\ Index \subseteq Nat
    BY JsMuxAssumption
<1>3. p \in Seq(Index) /\ Len(p) = n
    BY <1>1, <1>2
<1>4. p \in Seq(Nat)
    BY <1>2, <1>3, SeqMonotonic
<1> QED BY <1>1, <1>2, <1>3, <1>4

\* ... and every such sequence is one.
LEMMA SeqPath ==
    ASSUME NEW p \in Seq(Index), Len(p) <= Depth
    PROVE  p \in Path
<1>1. Depth \in Nat
    BY JsMuxAssumption
<1>2. Len(p) \in 0..Depth /\ p \in [1..Len(p) -> Index]
    BY <1>1, LenProperties
<1> QED BY <1>2 DEF Path

\* The path of the tuple.
LEMMA RootPath == <<>> \in Path /\ Len(<<>>) = 0
<1>1. Len(<<>>) = 0 /\ Depth \in Nat /\ 0 \in 0..Depth
    BY JsMuxAssumption
<1>2. <<>> \in [1..0 -> Index]
    OBVIOUS
<1> QED BY <1>1, <1>2 DEF Path

\* The beginning of a path is a path.
LEMMA SubPath ==
    ASSUME NEW p \in Path, NEW n \in 0..Len(p)
    PROVE  /\ SubSeq(p, 1, n) \in Path /\ Len(SubSeq(p, 1, n)) = n
           /\ \A k \in 1..n : SubSeq(p, 1, n)[k] = p[k]
<1>1. p \in Seq(Index) /\ Len(p) \in 0..Depth /\ Depth \in Nat
    BY PathSeq
<1>2. \A i \in 1..n : p[i] \in Index
    BY <1>1
<1>3. SubSeq(p, 1, n) \in Seq(Index) /\ Len(SubSeq(p, 1, n)) = n
    BY <1>1, <1>2, SubSeqProperties
<1>4. \A k \in 1..n : SubSeq(p, 1, n)[k] = p[k]
    BY <1>1, <1>2, SubSeqProperties
<1>5. n <= Depth
    BY <1>1
<1>6. SubSeq(p, 1, n) \in Path
    BY <1>3, <1>5, SeqPath
<1> QED BY <1>3, <1>4, <1>6

\* What a prefix of a path is.
LEMMA PrefixIs ==
    ASSUME NEW p \in Path, NEW x
    PROVE  x \in Prefixes(p) <=>
               /\ x \in Path /\ Len(x) <= Len(p) /\ \A k \in 1..Len(x) : x[k] = p[k]
<1>1. p \in Seq(Index) /\ Len(p) \in 0..Depth /\ Depth \in Nat
    BY PathSeq
<1>2. ASSUME x \in Path, Len(x) <= Len(p), \A k \in 1..Len(x) : x[k] = p[k]
      PROVE  x \in Prefixes(p)
    <2>1. x \in Seq(Index) /\ Len(x) \in 0..Len(p)
        BY <1>1, <1>2, PathSeq
    <2>2. SubSeq(p, 1, Len(x)) \in Seq(Index)
        BY <2>1, SubPath, PathSeq
    <2>3. x = SubSeq(p, 1, Len(x))
        BY SubPath, <1>2, <2>1, <2>2, SeqEqual
    <2> QED BY <2>1, <2>3 DEF Prefixes
<1>3. ASSUME x \in Prefixes(p)
      PROVE  x \in Path /\ Len(x) <= Len(p) /\ \A k \in 1..Len(x) : x[k] = p[k]
    <2>1. PICK n \in 0..Len(p) : x = SubSeq(p, 1, n)
        BY <1>3 DEF Prefixes
    <2>2. x \in Path /\ Len(x) = n /\ \A k \in 1..n : x[k] = p[k]
        BY SubPath, <2>1
    <2> QED BY <1>1, <2>2
<1> QED BY <1>2, <1>3

\* Paths are equal if their indices are.
LEMMA PathEqual ==
    ASSUME NEW p \in Path, NEW x \in Path, Len(x) = Len(p), \A k \in 1..Len(x) : x[k] = p[k]
    PROVE  x = p
BY PathSeq, SeqEqual

\* A path and the root are prefixes of it.
LEMMA PrefixSelf ==
    ASSUME NEW p \in Path
    PROVE  p \in Prefixes(p) /\ <<>> \in Prefixes(p)
<1>1. Len(p) \in Nat
    BY PathSeq
<1>2. p \in Prefixes(p)
    BY <1>1, PrefixIs
<1>3. <<>> \in Prefixes(p)
    <2>1. <<>> \in Path /\ Len(<<>>) = 0
        BY RootPath
    <2> QED BY <1>1, <2>1, PrefixIs
<1> QED BY <1>2, <1>3

\* A prefix of a path is a path, and shorter unless it is the whole.
LEMMA PrefixFacts ==
    ASSUME NEW p \in Path, NEW x \in Prefixes(p)
    PROVE  /\ x \in Path /\ Len(x) \in Nat /\ Len(p) \in Nat /\ Len(x) <= Len(p)
           /\ Len(x) = Len(p) => x = p
           /\ x # p => Len(x) < Len(p)
<1>1. x \in Path /\ Len(x) <= Len(p) /\ \A k \in 1..Len(x) : x[k] = p[k]
    BY PrefixIs
<1>2. Len(x) \in Nat /\ Len(p) \in Nat
    BY <1>1, PathSeq
<1>3. Len(x) = Len(p) => x = p
    BY <1>1, PathEqual
<1> QED BY <1>1, <1>2, <1>3

\* Prefixes are transitive, ...
LEMMA PrefixTrans ==
    ASSUME NEW p \in Path, NEW x \in Prefixes(p), NEW y \in Prefixes(x)
    PROVE  y \in Prefixes(p)
<1>1. x \in Path /\ Len(x) <= Len(p) /\ \A k \in 1..Len(x) : x[k] = p[k]
    BY PrefixIs
<1>2. y \in Path /\ Len(y) <= Len(x) /\ \A k \in 1..Len(y) : y[k] = x[k]
    BY <1>1, PrefixIs
<1>3. Len(x) \in Nat /\ Len(p) \in Nat /\ Len(y) \in Nat
    BY <1>1, <1>2, PathSeq
<1>4. Len(y) <= Len(p) /\ \A k \in 1..Len(y) : y[k] = p[k]
    BY <1>1, <1>2, <1>3
<1> QED BY <1>2, <1>4, PrefixIs

\* ... and two prefixes of a path are prefixes of one another.
LEMMA PrefixChain ==
    ASSUME NEW p \in Path, NEW x \in Prefixes(p), NEW y \in Prefixes(p), Len(x) <= Len(y)
    PROVE  x \in Prefixes(y)
<1>1. x \in Path /\ Len(x) <= Len(p) /\ \A k \in 1..Len(x) : x[k] = p[k]
    BY PrefixIs
<1>2. y \in Path /\ Len(y) <= Len(p) /\ \A k \in 1..Len(y) : y[k] = p[k]
    BY PrefixIs
<1>3. Len(x) \in Nat /\ Len(p) \in Nat /\ Len(y) \in Nat
    BY <1>1, <1>2, PathSeq
<1>4. \A k \in 1..Len(x) : x[k] = y[k]
    BY <1>1, <1>2, <1>3
<1> QED BY <1>1, <1>2, <1>4, PrefixIs

\* The path of a stream within another.
LEMMA FrontFacts ==
    ASSUME NEW p \in Path, p # <<>>
    PROVE  /\ Front(p) \in Path /\ Front(p) \in Prefixes(p) /\ Len(p) \in Nat \ {0}
           /\ Len(Front(p)) = Len(p) - 1 /\ Last(p) \in Index /\ Last(p) \in Nat
           /\ Nested(Front(p)) /\ p # Front(p)
           /\ \A x \in Prefixes(p) : x # p => x \in Prefixes(Front(p))
<1>1. p \in Seq(Index) /\ Len(p) \in 0..Depth /\ Depth \in Nat /\ Len(p) # 0
    BY PathSeq
<1>2. Len(p) - 1 \in 0..Len(p)
    BY <1>1
<1>3. Front(p) \in Path /\ Len(Front(p)) = Len(p) - 1
    BY <1>2, SubPath DEF Front
<1>4. Front(p) \in Prefixes(p)
    BY <1>2 DEF Front, Prefixes
<1>5. Last(p) \in Index /\ Last(p) \in Nat
    BY <1>1, PathSeq DEF Last
<1>6. Nested(Front(p)) /\ p # Front(p)
    BY <1>1, <1>3 DEF Nested
<1>7. ASSUME NEW x \in Prefixes(p), x # p
       PROVE  x \in Prefixes(Front(p))
    <2>1. Len(x) < Len(p) /\ Len(x) \in Nat
        BY <1>7, PrefixFacts
    <2> QED BY <1>1, <1>3, <1>4, <2>1, PrefixChain
<1> QED BY <1>1, <1>3, <1>4, <1>5, <1>6, <1>7

\* The next path towards p.
LEMMA ChildFacts ==
    ASSUME NEW p \in Path, NEW n \in Prefixes(p), n # p
    PROVE  /\ ChildAt(p, n) \in Path /\ ChildAt(p, n) \in Prefixes(p) /\ ChildAt(p, n) # <<>>
           /\ Len(ChildAt(p, n)) = Len(n) + 1 /\ Front(ChildAt(p, n)) = n
           /\ n \in Prefixes(ChildAt(p, n)) /\ n # ChildAt(p, n)
           /\ Last(ChildAt(p, n)) = p[Len(n) + 1]
<1>1. /\ p \in Seq(Index) /\ Len(p) \in 0..Depth /\ Depth \in Nat
      /\ n \in Path /\ Len(n) \in Nat /\ Len(n) < Len(p)
    BY PathSeq, PrefixFacts
<1> DEFINE c == ChildAt(p, n)
<1>2. c \in Prefixes(p)
    <2>1. Len(n) + 1 \in 0..Len(p)
        BY <1>1
    <2> QED BY <2>1 DEF ChildAt, Prefixes
<1>3. c \in Path
    BY <1>2, PrefixFacts
<1>4. Len(c) = Len(n) + 1 /\ \A k \in 1..(Len(n) + 1) : c[k] = p[k]
    <2>1. Len(n) + 1 \in 0..Len(p)
        BY <1>1
    <2> QED BY <2>1, SubPath DEF ChildAt
<1>5. n \in Prefixes(c)
    BY <1>1, <1>2, <1>4, PrefixChain
<1>6. c # <<>>
    BY <1>1, <1>4, RootPath
<1>7. Front(c) = n
    <2>1. Front(c) \in Prefixes(c) /\ Len(Front(c)) = Len(c) - 1 /\ n # c
        BY <1>3, <1>6, <1>4, <1>1, FrontFacts
    <2>2. n \in Prefixes(Front(c)) /\ Front(c) \in Path
        BY <1>3, <1>5, <1>6, <2>1, FrontFacts
    <2>3. Len(n) = Len(Front(c))
        BY <1>1, <1>4, <2>1
    <2> QED BY <2>2, <2>3, PrefixFacts
<1>8. Last(c) = p[Len(n) + 1]
    BY <1>1, <1>4 DEF Last
<1> HIDE DEF c
<1>9. n # c
    BY <1>1, <1>4
<1> QED BY <1>2, <1>3, <1>4, <1>5, <1>6, <1>7, <1>8, <1>9 DEF c

\* It is the same for all paths that go through it.
LEMMA ChildSame ==
    ASSUME NEW p \in Path, NEW x \in Prefixes(p), NEW n \in Prefixes(x), n # x
    PROVE  n \in Prefixes(p) /\ n # p /\ ChildAt(p, n) = ChildAt(x, n)
<1>1. n \in Prefixes(p) /\ x \in Path
    BY PrefixTrans, PrefixFacts
<1>2. n # p
    BY <1>1, PrefixFacts
<1>3. ChildAt(x, n) \in Prefixes(p) /\ ChildAt(p, n) \in Prefixes(p)
    BY <1>1, <1>2, ChildFacts, PrefixTrans
<1>4. Len(ChildAt(x, n)) = Len(ChildAt(p, n))
    BY <1>1, <1>2, ChildFacts
<1>5. ChildAt(x, n) \in Prefixes(ChildAt(p, n)) /\ ChildAt(p, n) \in Path
    <2>1. Len(ChildAt(x, n)) <= Len(ChildAt(p, n))
        BY <1>3, <1>4, PrefixFacts
    <2> QED BY <1>3, <2>1, PrefixChain, PrefixFacts
<1> QED BY <1>1, <1>2, <1>4, <1>5, PrefixFacts

\* A path is the child of its parent on the way to itself.
LEMMA ChildIsSelf ==
    ASSUME NEW p \in Path, p # <<>>
    PROVE  ChildAt(p, Front(p)) = p
<1>1. Front(p) \in Prefixes(p) /\ Front(p) # p /\ Len(p) \in Nat /\ Len(Front(p)) = Len(p) - 1
    BY FrontFacts
<1>2. ChildAt(p, Front(p)) \in Prefixes(p) /\ Len(ChildAt(p, Front(p))) = Len(p)
    BY <1>1, ChildFacts
<1> QED BY <1>2, PrefixFacts

\* A path between n and p is beyond the child of n, or n.
LEMMA BeyondChild ==
    ASSUME NEW p \in Path, NEW n \in Prefixes(p), n # p, NEW x \in Prefixes(p), Len(n) < Len(x)
    PROVE  ChildAt(p, n) \in Prefixes(x)
<1>1. ChildAt(p, n) \in Prefixes(p) /\ Len(ChildAt(p, n)) = Len(n) + 1
    BY ChildFacts
<1>2. Len(n) \in Nat /\ Len(x) \in Nat
    BY PrefixFacts
<1> QED BY <1>1, <1>2, PrefixChain

\* The path of an element.
LEMMA AppendFacts ==
    ASSUME NEW p \in Path, Nested(p), NEW i \in Index
    PROVE  /\ Append(p, i) \in Path /\ Front(Append(p, i)) = p /\ Last(Append(p, i)) = i
           /\ Append(p, i) # <<>> /\ Len(Append(p, i)) = Len(p) + 1
           /\ p \in Prefixes(Append(p, i)) /\ p # Append(p, i)
           /\ \A x \in Prefixes(Append(p, i)) : x # Append(p, i) => x \in Prefixes(p)
<1> DEFINE e == Append(p, i)
<1>1. p \in Seq(Index) /\ Len(p) \in 0..Depth /\ Depth \in Nat /\ Len(p) < Depth
    BY PathSeq DEF Nested
<1>2. /\ e \in Seq(Index) /\ e # <<>> /\ Len(e) = Len(p) + 1
      /\ \A k \in 1..Len(p) : e[k] = p[k]
      /\ e[Len(p) + 1] = i
    BY <1>1, AppendProperties
<1> HIDE DEF e
<1>3. e \in Path
    <2>1. Len(e) <= Depth
        BY <1>1, <1>2
    <2> QED BY <1>2, <2>1, SeqPath
<1>4. Last(e) = i
    BY <1>2 DEF Last
<1>5. p \in Prefixes(e)
    <2>1. Len(p) <= Len(e) /\ \A k \in 1..Len(p) : p[k] = e[k]
        BY <1>1, <1>2
    <2> QED BY <1>3, <2>1, PrefixIs
<1>6. p # e
    BY <1>1, <1>2
<1>7. p \in Prefixes(Front(e)) /\ Front(e) \in Path /\ Len(Front(e)) = Len(p)
    BY <1>1, <1>2, <1>3, <1>5, <1>6, FrontFacts
<1>8. Front(e) = p
    BY <1>7, PrefixFacts
<1> QED BY <1>2, <1>3, <1>4, <1>5, <1>6, <1>8, FrontFacts DEF e

\* The path of a stream in the tuple.
LEMMA ParamFacts ==
    ASSUME NEW i \in Params
    PROVE  /\ <<i>> \in Path /\ Len(<<i>>) = 1 /\ Front(<<i>>) = <<>> /\ Last(<<i>>) = i
           /\ <<i>> # <<>> /\ i \in Index /\ Depth > 0 /\ Nested(<<>>)
           /\ Prefixes(<<i>>) = {<<>>, <<i>>} /\ <<i>>[1] = i
<1>1. Depth \in Nat /\ Depth > 0 /\ i \in Index
    BY JsMuxAssumption
<1>2. <<i>> = Append(<<>>, i) /\ <<>> \in Path /\ Nested(<<>>) /\ Len(<<>>) = 0
    BY <1>1, RootPath DEF Nested
<1>3. /\ <<i>> \in Path /\ Front(<<i>>) = <<>> /\ Last(<<i>>) = i /\ Len(<<i>>) = 1
      /\ \A x \in Prefixes(<<i>>) : x # <<i>> => x \in Prefixes(<<>>)
    BY <1>1, <1>2, AppendFacts
<1>4. \A x \in Prefixes(<<>>) : x = <<>>
    BY RootPath, PrefixFacts
<1>5. Prefixes(<<i>>) = {<<>>, <<i>>}
    BY <1>3, <1>4, PrefixSelf
<1> QED BY <1>1, <1>2, <1>3, <1>5

\* The first step from the root.
LEMMA LengthOne ==
    ASSUME NEW p \in Path, p # <<>>, NEW c, c = ChildAt(p, <<>>)
    PROVE  c = <<p[1]>> /\ p[1] \in Index /\ (Len(p) = 1 => p = c)
<1>1. <<>> \in Prefixes(p) /\ Len(<<>>) = 0
    BY PrefixSelf, RootPath
<1>2. c \in Prefixes(p) /\ Len(c) = 1 /\ c \in Path
    <2>1. c \in Path /\ c \in Prefixes(p) /\ Len(c) = Len(<<>>) + 1
        BY <1>1, ChildFacts
    <2> QED BY <1>1, <2>1
<1>3. c[1] = p[1]
    BY <1>2, PrefixIs
<1>4. c = <<p[1]>> /\ p[1] \in Index
    BY <1>2, <1>3, PathSeq
<1> QED BY <1>2, <1>4, PrefixFacts

-----------------------------------------------------------------------------
(* A channel and its reader                                                *)

\* The inbound side ends.
LEMMA StreamClose ==
    ASSUME NEW p, NEW c, NEW r, NEW d, NEW s, NEW app \in BOOLEAN, StreamInv(p, c, r, d, s, app)
    PROVE  /\ StreamInv(p, Close(c, "eof"), r, d, s, app)
           /\ Close(c, "eof").q = c.q /\ Close(c, "eof").end # "open"
           /\ Close(c, "eof").cancelled = c.cancelled
           /\ Tidy(c, r) => Tidy(Close(c, "eof"), r)
<1> DEFINE e == Close(c, "eof")
<1>1. c \in ChanType /\ r \in ReaderType /\ d \in Nat /\ s \in SentType
    BY DEF StreamInv
<1>2. CASE c.end # "open"
    BY <1>2 DEF Close
<1>3. CASE c.end = "open"
    <2>1. /\ e \in ChanType /\ e.q = c.q /\ e.end = "eof" /\ e.waiting = FALSE
          /\ e.cancelled = c.cancelled
          /\ e.got = IF c.waiting THEN "eof" ELSE c.got
        BY <1>1, <1>3 DEF Close, ChanType
    <2> HIDE DEF e
    <2>2. c.waiting => c.got = "none"
        BY DEF StreamInv, ChanInv
    <2>3. /\ Holding(e, r) <=> Holding(c, r)
          /\ HoldingSome(e, r) <=> HoldingSome(c, r)
          /\ HoldingEnd(e, r) <=> HoldingEnd(c, r)
        BY <2>1, <2>2 DEF Holding, HoldingSome, HoldingEnd, Value
    <2>4. ChanInv(e, r, app)
        BY <1>1, <1>3, <2>1, <2>2 DEF StreamInv, ChanInv, ReaderType
    <2>5. FlowInv(p, e, r, d, s, app)
        BY <2>1, <2>3 DEF StreamInv, FlowInv, OneIf
    <2>6. Tidy(e, r) <=> Tidy(c, r)
        BY <2>1, <2>3 DEF Tidy
    <2>7. EndInv(p, e, r, s, app)
        BY <2>1, <2>3, <2>6 DEF StreamInv, EndInv, OneIf, HasEnd
    <2> QED BY <1>1, <2>1, <2>4, <2>5, <2>6, <2>7 DEF StreamInv, e
<1> QED BY <1>2, <1>3

\* A stream without unread data is discarded, because of the application.
LEMMA StreamCancel ==
    ASSUME NEW p, NEW c, NEW r, NEW d, NEW s, StreamInv(p, c, r, d, s, TRUE), c.q = <<>>
    PROVE  StreamInv(p, Cancel(c), r, d, s, TRUE) /\ Cancel(c).q = <<>> /\ Cancel(c).end # "open"
<1> DEFINE e == Cancel(c)
<1>1. c \in ChanType /\ r \in ReaderType /\ d \in Nat /\ s \in SentType
    BY DEF StreamInv
<1>2. CASE c.cancelled
    BY <1>2 DEF Cancel, StreamInv, ChanInv
<1>3. CASE ~c.cancelled
    <2>1. /\ e \in ChanType /\ e.q = c.q /\ e.end = "discarded" /\ e.waiting = FALSE
          /\ e.cancelled = TRUE
          /\ e.got = IF c.waiting THEN "discarded" ELSE c.got
        <3>1. c.end \in {"open", "eof", "discarded"}
            BY <1>1 DEF ChanType
        <3>2. CASE c.end = "open"
            BY <1>1, <1>3, <3>2 DEF Cancel, Close, ChanType
        <3>3. CASE c.end # "open"
            <4>1. ~c.waiting
                BY <3>3 DEF StreamInv, ChanInv
            <4> QED BY <1>1, <1>3, <3>1, <3>3, <4>1 DEF Cancel, Close, ChanType
        <3> QED BY <3>2, <3>3
    <2> HIDE DEF e
    <2>2. c.waiting => c.got = "none"
        BY DEF StreamInv, ChanInv
    <2>3. /\ Holding(e, r) <=> Holding(c, r)
          /\ HoldingSome(e, r) <=> HoldingSome(c, r)
          /\ HoldingEnd(e, r) <=> HoldingEnd(c, r)
        BY <2>1, <2>2 DEF Holding, HoldingSome, HoldingEnd, Value
    <2>4. ChanInv(e, r, TRUE)
        BY <1>1, <1>3, <2>1, <2>2 DEF StreamInv, ChanInv, ReaderType
    <2>5. FlowInv(p, e, r, d, s, TRUE)
        BY <2>1, <2>3 DEF StreamInv, FlowInv, OneIf
    <2>6. Tidy(e, r) <=> Tidy(c, r)
        BY <2>1, <2>3 DEF Tidy
    <2>7. EndInv(p, e, r, s, TRUE)
        BY <2>1, <2>3, <2>6 DEF StreamInv, EndInv, OneIf, HasEnd
    <2> QED BY <1>1, <2>1, <2>4, <2>5, <2>7 DEF StreamInv, e
<1> QED BY <1>2, <1>3

\* The application may be to blame from now on.
LEMMA StreamApp ==
    ASSUME NEW p, NEW c, NEW r, NEW d, NEW s, NEW app \in BOOLEAN, StreamInv(p, c, r, d, s, app)
    PROVE  StreamInv(p, c, r, d, s, TRUE)
<1>1. ChanInv(c, r, TRUE)
    BY DEF StreamInv, ChanInv
<1>2. FlowInv(p, c, r, d, s, TRUE)
    BY DEF StreamInv, FlowInv
<1>3. EndInv(p, c, r, s, TRUE)
    BY DEF StreamInv, EndInv
<1> QED BY <1>1, <1>2, <1>3 DEF StreamInv

\* A stream nobody reads yet, and without data, gets a new channel.
LEMMA StreamNew ==
    ASSUME NEW p, NEW c, NEW r, NEW d, NEW s, NEW app \in BOOLEAN, StreamInv(p, c, r, d, s, app),
           r.pc = "off", c.q = <<>>
    PROVE  /\ StreamInv(p, NewChan, r, d, s, app) /\ NewChan.q = <<>> /\ ~NewChan.cancelled
           /\ NewChan.end = "open" /\ Tidy(NewChan, r)
<1>1. c \in ChanType /\ r \in ReaderType /\ d \in Nat /\ s \in SentType
    BY DEF StreamInv
<1>2. /\ NewChan \in ChanType /\ NewChan.q = <<>> /\ NewChan.end = "open" /\ NewChan.waiting = FALSE
      /\ NewChan.cancelled = FALSE /\ NewChan.got = "none"
    BY DEF NewChan, ChanType
<1>3. ~Holding(NewChan, r) /\ ~HoldingSome(NewChan, r) /\ ~HoldingEnd(NewChan, r) /\ ~Holding(c, r)
      /\ ~HoldingSome(c, r) /\ ~HoldingEnd(c, r)
    BY <1>2 DEF Holding, HoldingSome, HoldingEnd
<1>4. ChanInv(NewChan, r, app)
    BY <1>2 DEF ChanInv
<1>5. FlowInv(p, NewChan, r, d, s, app)
    BY <1>2, <1>3 DEF StreamInv, FlowInv, OneIf
<1>6. Tidy(NewChan, r) /\ Tidy(c, r)
    BY <1>2, <1>3 DEF Tidy
<1>7. EndInv(p, NewChan, r, s, app)
    BY <1>2, <1>3, <1>6 DEF StreamInv, EndInv, OneIf, HasEnd
<1> QED BY <1>1, <1>2, <1>4, <1>5, <1>6, <1>7 DEF StreamInv

-----------------------------------------------------------------------------
\* A chunk arrives.
LEMMA StreamPush ==
    ASSUME NEW p, NEW c, NEW r, NEW d, NEW s, NEW app \in BOOLEAN, StreamInv(p, c, r, d, s, app),
           NEW v \in Value, c.end = "open",
           NEW t, t = [n |-> s.n + 1, over |-> s.over \/ v = "end",
                       elems |-> IF v = "some" THEN s.elems + 1 ELSE s.elems]
    PROVE  /\ StreamInv(p, Push(c, v), r, d, t, app)
           /\ Push(c, v).end = c.end /\ Push(c, v).cancelled = c.cancelled
           /\ ~s.over => Tidy(Push(c, v), r)
<1> DEFINE e == Push(c, v)
<1>1. c \in ChanType /\ r \in ReaderType /\ d \in Nat /\ s \in SentType /\ c.q \in Seq(Value)
    BY DEF StreamInv, ChanType
<1>2. /\ t \in SentType /\ t.n = s.n + 1 /\ t.over = (s.over \/ v = "end")
      /\ t.elems = IF v = "some" THEN s.elems + 1 ELSE s.elems
    BY <1>1 DEF SentType
<1>3. r.pc # "done" /\ ~c.cancelled
    BY DEF StreamInv, ChanInv
<1>4. s.n \in Nat /\ s.elems \in Nat /\ s.over \in BOOLEAN /\ r.base \in Nat /\ Len(c.q) \in Nat
    BY <1>1 DEF SentType, ReaderType
<1>5. CASE c.waiting
    <2>1. r.pc = "next" /\ c.q = <<>> /\ c.got = "none" /\ Len(c.q) = 0
        BY <1>5 DEF StreamInv, ChanInv
    <2>2. /\ e \in ChanType /\ e.q = c.q /\ e.end = c.end /\ e.waiting = FALSE
          /\ e.cancelled = c.cancelled /\ e.got = v
        BY <1>1, <1>5 DEF Push, ChanType
    <2> HIDE DEF e
    <2>3. /\ Holding(e, r) /\ ~Holding(c, r)
          /\ HoldingSome(e, r) <=> v = "some"
          /\ HoldingEnd(e, r) <=> v = "end"
          /\ ~HoldingSome(c, r) /\ ~HoldingEnd(c, r)
        BY <2>1, <2>2 DEF Holding, HoldingSome, HoldingEnd, Value
    <2>4. ChanInv(e, r, app)
        BY <1>3, <2>1, <2>2 DEF ChanInv, Value
    <2>5. FlowInv(p, e, r, d, t, app)
        BY <1>1, <1>2, <1>4, <2>1, <2>2, <2>3 DEF StreamInv, FlowInv, OneIf
    <2>6. ~s.over /\ s.elems = s.n
        BY <1>3, <1>4, <2>1, <2>3 DEF StreamInv, EndInv, HasEnd
    <2>7. Tidy(e, r)
        BY <2>1, <2>2 DEF Tidy
    <2>8. ~HasEnd(e.q)
        BY <2>1, <2>2 DEF HasEnd
    <2>9. r.base <= s.elems
        <3>1. 0 \in 0..Len(c.q) /\ \A j \in 1..0 : c.q[j] = "some"
            BY <1>4
        <3>2. r.base + OneIf(HoldingSome(c, r)) + 0 <= s.elems
            BY <1>3, <2>3, <3>1 DEF StreamInv, EndInv
        <3> QED BY <1>4, <2>3, <3>2 DEF OneIf
    <2>10. ~HoldingEnd(e, r) => \A k \in 0..Len(e.q) : (\A j \in 1..k : e.q[j] = "some") =>
                r.base + OneIf(HoldingSome(e, r)) + k <= t.elems
        <3>1. SUFFICES ASSUME v = "some" PROVE r.base + OneIf(HoldingSome(e, r)) + 0 <= t.elems
            BY <2>1, <2>2, <2>3 DEF Value
        <3>2. t.elems = s.elems + 1
            BY <1>2, <3>1
        <3> QED BY <1>4, <2>3, <2>9, <3>1, <3>2 DEF OneIf
    <2>11. t.over <=> (r.pc = "done" /\ t.over) \/ HoldingEnd(e, r) \/ HasEnd(e.q)
        BY <1>2, <1>3, <2>3, <2>6, <2>8
    <2>12. ~t.over => t.elems = t.n
        BY <1>2, <2>6 DEF Value
    <2>13. t.over => t.n = t.elems + 1
        BY <1>2, <1>4, <2>6 DEF Value
    <2>14. EndInv(p, e, r, t, app)
        BY <1>3, <2>10, <2>11, <2>12, <2>13 DEF EndInv
    <2> QED BY <1>1, <1>2, <2>2, <2>4, <2>5, <2>7, <2>14 DEF StreamInv, e
<1>6. CASE ~c.waiting
    <2>1. Append(c.q, v) \in Seq(Value)
        BY <1>1
    <2>2. /\ e \in ChanType /\ e.q = Append(c.q, v) /\ e.end = c.end /\ ~e.waiting
          /\ e.cancelled = c.cancelled /\ e.got = c.got
        <3>1. e = [c EXCEPT !.q = Append(c.q, v)]
            BY <1>6 DEF Push
        <3> HIDE DEF e
        <3> QED BY <1>1, <1>6, <2>1, <3>1 DEF ChanType
    <2>3. /\ Len(e.q) = Len(c.q) + 1 /\ e.q # <<>>
          /\ \A k \in 1..Len(c.q) : e.q[k] = c.q[k]
          /\ e.q[Len(c.q) + 1] = v
        BY <1>1, <2>2, AppendProperties
    <2> HIDE DEF e
    <2>4. /\ Holding(e, r) <=> Holding(c, r)
          /\ HoldingSome(e, r) <=> HoldingSome(c, r)
          /\ HoldingEnd(e, r) <=> HoldingEnd(c, r)
        BY <2>2 DEF Holding, HoldingSome, HoldingEnd
    <2>5. ChanInv(e, r, app)
        BY <1>3, <1>6, <2>2 DEF StreamInv, ChanInv
    <2>6. FlowInv(p, e, r, d, t, app)
        <3>1. Len(e.q) = Len(c.q) + 1
            BY <2>3
        <3>2. s.n = d + Len(c.q) + OneIf(Holding(c, r)) /\ s.elems <= s.n
            BY DEF StreamInv, FlowInv
        <3>3. OneIf(Holding(e, r)) = OneIf(Holding(c, r)) /\ OneIf(Holding(c, r)) \in Nat
            BY <2>4 DEF OneIf
        <3>4. t.n = d + Len(e.q) + OneIf(Holding(e, r))
            BY <1>1, <1>2, <1>4, <3>1, <3>2, <3>3
        <3>5. t.elems <= t.n
            BY <1>2, <1>4, <3>2
        <3> QED BY <3>4, <3>5 DEF StreamInv, FlowInv
    <2>7. HasEnd(e.q) <=> HasEnd(c.q) \/ v = "end"
        <3>1. ASSUME NEW k \in 1..Len(c.q), c.q[k] = "end" PROVE HasEnd(e.q)
            <4>1. k \in 1..Len(e.q) /\ e.q[k] = "end"
                BY <1>4, <2>3, <3>1
            <4> QED BY <4>1 DEF HasEnd
        <3>2. ASSUME v = "end" PROVE HasEnd(e.q)
            <4>1. Len(c.q) + 1 \in 1..Len(e.q) /\ e.q[Len(c.q) + 1] = "end"
                BY <1>4, <2>3, <3>2
            <4> QED BY <4>1 DEF HasEnd
        <3>3. ASSUME NEW k \in 1..Len(e.q), e.q[k] = "end" PROVE HasEnd(c.q) \/ v = "end"
            <4>1. k \in 1..Len(c.q) \/ k = Len(c.q) + 1
                BY <1>4, <2>3
            <4> QED BY <2>3, <3>3, <4>1 DEF HasEnd
        <3> QED BY <3>1, <3>2, <3>3 DEF HasEnd
    <2>8. ~s.over => Tidy(e, r)
        <3>1. ~s.over => ~HasEnd(c.q) /\ ~HoldingEnd(c, r)
            BY DEF StreamInv, EndInv
        <3>2. \A k \in 1..Len(c.q) : c.q[k] \in Value
            BY <1>1
        <3>3. ASSUME ~s.over, NEW k \in 1..Len(e.q), k < Len(e.q) PROVE e.q[k] = "some"
            <4>1. k \in 1..Len(c.q)
                BY <1>4, <2>3, <3>3
            <4>2. c.q[k] # "end"
                BY <3>1, <3>3, <4>1 DEF HasEnd
            <4> QED BY <2>3, <3>2, <4>1, <4>2 DEF Value
        <3> QED BY <2>4, <3>1, <3>3 DEF Tidy
    <2>9. s.over => ~Tidy(e, r)
        <3>1. s.over => HasEnd(c.q) \/ HoldingEnd(c, r)
            BY <1>3 DEF StreamInv, EndInv
        <3>2. ASSUME NEW k \in 1..Len(c.q), c.q[k] = "end" PROVE ~Tidy(e, r)
            <4>1. k \in 1..Len(e.q) /\ k < Len(e.q) /\ e.q[k] = "end"
                BY <1>4, <2>3, <3>2
            <4> QED BY <4>1 DEF Tidy
        <3> QED BY <2>3, <2>4, <3>1, <3>2 DEF Tidy, HasEnd
    <2>10. ~s.over => s.elems = s.n
        BY DEF StreamInv, EndInv
    <2>11. ASSUME ~HoldingEnd(e, r), NEW k \in 0..Len(e.q), \A j \in 1..k : e.q[j] = "some"
           PROVE  r.base + OneIf(HoldingSome(e, r)) + k <= t.elems
        <3>1. ASSUME NEW m \in 0..Len(c.q), m <= k
              PROVE  r.base + OneIf(HoldingSome(c, r)) + m <= s.elems
            <4>1. \A j \in 1..m : c.q[j] = "some"
                BY <1>4, <2>3, <2>11, <3>1
            <4> QED BY <1>3, <2>4, <2>11, <4>1 DEF StreamInv, EndInv
        <3>2. CASE k <= Len(c.q)
            BY <1>2, <1>4, <2>3, <2>4, <3>1, <3>2 DEF OneIf
        <3>3. CASE k = Len(c.q) + 1
            <4>1. v = "some"
                BY <1>4, <2>3, <2>11, <3>3
            <4>2. r.base + OneIf(HoldingSome(c, r)) + Len(c.q) <= s.elems
                BY <1>4, <3>1, <3>3
            <4> QED BY <1>2, <1>4, <2>4, <3>3, <4>1, <4>2 DEF OneIf
        <3> QED BY <1>4, <2>3, <3>2, <3>3
    <2>12. t.over <=> (r.pc = "done" /\ t.over) \/ HoldingEnd(e, r) \/ HasEnd(e.q)
        <3>1. s.over <=> HoldingEnd(c, r) \/ HasEnd(c.q)
            BY <1>3 DEF StreamInv, EndInv
        <3> QED BY <1>2, <1>3, <2>4, <2>7, <3>1
    <2>13. EndInv(p, e, r, t, app)
        BY <1>2, <1>3, <1>4, <2>9, <2>10, <2>11, <2>12 DEF EndInv, Value
    <2> QED BY <1>1, <1>2, <2>2, <2>5, <2>6, <2>8, <2>13 DEF StreamInv, e
<1> QED BY <1>5, <1>6

\* A reader asks for the next chunk.
LEMMA StreamNext ==
    ASSUME NEW p, NEW c, NEW r, NEW d, NEW s, NEW app \in BOOLEAN, StreamInv(p, c, r, d, s, app),
           p # <<>>, r.pc \in {"off", "send"}, NEW t, t = [r EXCEPT !.pc = "next"]
    PROVE  /\ StreamInv(p, NextOf(c), t, d, s, app)
           /\ NextOf(c).end = c.end /\ NextOf(c).cancelled = c.cancelled
           /\ c.q = <<>> => NextOf(c).q = <<>>
           /\ Tidy(c, r) => Tidy(NextOf(c), t)
<1> DEFINE e == NextOf(c)
<1>1. /\ c \in ChanType /\ r \in ReaderType /\ d \in Nat /\ s \in SentType /\ c.q \in Seq(Value)
      /\ Len(c.q) \in Nat
    BY DEF StreamInv, ChanType
<1>2. t \in ReaderType /\ t.pc = "next" /\ t.base = r.base
    BY <1>1 DEF ReaderType
<1>3. ~c.waiting /\ ~Holding(c, r) /\ ~HoldingSome(c, r) /\ ~HoldingEnd(c, r) /\ r.pc # "done"
      /\ r.pc # "next"
    BY DEF StreamInv, ChanInv, Holding, HoldingSome, HoldingEnd
<1>4. s.n \in Nat /\ s.elems \in Nat /\ s.over \in BOOLEAN /\ r.base \in Nat /\ Len(c.q) \in Nat
    BY <1>1 DEF SentType, ReaderType
<1>5. /\ s.n = d + Len(c.q) /\ s.elems <= s.n
      /\ Nested(p) => r.base = d
      /\ ~Nested(p) => r.base = 0
    BY <1>1, <1>3, <1>4 DEF StreamInv, FlowInv, OneIf
<1>6. (s.over <=> HasEnd(c.q)) /\ (~s.over => s.elems = s.n) /\ (s.over /\ Tidy(c, r) => s.n = s.elems + 1)
    BY <1>3 DEF StreamInv, EndInv
<1>7. ASSUME NEW k \in 0..Len(c.q), \A j \in 1..k : c.q[j] = "some"
      PROVE  r.base + k <= s.elems
    BY <1>3, <1>4, <1>7 DEF StreamInv, EndInv, OneIf
<1>8. CASE c.q # <<>>
    <2>1. /\ Head(c.q) \in Value /\ Tail(c.q) \in Seq(Value) /\ Len(Tail(c.q)) = Len(c.q) - 1
          /\ \A i \in 1..Len(Tail(c.q)) : Tail(c.q)[i] = c.q[i + 1]
          /\ Head(c.q) = c.q[1] /\ Len(c.q) >= 1 /\ Len(Tail(c.q)) \in Nat
        BY <1>1, <1>8, HeadTailProperties
    <2>2. /\ e \in ChanType /\ e.q = Tail(c.q) /\ e.end = c.end /\ ~e.waiting
          /\ e.cancelled = c.cancelled /\ e.got = Head(c.q)
        <3>1. e = [c EXCEPT !.q = Tail(c.q), !.got = Head(c.q)]
            BY <1>8 DEF NextOf
        <3> HIDE DEF e
        <3> QED BY <1>1, <1>3, <2>1, <3>1 DEF ChanType
    <2> HIDE DEF e
    <2>3. /\ Holding(e, t)
          /\ HoldingSome(e, t) <=> c.q[1] = "some"
          /\ HoldingEnd(e, t) <=> c.q[1] = "end"
        BY <1>2, <2>1, <2>2 DEF Holding, HoldingSome, HoldingEnd
    <2>4. ChanInv(e, t, app)
        <3>1. ~c.cancelled /\ (c.end = "discarded" => c.cancelled)
            BY <1>8 DEF StreamInv, ChanInv
        <3>2. e.got # "discarded" /\ e.got # "none" /\ e.got # "eof"
            BY <2>1, <2>2 DEF Value
        <3> QED BY <1>2, <2>2, <3>1, <3>2 DEF ChanInv
    <2>5. FlowInv(p, e, t, d, s, app)
        <3>1. Len(e.q) = Len(c.q) - 1 /\ OneIf(Holding(e, t)) = 1
            BY <2>1, <2>2, <2>3 DEF OneIf
        <3>2. s.n = d + Len(e.q) + OneIf(Holding(e, t))
            BY <1>1, <1>4, <1>5, <2>1, <3>1
        <3> QED BY <1>2, <1>5, <3>2 DEF FlowInv
    <2>6. Tidy(c, r) <=> Tidy(e, t)
        <3>1. ASSUME Tidy(c, r) PROVE Tidy(e, t)
            <4>1. ASSUME NEW k \in 1..Len(e.q), k < Len(e.q) PROVE e.q[k] = "some"
                <5>1. k + 1 \in 1..Len(c.q) /\ k + 1 < Len(c.q) /\ e.q[k] = c.q[k + 1]
                    BY <1>4, <2>1, <2>2, <4>1
                <5> QED BY <3>1, <5>1 DEF Tidy
            <4>2. e.q # <<>> => c.q[1] = "some"
                <5>1. e.q # <<>> => Len(e.q) # 0
                    BY <2>1, <2>2
                <5>2. e.q # <<>> => 1 \in 1..Len(c.q) /\ 1 < Len(c.q)
                    BY <1>4, <2>1, <2>2, <5>1
                <5> QED BY <3>1, <5>2 DEF Tidy
            <4> QED BY <2>3, <4>1, <4>2 DEF Tidy
        <3>2. ASSUME Tidy(e, t) PROVE Tidy(c, r)
            <4>1. ASSUME NEW k \in 1..Len(c.q), k < Len(c.q) PROVE c.q[k] = "some"
                <5>1. CASE k = 1
                    <6>1. Len(e.q) # 0
                        BY <1>4, <2>1, <2>2, <4>1, <5>1
                    <6>2. e.q # <<>>
                        BY <6>1
                    <6> QED BY <2>1, <2>2, <2>3, <3>2, <5>1, <6>2 DEF Tidy, Value
                <5>2. CASE k > 1
                    <6>1. k - 1 \in 1..Len(e.q) /\ k - 1 < Len(e.q) /\ e.q[k - 1] = c.q[k]
                        BY <1>4, <2>1, <2>2, <4>1, <5>2
                    <6> QED BY <3>2, <6>1 DEF Tidy
                <5> QED BY <4>1, <5>1, <5>2
            <4> QED BY <1>3, <4>1 DEF Tidy
        <3> QED BY <3>1, <3>2
    <2>7. HasEnd(c.q) <=> HoldingEnd(e, t) \/ HasEnd(e.q)
        <3>1. ASSUME NEW k \in 1..Len(c.q), c.q[k] = "end" PROVE HoldingEnd(e, t) \/ HasEnd(e.q)
            <4>1. CASE k = 1
                BY <2>3, <3>1, <4>1
            <4>2. CASE k > 1
                <5>1. k - 1 \in 1..Len(e.q) /\ e.q[k - 1] = "end"
                    BY <1>4, <2>1, <2>2, <3>1, <4>2
                <5> QED BY <5>1 DEF HasEnd
            <4> QED BY <3>1, <4>1, <4>2
        <3>2. ASSUME NEW k \in 1..Len(e.q), e.q[k] = "end" PROVE HasEnd(c.q)
            <4>1. k + 1 \in 1..Len(c.q) /\ c.q[k + 1] = "end"
                BY <1>4, <2>1, <2>2, <3>2
            <4> QED BY <4>1 DEF HasEnd
        <3>3. ASSUME HoldingEnd(e, t) PROVE HasEnd(c.q)
            <4>1. 1 \in 1..Len(c.q) /\ c.q[1] = "end"
                BY <1>4, <2>1, <2>3, <3>3
            <4> QED BY <4>1 DEF HasEnd
        <3> QED BY <3>1, <3>2, <3>3 DEF HasEnd
    <2>8. ASSUME ~HoldingEnd(e, t), NEW k \in 0..Len(e.q), \A j \in 1..k : e.q[j] = "some"
          PROVE  t.base + OneIf(HoldingSome(e, t)) + k <= s.elems
        <3>1. c.q[1] = "some"
            BY <2>1, <2>3, <2>8 DEF Value
        <3>2. ASSUME NEW j \in 1..(k + 1) PROVE c.q[j] = "some"
            <4>1. CASE j = 1
                BY <3>1, <4>1
            <4>2. CASE j > 1
                <5>1. j - 1 \in 1..k /\ j - 1 \in 1..Len(Tail(c.q)) /\ e.q[j - 1] = c.q[j]
                    BY <1>4, <2>1, <2>2, <4>2
                <5> QED BY <2>8, <5>1
            <4> QED BY <4>1, <4>2
        <3>3. k + 1 \in 0..Len(c.q)
            BY <1>4, <2>1, <2>2
        <3>4. r.base + (k + 1) <= s.elems
            BY <1>7, <3>2, <3>3
        <3>5. OneIf(HoldingSome(e, t)) = 1
            BY <2>3, <3>1 DEF OneIf
        <3> QED BY <1>2, <1>4, <3>4, <3>5
    <2>9. EndInv(p, e, t, s, app)
        BY <1>2, <1>6, <2>6, <2>7, <2>8 DEF EndInv
    <2> QED BY <1>1, <1>2, <1>8, <2>2, <2>4, <2>5, <2>6, <2>9 DEF StreamInv, e
<1>9. CASE c.q = <<>>
    <2>1. /\ e \in ChanType /\ e.q = c.q /\ e.end = c.end
          /\ e.cancelled = c.cancelled
          /\ e.got = (IF c.end # "open" THEN c.end ELSE "none") /\ (e.waiting <=> c.end = "open")
        <3>1. CASE c.end # "open"
            <4>1. e = [c EXCEPT !.got = c.end] /\ c.end \in {"eof", "discarded"}
                BY <1>1, <1>9, <3>1 DEF NextOf, ChanType
            <4> HIDE DEF e
            <4> QED BY <1>1, <1>3, <3>1, <4>1 DEF ChanType
        <3>2. CASE c.end = "open"
            <4>1. e = [c EXCEPT !.waiting = TRUE, !.got = "none"]
                BY <1>9, <3>2 DEF NextOf
            <4> HIDE DEF e
            <4> QED BY <1>1, <3>2, <4>1 DEF ChanType
        <3> QED BY <3>1, <3>2
    <2> HIDE DEF e
    <2>2. c.end \in {"open", "eof", "discarded"} /\ Len(c.q) = 0 /\ e.q = <<>> /\ Len(e.q) = 0
        BY <1>1, <1>9, <2>1 DEF ChanType
    <2>3. ~Holding(e, t) /\ ~HoldingSome(e, t) /\ ~HoldingEnd(e, t)
        BY <1>2, <2>1, <2>2 DEF Holding, HoldingSome, HoldingEnd, Value
    <2>4. ChanInv(e, t, app)
        <3>1. (c.end = "discarded" => c.cancelled) /\ (c.cancelled => c.end # "open" /\ app)
            BY DEF StreamInv, ChanInv
        <3> QED BY <1>2, <2>1, <2>2, <3>1 DEF ChanInv
    <2>5. FlowInv(p, e, t, d, s, app)
        BY <1>1, <1>2, <1>4, <1>5, <2>2, <2>3 DEF FlowInv, OneIf
    <2>6. Tidy(e, t) /\ Tidy(c, r)
        BY <1>9, <2>2 DEF Tidy
    <2>7. ~HasEnd(c.q) /\ ~HasEnd(e.q)
        BY <2>2 DEF HasEnd
    <2>8. r.base <= s.elems
        <3>1. 0 \in 0..Len(c.q) /\ \A j \in 1..0 : c.q[j] = "some"
            BY <1>4
        <3> QED BY <1>4, <1>7, <3>1
    <2>9. EndInv(p, e, t, s, app)
        BY <1>2, <1>4, <1>6, <2>2, <2>3, <2>7, <2>8 DEF EndInv, OneIf
    <2> QED BY <1>1, <1>2, <2>1, <2>2, <2>4, <2>5, <2>6, <2>9 DEF StreamInv, e
<1> QED BY <1>8, <1>9

\* A reader decodes the length of a chunk, ...
LEMMA StreamLength ==
    ASSUME NEW p, NEW c, NEW r, NEW d, NEW s, NEW app \in BOOLEAN, StreamInv(p, c, r, d, s, app),
           p # <<>>, r.pc = "next", c.got = "some", NEW t, t = [r EXCEPT !.pc = "decode"]
    PROVE  StreamInv(p, c, t, d, s, app) /\ (Tidy(c, r) => Tidy(c, t))
<1>1. c \in ChanType /\ r \in ReaderType /\ d \in Nat /\ s \in SentType
    BY DEF StreamInv
<1>2. t \in ReaderType /\ t.pc = "decode" /\ t.base = r.base
    BY <1>1 DEF ReaderType
<1>3. /\ Holding(c, r) /\ HoldingSome(c, r) /\ ~HoldingEnd(c, r)
      /\ Holding(c, t) /\ HoldingSome(c, t) /\ ~HoldingEnd(c, t)
    BY <1>2 DEF Holding, HoldingSome, HoldingEnd, Value
<1>4. ChanInv(c, t, app)
    BY <1>2 DEF StreamInv, ChanInv
<1>5. FlowInv(p, c, t, d, s, app)
    BY <1>2, <1>3 DEF StreamInv, FlowInv, OneIf
<1>6. Tidy(c, r) <=> Tidy(c, t)
    BY <1>3 DEF Tidy
<1>7. EndInv(p, c, t, s, app)
    BY <1>2, <1>3, <1>6 DEF StreamInv, EndInv, OneIf
<1> QED BY <1>1, <1>2, <1>4, <1>5, <1>6, <1>7 DEF StreamInv

\* ... its element, ...
LEMMA StreamElement ==
    ASSUME NEW p, NEW c, NEW r, NEW d, NEW s, NEW app \in BOOLEAN, StreamInv(p, c, r, d, s, app),
           r.pc = "decode", NEW t,
           t = [pc |-> "send", base |-> IF Nested(p) THEN r.base + 1 ELSE r.base]
    PROVE  StreamInv(p, c, t, d + 1, s, app) /\ (Tidy(c, r) => Tidy(c, t))
<1>1. c \in ChanType /\ r \in ReaderType /\ d \in Nat /\ s \in SentType
    BY DEF StreamInv
<1>2. /\ t \in ReaderType /\ t.pc = "send"
      /\ t.base = (IF Nested(p) THEN r.base + 1 ELSE r.base) /\ r.base \in Nat
    BY <1>1 DEF ReaderType
<1>3. /\ Holding(c, r) /\ HoldingSome(c, r) /\ ~HoldingEnd(c, r)
      /\ ~Holding(c, t) /\ ~HoldingSome(c, t) /\ ~HoldingEnd(c, t)
    BY <1>2 DEF Holding, HoldingSome, HoldingEnd, Value
<1>4. Len(c.q) \in Nat /\ s.n \in Nat /\ s.elems \in Nat
    BY <1>1 DEF ChanType, SentType
<1>5. ChanInv(c, t, app)
    BY <1>2 DEF StreamInv, ChanInv
<1>6. FlowInv(p, c, t, d + 1, s, app)
    <2>1. s.n = d + Len(c.q) + 1 /\ p # <<>>
        BY <1>3 DEF StreamInv, FlowInv, OneIf
    <2>2. s.n = d + 1 + Len(c.q) + 0
        <3>1. \A a, b \in Nat : a + b + 1 = a + 1 + b + 0
            OBVIOUS
        <3> QED BY <1>1, <1>4, <2>1, <3>1, Zenon
    <2>3. Nested(p) => r.base = d
        BY <2>1 DEF StreamInv, FlowInv
    <2>4. ~Nested(p) => r.base = 0
        BY DEF StreamInv, FlowInv
    <2>5. s.elems <= s.n
        BY DEF StreamInv, FlowInv
    <2> QED BY <1>2, <1>3, <2>1, <2>2, <2>3, <2>4, <2>5 DEF FlowInv, OneIf
<1>7. Tidy(c, r) <=> Tidy(c, t)
    BY <1>3 DEF Tidy
<1>8. ASSUME NEW k \in 0..Len(c.q), \A j \in 1..k : c.q[j] = "some"
      PROVE  t.base + OneIf(HoldingSome(c, t)) + k <= s.elems
    <2>1. r.base + 1 + k <= s.elems
        BY <1>3, <1>8 DEF StreamInv, EndInv, OneIf
    <2> QED BY <1>2, <1>3, <1>4, <2>1 DEF OneIf
<1>9. EndInv(p, c, t, s, app)
    <2>1. /\ s.over <=> HasEnd(c.q)
          /\ ~s.over => s.elems = s.n
          /\ s.over /\ Tidy(c, r) => s.n = s.elems + 1
        BY <1>3 DEF StreamInv, EndInv
    <2> QED BY <1>2, <1>3, <1>7, <1>8, <2>1 DEF EndInv
<1> QED BY <1>1, <1>2, <1>5, <1>6, <1>7, <1>9 DEF StreamInv

\* ... or its end, which must be the last of its data.
LEMMA StreamEnd ==
    ASSUME NEW p, NEW c, NEW r, NEW d, NEW s, NEW app \in BOOLEAN, StreamInv(p, c, r, d, s, app),
           r.pc = "next", c.got \in Value, c.got = "end" \/ p = <<>>, c.q = <<>>, c.end # "open",
           NEW t, t = [r EXCEPT !.pc = "done"]
    PROVE  StreamInv(p, c, t, d + 1, s, app) /\ Tidy(c, t)
<1>1. c \in ChanType /\ r \in ReaderType /\ d \in Nat /\ s \in SentType
    BY DEF StreamInv
<1>2. t \in ReaderType /\ t.pc = "done" /\ t.base = r.base /\ r.base \in Nat
    BY <1>1 DEF ReaderType
<1>3. /\ Holding(c, r) /\ ~Holding(c, t) /\ ~HoldingSome(c, t) /\ ~HoldingEnd(c, t)
      /\ HoldingEnd(c, r) <=> c.got = "end"
    BY <1>2 DEF Holding, HoldingSome, HoldingEnd
<1>4. Len(c.q) = 0 /\ s.n \in Nat /\ s.elems \in Nat /\ ~HasEnd(c.q)
    BY <1>1 DEF SentType, HasEnd
<1>5. ChanInv(c, t, app)
    <2>1. ~c.waiting
        BY DEF StreamInv, ChanInv
    <2> QED BY <1>2, <2>1 DEF StreamInv, ChanInv
<1>6. FlowInv(p, c, t, d + 1, s, app)
    <2>1. /\ s.n = d + 1 /\ s.elems <= s.n
          /\ p # <<>> /\ Nested(p) => r.base = d
          /\ p = <<>> => d = 0
          /\ p = <<>> \/ ~Nested(p) => r.base = 0
        BY <1>1, <1>3, <1>4 DEF StreamInv, FlowInv, OneIf
    <2> QED BY <1>1, <1>2, <1>3, <1>4, <2>1 DEF FlowInv, OneIf
<1>7. Tidy(c, r) /\ Tidy(c, t)
    BY <1>3, <1>4 DEF Tidy
<1>8. EndInv(p, c, t, s, app)
    <2>1. /\ s.over <=> c.got = "end"
          /\ ~s.over => s.elems = s.n
          /\ s.over => s.n = s.elems + 1
        BY <1>3, <1>4, <1>7 DEF StreamInv, EndInv
    <2> QED BY <1>2, <1>3, <1>4, <2>1 DEF EndInv
<1> QED BY <1>1, <1>2, <1>5, <1>6, <1>7, <1>8 DEF StreamInv

\* The reader of a discarded stream stops.
LEMMA StreamStop ==
    ASSUME NEW p, NEW c, NEW r, NEW d, NEW s, NEW app \in BOOLEAN, StreamInv(p, c, r, d, s, app),
           \/ r.pc = "next" /\ c.got = "discarded"
           \/ r.pc = "send" /\ c.cancelled,
           ~(p = <<>>), NEW t, t = [r EXCEPT !.pc = "done"]
    PROVE  StreamInv(p, c, t, d, s, app) /\ app /\ c.cancelled /\ (Tidy(c, r) => Tidy(c, t))
<1>1. c \in ChanType /\ r \in ReaderType /\ d \in Nat /\ s \in SentType
    BY DEF StreamInv
<1>2. t \in ReaderType /\ t.pc = "done" /\ t.base = r.base /\ r.base \in Nat
    BY <1>1 DEF ReaderType
<1>3. /\ ~Holding(c, t) /\ ~HoldingSome(c, t) /\ ~HoldingEnd(c, t)
      /\ ~Holding(c, r) /\ ~HoldingSome(c, r) /\ ~HoldingEnd(c, r)
    BY <1>2 DEF Holding, HoldingSome, HoldingEnd, Value
<1>4. c.cancelled /\ app /\ c.q = <<>> /\ c.end # "open" /\ ~c.waiting
    BY DEF StreamInv, ChanInv
<1>5. ChanInv(c, t, app)
    BY <1>2, <1>4 DEF StreamInv, ChanInv
<1>6. FlowInv(p, c, t, d, s, app)
    BY <1>2, <1>3, <1>4 DEF StreamInv, FlowInv, OneIf
<1>7. Tidy(c, r) /\ Tidy(c, t)
    BY <1>3, <1>4 DEF Tidy
<1>8. Len(c.q) = 0 /\ ~HasEnd(c.q)
    BY <1>4 DEF HasEnd
<1>9. ~s.over /\ s.elems = s.n
    BY <1>3, <1>8 DEF StreamInv, EndInv
<1>10. EndInv(p, c, t, s, app)
    BY <1>2, <1>3, <1>4, <1>8, <1>9 DEF EndInv
<1> QED BY <1>1, <1>2, <1>4, <1>5, <1>6, <1>7, <1>10 DEF StreamInv

-----------------------------------------------------------------------------
(* The operations of the multiplexer                                       *)

MuxRec(m) ==
    m = [trie |-> m.trie, chan |-> m.chan, pend |-> m.pend, inbound |-> m.inbound,
         aborted |-> m.aborted, asleep |-> m.asleep]

\* What the choice from a singleton is
LEMMA OneIs == ASSUME NEW x PROVE One({x}) = x
BY DEF One

\* ... however the singleton is written.
LEMMA OneOf == ASSUME NEW S, NEW x, \A y : y \in S <=> y = x PROVE One(S) = x
<1>1. S = {x}
    OBVIOUS
<1> QED BY <1>1, OneIs

\* Waiting for room changes nothing but the flag, ...
LEMMA AsleepIs ==
    ASSUME NEW m, MuxRec(m), NEW v
    PROVE  LET w == [m EXCEPT !.asleep = v]
           IN  /\ MuxRec(w) /\ w.trie = m.trie /\ w.chan = m.chan
               /\ w.pend = m.pend /\ w.inbound = m.inbound /\ w.aborted = m.aborted
BY DEF MuxRec

\* ... and so does the end of it.
LEMMA WakeIs ==
    ASSUME NEW m, MuxRec(m)
    PROVE  /\ MuxRec(Wake(m)) /\ Wake(m).trie = m.trie /\ Wake(m).chan = m.chan
           /\ Wake(m).pend = m.pend /\ Wake(m).inbound = m.inbound /\ Wake(m).aborted = m.aborted
<1> DEFINE v == FALSE
           w == [m EXCEPT !.asleep = v]
<1>1. Wake(m) = w
    BY DEF Wake
<1> HIDE DEF v
<1>2. /\ MuxRec(w) /\ w.trie = m.trie /\ w.chan = m.chan
      /\ w.pend = m.pend /\ w.inbound = m.inbound /\ w.aborted = m.aborted
    BY AsleepIs
<1> HIDE DEF w
<1> QED BY <1>1, <1>2

\* `_uncount` changes nothing but the count of what is buffered.
LEMMA UncountIs ==
    ASSUME NEW m, MuxRec(m), m.pend \in [Path -> PendType], NEW ps
    PROVE  LET u == Uncount(m, ps)
           IN  /\ MuxRec(u) /\ u.trie = m.trie /\ u.chan = m.chan
               /\ u.inbound = m.inbound /\ u.aborted = m.aborted
               /\ u.pend \in [Path -> PendType]
               /\ \A p \in Path : /\ u.pend[p].in = m.pend[p].in /\ u.pend[p].at = m.pend[p].at
                                  /\ u.pend[p].closed = m.pend[p].closed
<1> DEFINE b(x) == IF \E p \in ps : x.pend[p].counted
                   THEN Wake([x EXCEPT !.pend = Replaced(@, ps, Uncounted)]) ELSE x
           u == Uncount(m, ps)
<1>1. u = b(m)
    <2>1. u = One({b(x) : x \in {m}})
        BY DEF Uncount
    <2> HIDE DEF b, u
    <2>2. \A y : y \in {b(x) : x \in {m}} <=> y = b(m)
        OBVIOUS
    <2> QED BY <2>1, <2>2, OneOf
<1>2. CASE u = m
    BY <1>2
<1>3. CASE u = Wake([m EXCEPT !.pend = Replaced(@, ps, Uncounted)])
    <2> DEFINE f == [p \in Path |-> IF p \in ps THEN [m.pend[p] EXCEPT !.counted = FALSE] ELSE m.pend[p]]
               w == [m EXCEPT !.pend = f]
    <2>1. u = Wake(w)
        BY <1>3 DEF Replaced, Uncounted
    <2>2. f \in [Path -> PendType]
        BY DEF PendType
    <2>3. \A p \in Path : f[p].in = m.pend[p].in /\ f[p].at = m.pend[p].at /\ f[p].closed = m.pend[p].closed
        BY DEF PendType
    <2> HIDE DEF f
    <2>4. /\ MuxRec(w) /\ w.trie = m.trie /\ w.chan = m.chan
          /\ w.inbound = m.inbound /\ w.aborted = m.aborted /\ w.pend = f
        BY DEF MuxRec
    <2> HIDE DEF u, w
    <2>5. /\ MuxRec(u) /\ u.trie = m.trie /\ u.chan = m.chan /\ u.pend = f
          /\ u.inbound = m.inbound /\ u.aborted = m.aborted
        BY <2>1, <2>4, WakeIs
    <2> QED BY <2>2, <2>3, <2>5 DEF u
<1> QED BY <1>1, <1>2, <1>3

\* A multiplexer that was aborted is.
LEMMA AbortIs ==
    ASSUME NEW m, MuxRec(m), m.aborted \in BOOLEAN
    PROVE  MuxRec(Abort(m)) /\ Abort(m).aborted = TRUE
<1> DEFINE c(x) == CloseInbound(x, "failed")
           b(x) == IF x.aborted THEN x ELSE [Wake(c(x)) EXCEPT !.aborted = TRUE, !.inbound = "failed"]
<1>1. Abort(m) = b(m)
    <2>1. Abort(m) = One({b(x) : x \in {m}})
        BY DEF Abort
    <2> HIDE DEF b
    <2>2. \A y : y \in {b(x) : x \in {m}} <=> y = b(m)
        OBVIOUS
    <2> QED BY <2>1, <2>2, OneOf
<1>2. MuxRec(c(m))
    BY DEF MuxRec, CloseInbound, CloseChans
<1> HIDE DEF c
<1>3. MuxRec(Wake(c(m)))
    BY <1>2, WakeIs
<1>4. CASE m.aborted
    BY <1>1, <1>4
<1>5. CASE ~m.aborted
    <2>1. Abort(m) = [Wake(c(m)) EXCEPT !.aborted = TRUE, !.inbound = "failed"]
        BY <1>1, <1>5
    <2> QED BY <1>3, <2>1 DEF MuxRec
<1> QED BY <1>4, <1>5

-----------------------------------------------------------------------------
\* Where a lookup stops, in a trie with the nodes D.
Closed(D) == <<>> \in D /\ D \subseteq Path /\ \A p \in D : Prefixes(p) \subseteq D
StopsIn(D, p, n) == n \in D /\ n \in Prefixes(p) /\ n # p /\ ChildAt(p, n) \notin D

\* A lookup stops at the longest prefix that has a node: ...
LEMMA StopIs ==
    ASSUME NEW m, NEW p \in Path, NEW n \in Prefixes(p), n \in DOMAIN m.trie,
           \A x \in Prefixes(p) : x \in DOMAIN m.trie => Len(x) <= Len(n)
    PROVE  Stop(m, p) = n
<1> DEFINE s == Stop(m, p)
           P(y) == y \in Prefixes(p) /\ Has(m, y) /\ \A x \in Prefixes(p) : Has(m, x) => Len(x) <= Len(y)
<1>1. P(n)
    BY DEF Has
<1>2. P(s)
    <2>1. \E y \in Prefixes(p) : Has(m, y) /\ \A x \in Prefixes(p) : Has(m, x) => Len(x) <= Len(y)
        BY <1>1
    <2> QED BY <2>1 DEF Stop
<1> HIDE DEF s
<1>3. s \in Prefixes(p) /\ Len(s) <= Len(n) /\ Len(n) <= Len(s)
    BY <1>1, <1>2
<1>4. s \in Prefixes(n) /\ Len(s) = Len(n)
    BY <1>3, PrefixChain, PrefixFacts
<1> QED BY <1>4, PrefixFacts DEF s

\* ... at the path itself, if it has one, ...
LEMMA StopKnown ==
    ASSUME NEW m, NEW p \in Path, p \in DOMAIN m.trie
    PROVE  Stop(m, p) = p
<1>1. p \in Prefixes(p) /\ \A x \in Prefixes(p) : Len(x) <= Len(p)
    BY PrefixSelf, PrefixFacts
<1> QED BY <1>1, StopIs

\* ... or above the first child that is missing.
LEMMA StopMissing ==
    ASSUME NEW m, Closed(DOMAIN m.trie), NEW p \in Path, NEW n, StopsIn(DOMAIN m.trie, p, n)
    PROVE  Stop(m, p) = n
<1>1. n \in DOMAIN m.trie /\ n \in Prefixes(p) /\ n # p /\ ChildAt(p, n) \notin DOMAIN m.trie
    BY DEF StopsIn
<1>2. ASSUME NEW x \in Prefixes(p), x \in DOMAIN m.trie PROVE Len(x) <= Len(n)
    <2>1. SUFFICES ASSUME ~(Len(x) <= Len(n)) PROVE FALSE
        OBVIOUS
    <2>2. Len(n) < Len(x)
        BY <1>1, <2>1, PrefixFacts
    <2>3. ChildAt(p, n) \in Prefixes(x)
        BY <1>1, <2>2, BeyondChild
    <2> QED BY <1>1, <1>2, <2>3 DEF Closed
<1> QED BY <1>1, <1>2, StopIs

\* It stops at one node only.
LEMMA StopsUnique ==
    ASSUME NEW D, Closed(D), NEW p \in Path, NEW n, StopsIn(D, p, n), NEW x, StopsIn(D, p, x)
    PROVE  n = x
<1>1. DOMAIN [y \in D |-> y] = D
    OBVIOUS
<1> DEFINE m == [trie |-> [y \in D |-> y]]
<1>2. DOMAIN m.trie = D
    BY <1>1
<1> HIDE DEF m
<1> QED BY <1>2, StopMissing

\* The lookup of a path without node stops at one.
LEMMA StopsSomewhere ==
    ASSUME NEW D, Closed(D), NEW p \in Path, p \notin D
    PROVE  \E n \in Path : StopsIn(D, p, n)
<1> DEFINE T == {Len(p) - Len(x) : x \in Prefixes(p) \cap D}
<1>1. Len(p) \in Nat /\ \A x \in Prefixes(p) : Len(x) \in Nat /\ Len(x) <= Len(p)
    BY PathSeq, PrefixFacts
<1>2. T \subseteq Nat
    BY <1>1
<1>3. T # {}
    <2>1. <<>> \in Prefixes(p) \cap D
        BY PrefixSelf DEF Closed
    <2> QED BY <2>1
<1>4. PICK k \in T : \A y \in T : k <= y
    <2>1. PICK x \in T : \A y \in T : ~(<<y, x>> \in OpToRel(<, Nat))
        BY <1>2, <1>3, NatLessThanWellFounded, WFMin
    <2>2. \A y \in T : ~(y < x)
        BY <1>2, <2>1 DEF OpToRel
    <2> HIDE DEF T
    <2>3. \A y \in T : x <= y
        BY <1>2, <2>2
    <2> QED BY <2>3
<1>5. PICK n \in Prefixes(p) \cap D : k = Len(p) - Len(n)
    OBVIOUS
<1>6. n # p /\ n \in Path
    BY <1>5, PrefixFacts
<1>7. ChildAt(p, n) \notin D
    <2>1. SUFFICES ASSUME ChildAt(p, n) \in D PROVE FALSE
        OBVIOUS
    <2>2. ChildAt(p, n) \in Prefixes(p) /\ Len(ChildAt(p, n)) = Len(n) + 1
        BY <1>5, <1>6, ChildFacts
    <2>3. Len(p) - Len(ChildAt(p, n)) \in T
        BY <2>1, <2>2
    <2> HIDE DEF T
    <2>4. k <= Len(p) - Len(ChildAt(p, n))
        BY <1>4, <2>3
    <2> QED BY <1>1, <1>5, <2>2, <2>4
<1> QED BY <1>5, <1>6, <1>7 DEF StopsIn

-----------------------------------------------------------------------------
(* What each operation of the multiplexer leaves                           *)

\* u is m but for its channels and buffered data.
Like(u, m) == MuxRec(u) /\ u.trie = m.trie /\ u.inbound = m.inbound /\ u.aborted = m.aborted
PendLike(u, m) ==
    /\ u.pend \in [Path -> PendType]
    /\ \A p \in Path : u.pend[p].at = m.pend[p].at /\ u.pend[p].closed = m.pend[p].closed

\* A field of the multiplexer is replaced: what is buffered, ...
LEMMA PendSet ==
    ASSUME NEW m, MuxRec(m), NEW f
    PROVE  LET w == [m EXCEPT !.pend = f] IN Like(w, m) /\ w.chan = m.chan /\ w.pend = f
BY DEF MuxRec, Like

\* ... the channels, ...
LEMMA ChanSet ==
    ASSUME NEW m, MuxRec(m), NEW f
    PROVE  LET w == [m EXCEPT !.chan = f] IN Like(w, m) /\ w.chan = f /\ w.pend = m.pend
BY DEF MuxRec, Like

\* ... the trie.
LEMMA TrieSet ==
    ASSUME NEW m, MuxRec(m), NEW f
    PROVE  LET w == [m EXCEPT !.trie = f]
           IN  /\ MuxRec(w) /\ w.trie = f /\ w.chan = m.chan /\ w.pend = m.pend
               /\ w.inbound = m.inbound /\ w.aborted = m.aborted
BY DEF MuxRec

\* `_uncount` does not fail the invocation.
LEMMA UncountAborted ==
    ASSUME NEW m, MuxRec(m), NEW ps
    PROVE  MuxRec(Uncount(m, ps)) /\ Uncount(m, ps).aborted = m.aborted
<1> DEFINE f(x) == Replaced(x.pend, ps, Uncounted)
           b(x) == IF \E p \in ps : x.pend[p].counted THEN Wake([x EXCEPT !.pend = f(x)]) ELSE x
<1>1. Uncount(m, ps) = b(m)
    <2>1. Uncount(m, ps) = One({b(x) : x \in {m}})
        BY DEF Uncount
    <2> HIDE DEF b
    <2>2. \A y : y \in {b(x) : x \in {m}} <=> y = b(m)
        OBVIOUS
    <2> QED BY <2>1, <2>2, OneOf
<1>2. Uncount(m, ps) = m \/ Uncount(m, ps) = Wake([m EXCEPT !.pend = f(m)])
    BY <1>1
<1> HIDE DEF f
<1> DEFINE w == [m EXCEPT !.pend = f(m)]
<1>3. MuxRec(w) /\ w.aborted = m.aborted
    BY PendSet DEF Like
<1> HIDE DEF w
<1>4. MuxRec(Wake(w)) /\ Wake(w).aborted = m.aborted
    BY <1>3, WakeIs
<1> QED BY <1>2, <1>4 DEF w

\* The invocation fails exactly if there is a reason.
LEMMA AbortIfIs ==
    ASSUME NEW m, MuxRec(m), m.aborted \in BOOLEAN, NEW b \in BOOLEAN
    PROVE  /\ MuxRec(AbortIf(b, m)) /\ AbortIf(b, m).aborted \in BOOLEAN
           /\ AbortIf(b, m).aborted <=> m.aborted \/ b
           /\ ~b => AbortIf(b, m) = m
<1>1. CASE b
    <2>1. AbortIf(b, m) = Abort(m)
        BY <1>1 DEF AbortIf
    <2>2. MuxRec(Abort(m)) /\ Abort(m).aborted = TRUE
        BY AbortIs
    <2> QED BY <1>1, <2>1, <2>2
<1>2. CASE ~b
    <2>1. AbortIf(b, m) = m
        BY <1>2 DEF AbortIf
    <2> QED BY <1>2, <2>1
<1> QED BY <1>1, <1>2

\* `_takePending`: what is buffered for ps is buffered no more.
LEMMA TakePendingIs ==
    ASSUME NEW m, MuxRec(m), m.pend \in [Path -> PendType], NEW ps
    PROVE  LET u == TakePending(m, ps)
           IN  /\ Like(u, m) /\ u.chan = m.chan /\ PendLike(u, m)
               /\ \A p \in Path : u.pend[p].in <=> m.pend[p].in /\ p \notin ps
<1> DEFINE f == [p \in Path |-> IF p \in ps THEN [m.pend[p] EXCEPT !.in = FALSE] ELSE m.pend[p]]
           w == [m EXCEPT !.pend = f]
           u == TakePending(m, ps)
<1>1. u = Uncount(w, ps)
    BY DEF TakePending, Replaced, Out
<1>2. f \in [Path -> PendType]
    BY DEF PendType
<1>3. \A p \in Path : /\ f[p].in <=> m.pend[p].in /\ p \notin ps
                      /\ f[p].at = m.pend[p].at /\ f[p].closed = m.pend[p].closed
    BY DEF PendType
<1> HIDE DEF f
<1>4. Like(w, m) /\ w.chan = m.chan /\ w.pend = f
    BY PendSet
<1> HIDE DEF u, w
<1>5. /\ MuxRec(u) /\ u.trie = w.trie /\ u.chan = w.chan /\ u.inbound = w.inbound /\ u.aborted = w.aborted
      /\ u.pend \in [Path -> PendType]
      /\ \A p \in Path : /\ u.pend[p].in = w.pend[p].in /\ u.pend[p].at = w.pend[p].at
                         /\ u.pend[p].closed = w.pend[p].closed
    BY <1>1, <1>2, <1>4, UncountIs DEF Like
<1>6. Like(u, m) /\ u.chan = m.chan
    BY <1>4, <1>5 DEF Like
<1>7. PendLike(u, m) /\ \A p \in Path : u.pend[p].in <=> m.pend[p].in /\ p \notin ps
    BY <1>3, <1>4, <1>5 DEF PendLike
<1> QED BY <1>6, <1>7 DEF u

\* Channels are dropped; what is left unread in them fails the invocation.
LEMMA DropIs ==
    ASSUME NEW m, MuxRec(m), m.aborted \in BOOLEAN, NEW ps
    PROVE  LET u == Drop(m, ps)
           IN  /\ MuxRec(u) /\ u.aborted \in BOOLEAN
               /\ u.aborted <=> m.aborted \/ \E p \in ps : m.chan[p].q # <<>>
               /\ ~u.aborted /\ m.pend \in [Path -> PendType] =>
                    /\ Like(u, m) /\ PendLike(u, m) /\ \A p \in Path : u.pend[p].in = m.pend[p].in
                    /\ u.chan = [p \in Path |-> IF p \in ps THEN Cancel(m.chan[p]) ELSE m.chan[p]]
<1> DEFINE g(x) == Replaced(x.chan, ps, Cancel)
           lost(x) == \E p \in ps : x.chan[p].q # <<>>
           b(x) == AbortIf(lost(x), Uncount([x EXCEPT !.chan = g(x)], ps))
           w == [m EXCEPT !.chan = g(m)]
           v == Uncount(w, ps)
           u == Drop(m, ps)
<1>1. u = b(m)
    <2>1. u = One({b(x) : x \in {m}})
        BY DEF Drop
    <2> HIDE DEF b, u
    <2>2. \A y : y \in {b(x) : x \in {m}} <=> y = b(m)
        OBVIOUS
    <2> QED BY <2>1, <2>2, OneOf
<1>2. g(m) = [p \in Path |-> IF p \in ps THEN Cancel(m.chan[p]) ELSE m.chan[p]]
    BY DEF Replaced
<1>3. u = AbortIf(lost(m), v) /\ lost(m) \in BOOLEAN
    BY <1>1
<1> HIDE DEF g
<1>4. Like(w, m) /\ w.chan = g(m) /\ w.pend = m.pend
    BY ChanSet
<1> HIDE DEF w
<1>5. MuxRec(v) /\ v.aborted = m.aborted
    BY <1>4, UncountAborted DEF Like
<1>6. m.pend \in [Path -> PendType] =>
        /\ MuxRec(v) /\ v.trie = w.trie /\ v.chan = w.chan /\ v.inbound = w.inbound /\ v.aborted = w.aborted
        /\ v.pend \in [Path -> PendType]
        /\ \A p \in Path : /\ v.pend[p].in = w.pend[p].in /\ v.pend[p].at = w.pend[p].at
                           /\ v.pend[p].closed = w.pend[p].closed
    BY <1>4, UncountIs DEF Like
<1> HIDE DEF v, u, b, lost
<1>7. /\ MuxRec(u) /\ u.aborted \in BOOLEAN /\ (u.aborted <=> v.aborted \/ lost(m))
      /\ ~lost(m) => u = v
    BY <1>3, <1>5, AbortIfIs
<1>8. ~u.aborted /\ m.pend \in [Path -> PendType] =>
        /\ Like(u, m) /\ PendLike(u, m) /\ \A p \in Path : u.pend[p].in = m.pend[p].in
        /\ u.chan = g(m)
    <2> HAVE ~u.aborted /\ m.pend \in [Path -> PendType]
    <2>1. u = v
        BY <1>7
    <2> QED BY <1>4, <1>6, <2>1 DEF Like, PendLike
<1> QED BY <1>2, <1>5, <1>7, <1>8 DEF u, lost

-----------------------------------------------------------------------------
\* The data buffered below `places`
Group(m, places) == {p \in Path : m.pend[p].in /\ ChildAt(p, m.pend[p].at) \in places}

\* u is m with this data moved to where its lookup stops.
IsSettled(u, m, places) ==
    /\ Like(u, m) /\ u.chan = m.chan /\ u.pend \in [Path -> PendType]
    /\ \A p \in Path :
        /\ u.pend[p].in = m.pend[p].in /\ u.pend[p].closed = m.pend[p].closed
        /\ u.pend[p].at = IF p \in Group(m, places) THEN Stop(m, p) ELSE m.pend[p].at

\* None of it is decided.
LEMMA SettleQuiet ==
    ASSUME NEW m, MuxRec(m), m.aborted = FALSE, m.pend \in [Path -> PendType],
           m.chan \in [Path -> ChanType], NEW places,
           \A p \in Group(m, places) : ~Unexpected(m, p) /\ Stop(m, p) # p /\ Stop(m, p) \in Path
    PROVE  IsSettled(Settle(m, places), m, places)
<1> DEFINE group(x) == {p \in Path : x.pend[p].in /\ ChildAt(p, x.pend[p].at) \in places}
           known(x) == {p \in group(x) : Stop(x, p) = p}
           moved(x) == [p \in Path |-> IF p \in known(x) THEN Out(x.pend[p])
                                       ELSE IF p \in group(x) THEN [x.pend[p] EXCEPT !.at = Stop(x, p)]
                                       ELSE x.pend[p]]
           b(x) == IF \E p \in group(x) : Unexpected(x, p)
                   THEN Abort(CloseChans([x EXCEPT !.pend = Replaced(@, group(x), Out)], group(x), "failed"))
                   ELSE Drop([x EXCEPT !.pend = moved(x)], known(x))
           w == [m EXCEPT !.pend = moved(m)]
           none == {}
           u == Settle(m, places)
<1>1. u = b(m)
    <2>1. u = One({b(x) : x \in {m}})
        BY DEF Settle
    <2> HIDE DEF b, u
    <2>2. \A y : y \in {b(x) : x \in {m}} <=> y = b(m)
        OBVIOUS
    <2> QED BY <2>1, <2>2, OneOf
<1>2. group(m) = Group(m, places)
    BY DEF Group
<1>3. known(m) = {}
    BY <1>2
<1>4. u = Drop(w, none)
    BY <1>1, <1>2, <1>3
<1>5. /\ moved(m) \in [Path -> PendType]
      /\ \A p \in Path : /\ moved(m)[p].in = m.pend[p].in /\ moved(m)[p].closed = m.pend[p].closed
                         /\ moved(m)[p].at = IF p \in Group(m, places) THEN Stop(m, p) ELSE m.pend[p].at
    <2> DEFINE f == [p \in Path |-> IF p \in Group(m, places) THEN [m.pend[p] EXCEPT !.at = Stop(m, p)]
                                    ELSE m.pend[p]]
    <2>1. moved(m) = f
        BY <1>2, <1>3
    <2>2. \A p \in Group(m, places) : Stop(m, p) \in Path
        OBVIOUS
    <2>3. \A p \in Path : /\ f[p] \in PendType /\ f[p].in = m.pend[p].in /\ f[p].closed = m.pend[p].closed
                          /\ f[p].at = IF p \in Group(m, places) THEN Stop(m, p) ELSE m.pend[p].at
        BY <2>2 DEF PendType
    <2>4. f \in [Path -> PendType]
        BY <2>3
    <2> HIDE DEF f, moved
    <2> QED BY <2>1, <2>3, <2>4
<1> HIDE DEF moved, known, group, b
<1>6. Like(w, m) /\ w.chan = m.chan /\ w.pend = moved(m)
    BY PendSet
<1> HIDE DEF w, u, none
<1>7. /\ MuxRec(u) /\ u.aborted \in BOOLEAN
      /\ u.aborted <=> w.aborted \/ \E p \in none : w.chan[p].q # <<>>
      /\ ~u.aborted /\ w.pend \in [Path -> PendType] =>
            /\ Like(u, w) /\ PendLike(u, w) /\ \A p \in Path : u.pend[p].in = w.pend[p].in
            /\ u.chan = [p \in Path |-> IF p \in none THEN Cancel(w.chan[p]) ELSE w.chan[p]]
    <2>1. MuxRec(w) /\ w.aborted \in BOOLEAN
        BY <1>6 DEF Like
    <2> QED BY <1>4, <2>1, DropIs
<1>8. /\ Like(u, w) /\ PendLike(u, w) /\ \A p \in Path : u.pend[p].in = w.pend[p].in
      /\ u.chan = w.chan
    BY <1>5, <1>6, <1>7 DEF Like, none
<1>9. Like(u, m) /\ u.chan = m.chan
    BY <1>6, <1>8 DEF Like
<1>10. /\ u.pend \in [Path -> PendType]
       /\ \A p \in Path :
            /\ u.pend[p].in = m.pend[p].in /\ u.pend[p].closed = m.pend[p].closed
            /\ u.pend[p].at = IF p \in Group(m, places) THEN Stop(m, p) ELSE m.pend[p].at
    BY <1>5, <1>6, <1>8 DEF PendLike
<1> QED BY <1>9, <1>10 DEF u, IsSettled

\* Some of it is known to be unexpected, or the invocation had failed.
LEMMA SettleLoud ==
    ASSUME NEW m, MuxRec(m), m.aborted \in BOOLEAN, NEW places,
           m.aborted \/ \E p \in Group(m, places) : Unexpected(m, p)
    PROVE  MuxRec(Settle(m, places)) /\ Settle(m, places).aborted = TRUE
<1> DEFINE group(x) == {p \in Path : x.pend[p].in /\ ChildAt(p, x.pend[p].at) \in places}
           known(x) == {p \in group(x) : Stop(x, p) = p}
           moved(x) == [p \in Path |-> IF p \in known(x) THEN Out(x.pend[p])
                                       ELSE IF p \in group(x) THEN [x.pend[p] EXCEPT !.at = Stop(x, p)]
                                       ELSE x.pend[p]]
           f(x) == Replaced(x.pend, group(x), Out)
           h(x) == CloseChans([x EXCEPT !.pend = f(x)], group(x), "failed")
           b(x) == IF \E p \in group(x) : Unexpected(x, p)
                   THEN Abort(h(x)) ELSE Drop([x EXCEPT !.pend = moved(x)], known(x))
           w == [m EXCEPT !.pend = moved(m)]
           u == Settle(m, places)
<1>1. u = b(m)
    <2>1. u = One({b(x) : x \in {m}})
        BY DEF Settle
    <2> HIDE DEF b, u
    <2>2. \A y : y \in {b(x) : x \in {m}} <=> y = b(m)
        OBVIOUS
    <2> QED BY <2>1, <2>2, OneOf
<1>2. group(m) = Group(m, places)
    BY DEF Group
<1>3. CASE \E p \in Group(m, places) : Unexpected(m, p)
    <2>1. u = Abort(h(m))
        BY <1>1, <1>2, <1>3
    <2> HIDE DEF f, group
    <2> DEFINE y == [m EXCEPT !.pend = f(m)]
    <2>2. Like(y, m)
        BY PendSet
    <2>3. h(m) = [y EXCEPT !.chan = Replaced(@, group(m), LAMBDA c : Close(c, "failed"))]
        BY DEF CloseChans
    <2> HIDE DEF y, h
    <2>4. Like(h(m), y)
        BY <2>2, <2>3, ChanSet DEF Like
    <2> QED BY <2>1, <2>2, <2>4, AbortIs DEF Like, u
<1>4. CASE ~\E p \in Group(m, places) : Unexpected(m, p)
    <2>1. u = Drop(w, known(m))
        BY <1>1, <1>2, <1>4
    <2> HIDE DEF moved, known
    <2>2. Like(w, m)
        BY PendSet
    <2> HIDE DEF w
    <2>3. MuxRec(u) /\ u.aborted = TRUE
        <3> HIDE DEF u
        <3> QED BY <1>4, <2>1, <2>2, DropIs DEF Like
    <2> QED BY <2>3
<1> QED BY <1>3, <1>4

-----------------------------------------------------------------------------
\* Sub-streams without a node are declared.
NodeOf(m, p, taken) ==
    [chan |-> TRUE, sealed |-> ~Nested(p), decided |-> 0, done |-> FALSE,
     closed |-> p \in taken /\ m.pend[p].closed]
ChanOf(m, p, taken) ==
    LET c == IF p \in taken THEN m.chan[p] ELSE NewChan
    IN  IF m.inbound = "open" THEN c ELSE Close(c, m.inbound)

\* The record of a new node.
LEMMA NodeSet ==
    ASSUME NEW a, NEW s, NEW c, NEW d, NEW e,
           NEW n, n = [chan |-> d, sealed |-> e, decided |-> 0, done |-> d, closed |-> d]
    PROVE  [n EXCEPT !.chan = a, !.sealed = s, !.closed = c] =
               [chan |-> a, sealed |-> s, decided |-> 0, done |-> d, closed |-> c]
<1> DEFINE x == [n EXCEPT !.chan = a]
           y == [x EXCEPT !.sealed = s]
           z == [y EXCEPT !.closed = c]
<1>1. [n EXCEPT !.chan = a, !.sealed = s, !.closed = c] = z
    OBVIOUS
<1>2. x = [chan |-> a, sealed |-> e, decided |-> 0, done |-> d, closed |-> d]
    OBVIOUS
<1> HIDE DEF x
<1>3. y = [chan |-> a, sealed |-> s, decided |-> 0, done |-> d, closed |-> d]
    BY <1>2
<1> HIDE DEF y
<1>4. z = [chan |-> a, sealed |-> s, decided |-> 0, done |-> d, closed |-> c]
    BY <1>3
<1> QED BY <1>1, <1>4

\* u is m with the nodes and the channels of ps.
IsDeclared(u, m, ps, taken) ==
    /\ MuxRec(u) /\ u.pend = m.pend /\ u.inbound = m.inbound /\ u.aborted = m.aborted
    /\ u.trie = [p \in DOMAIN u.trie |-> u.trie[p]] /\ DOMAIN u.trie = DOMAIN m.trie \cup ps
    /\ \A p \in ps : u.trie[p] = NodeOf(m, p, taken)
    /\ \A p \in DOMAIN m.trie : u.trie[p] = m.trie[p]
    /\ u.chan = [p \in Path |-> u.chan[p]]
    /\ \A p \in Path : u.chan[p] = IF p \in ps THEN ChanOf(m, p, taken) ELSE m.chan[p]

\* `_declare` adds the nodes and the channels.
LEMMA DeclareIs ==
    ASSUME NEW m, MuxRec(m), NEW ps, ps \cap DOMAIN m.trie = {}, NEW taken
    PROVE  IsDeclared(Declare(m, ps, taken), m, ps, taken)
<1> DEFINE fresh(x) == {p \in ps : ~(Has(x, p) /\ x.trie[p].chan)}
           new(x, p) == [NewNode EXCEPT !.chan = TRUE, !.sealed = ~Nested(p),
                                        !.closed = (p \in taken /\ x.pend[p].closed)]
           chan(x, p) == IF p \in taken THEN x.chan[p] ELSE NewChan
           t(x) == [p \in DOMAIN x.trie \cup ps |-> IF p \in fresh(x) THEN new(x, p) ELSE x.trie[p]]
           c(x) == [p \in Path |-> IF p \notin fresh(x) THEN x.chan[p]
                                   ELSE IF x.inbound = "open" THEN chan(x, p)
                                   ELSE Close(chan(x, p), x.inbound)]
           b(x) == [x EXCEPT !.trie = t(x), !.chan = c(x)]
           u == Declare(m, ps, taken)
<1>1. u = b(m)
    <2>1. u = One({b(x) : x \in {m}})
        BY DEF Declare
    <2> HIDE DEF b, u
    <2>2. \A y : y \in {b(x) : x \in {m}} <=> y = b(m)
        OBVIOUS
    <2> QED BY <2>1, <2>2, OneOf
<1>2. fresh(m) = ps
    BY DEF Has
<1>3. \A p \in ps : new(m, p) = NodeOf(m, p, taken)
    <2>1. NewNode = [chan |-> FALSE, sealed |-> TRUE, decided |-> 0, done |-> FALSE, closed |-> FALSE]
        BY DEF NewNode
    <2> SUFFICES ASSUME NEW p \in ps PROVE new(m, p) = NodeOf(m, p, taken)
        OBVIOUS
    <2> DEFINE yes == TRUE
               no == FALSE
               s == ~Nested(p)
               k == p \in taken /\ m.pend[p].closed
    <2>2. new(m, p) = [NewNode EXCEPT !.chan = yes, !.sealed = s, !.closed = k]
        OBVIOUS
    <2>3. NodeOf(m, p, taken) = [chan |-> yes, sealed |-> s, decided |-> 0, done |-> no, closed |-> k]
        BY DEF NodeOf
    <2> HIDE DEF yes, s, k, no, new
    <2>4. NewNode = [chan |-> no, sealed |-> yes, decided |-> 0, done |-> no, closed |-> no]
        BY <2>1 DEF yes, no
    <2> QED BY <2>2, <2>3, <2>4, NodeSet
<1>4. t(m) = [p \in DOMAIN m.trie \cup ps |-> IF p \in ps THEN NodeOf(m, p, taken) ELSE m.trie[p]]
    <2> HIDE DEF fresh, new
    <2> QED BY <1>2, <1>3
<1>5. c(m) = [p \in Path |-> IF p \in ps THEN ChanOf(m, p, taken) ELSE m.chan[p]]
    <2> HIDE DEF fresh
    <2> QED BY <1>2 DEF ChanOf
<1> HIDE DEF fresh, new, chan, t, c
<1>6. b(m) = [m EXCEPT !.trie = t(m), !.chan = c(m)]
    OBVIOUS
<1> HIDE DEF b
<1>7. /\ MuxRec(b(m)) /\ b(m).pend = m.pend /\ b(m).inbound = m.inbound /\ b(m).aborted = m.aborted
      /\ b(m).trie = t(m) /\ b(m).chan = c(m)
    BY <1>6 DEF MuxRec
<1> HIDE DEF b, u
<1>8. /\ MuxRec(u) /\ u.pend = m.pend /\ u.inbound = m.inbound /\ u.aborted = m.aborted
      /\ u.trie = t(m) /\ u.chan = c(m)
    BY <1>1, <1>7
<1> DEFINE N(p) == NodeOf(m, p, taken)
           C(p) == ChanOf(m, p, taken)
<1>9. u.trie = [p \in DOMAIN m.trie \cup ps |-> IF p \in ps THEN N(p) ELSE m.trie[p]]
    BY <1>4, <1>8
<1>10. u.chan = [p \in Path |-> IF p \in ps THEN C(p) ELSE m.chan[p]]
    BY <1>5, <1>8
<1> HIDE DEF N, C
<1>11. /\ u.trie = [p \in DOMAIN u.trie |-> u.trie[p]] /\ DOMAIN u.trie = DOMAIN m.trie \cup ps
       /\ \A p \in ps : u.trie[p] = N(p)
       /\ \A p \in DOMAIN m.trie : u.trie[p] = m.trie[p]
    BY <1>9
<1>12. /\ u.chan = [p \in Path |-> u.chan[p]]
       /\ \A p \in Path : u.chan[p] = IF p \in ps THEN C(p) ELSE m.chan[p]
    BY <1>10
<1> QED BY <1>8, <1>11, <1>12 DEF u, N, C, IsDeclared

\* The nodes pruned after the stream p of the trie t ended.
KidsIn(t, p) == {c \in DOMAIN t : Len(c) = Len(p) + 1 /\ Front(c) = p}
GoneIn(t, p) ==
    {x \in Prefixes(p) \ {<<>>} :
        \A y \in Prefixes(p) : Len(y) >= Len(x) =>
            y \in DOMAIN t /\ (~t[y].chan \/ t[y].done) /\ KidsIn(t, y) \subseteq Prefixes(p)}

\* `_prune` removes nodes and nothing else.
LEMMA PruneIs ==
    ASSUME NEW m, MuxRec(m), NEW p
    PROVE  LET u == Prune(m, p)
           IN  /\ MuxRec(u) /\ u.chan = m.chan /\ u.pend = m.pend
               /\ u.inbound = m.inbound /\ u.aborted = m.aborted
               /\ u.trie = [x \in DOMAIN m.trie \ GoneIn(m.trie, p) |-> m.trie[x]]
<1> DEFINE over(z, x) == ~z.trie[x].chan \/ z.trie[x].done
           gone(z) == {x \in Prefixes(p) \ {<<>>} :
                        \A y \in Prefixes(p) : Len(y) >= Len(x) =>
                            Has(z, y) /\ over(z, y) /\ Children(z, y) \subseteq Prefixes(p)}
           t(z) == [x \in DOMAIN z.trie \ gone(z) |-> z.trie[x]]
           b(z) == [z EXCEPT !.trie = t(z)]
           u == Prune(m, p)
<1>1. u = b(m)
    <2>1. u = One({b(z) : z \in {m}})
        BY DEF Prune
    <2> HIDE DEF b, u
    <2>2. \A y : y \in {b(x) : x \in {m}} <=> y = b(m)
        OBVIOUS
    <2> QED BY <2>1, <2>2, OneOf
<1>2. gone(m) = GoneIn(m.trie, p)
    BY DEF GoneIn, Has, Children, KidsIn
<1>3. t(m) = [x \in DOMAIN m.trie \ GoneIn(m.trie, p) |-> m.trie[x]]
    <2> HIDE DEF gone
    <2> QED BY <1>2
<1> HIDE DEF t
<1>4. /\ MuxRec(b(m)) /\ b(m).chan = m.chan /\ b(m).pend = m.pend /\ b(m).inbound = m.inbound
      /\ b(m).aborted = m.aborted /\ b(m).trie = t(m)
    BY TrieSet
<1> HIDE DEF b, u
<1> QED BY <1>1, <1>3, <1>4 DEF u

\* The inbound side ends.
LEMMA CloseInboundIs ==
    ASSUME NEW m, MuxRec(m), m.inbound = "open"
    PROVE  LET u == CloseInbound(m, "eof")
           IN  /\ MuxRec(u) /\ u.trie = m.trie /\ u.pend = m.pend /\ u.aborted = m.aborted
               /\ u.inbound = "eof"
               /\ u.chan = [p \in Path |-> IF p \in Chans(m) THEN Close(m.chan[p], "eof") ELSE m.chan[p]]
<1> DEFINE f == [p \in Path |-> IF p \in Chans(m) THEN Close(m.chan[p], "eof") ELSE m.chan[p]]
           u == CloseInbound(m, "eof")
<1>1. u = [[m EXCEPT !.chan = f] EXCEPT !.inbound = "eof"]
    BY DEF CloseInbound, CloseChans, Replaced
<1> HIDE DEF f
<1>2. /\ MuxRec(u) /\ u.trie = m.trie /\ u.pend = m.pend /\ u.aborted = m.aborted
      /\ u.inbound = "eof" /\ u.chan = f
    BY <1>1 DEF MuxRec
<1> HIDE DEF u
<1> QED BY <1>2 DEF f, u

-----------------------------------------------------------------------------
\* The parent and the index of an element.
LEMMA AppendFront ==
    ASSUME NEW p \in Path, NEW i \in Index
    PROVE  Front(Append(p, i)) = p /\ Last(Append(p, i)) = i
<1>1. p \in Seq(Index) /\ Len(p) \in Nat
    BY PathSeq
<1>2. /\ Append(p, i) \in Seq(Index) /\ Len(Append(p, i)) = Len(p) + 1
      /\ Append(p, i)[Len(p) + 1] = i
    BY <1>1
<1>3. Front(Append(p, i)) = SubSeq(Append(p, i), 1, Len(p))
    BY <1>1, <1>2 DEF Front
<1>4. SubSeq(Append(p, i), 1, Len(p)) = p
    BY <1>1
<1> QED BY <1>2, <1>3, <1>4 DEF Last

\* The children a lookup may miss at n
LEMMA ChildAppend ==
    ASSUME NEW p \in Path, NEW n \in Prefixes(p), n # p
    PROVE  /\ ChildAt(p, n) = Append(n, p[Len(n) + 1]) /\ p[Len(n) + 1] \in Index /\ Nested(n)
           /\ n \in Path
<1>1. /\ n \in Path /\ Len(n) < Len(p) /\ Len(n) \in Nat /\ Len(p) \in Nat
      /\ \A k \in 1..Len(n) : n[k] = p[k]
    BY PrefixFacts, PrefixIs
<1>2. p[Len(n) + 1] \in Index /\ Nested(n) /\ Len(p) \in 0..Depth /\ Depth \in Nat
    <2>1. Len(n) + 1 \in 1..Len(p)
        BY <1>1
    <2> QED BY <1>1, <2>1, PathSeq DEF Nested
<1> DEFINE a == Append(n, p[Len(n) + 1])
           c == ChildAt(p, n)
<1>3. n \in Seq(Index)
    BY <1>1, PathSeq
<1>4. a \in Seq(Index) /\ Len(a) = Len(n) + 1 /\ \A k \in 1..Len(a) : a[k] = IF k <= Len(n) THEN n[k] ELSE p[Len(n) + 1]
    BY <1>2, <1>3
<1>5. /\ c \in Path /\ Len(c) = Len(n) + 1 /\ \A k \in 1..Len(c) : c[k] = p[k]
    BY <1>1, SubPath DEF ChildAt
<1> HIDE DEF a, c
<1>6. a \in Path
    <2>1. Len(a) <= Depth
        BY <1>1, <1>2, <1>4
    <2> QED BY <1>4, <2>1, SeqPath
<1>7. \A k \in 1..Len(a) : a[k] = c[k]
    BY <1>1, <1>4, <1>5
<1>8. a = c
    BY <1>4, <1>5, <1>6, <1>7, PathEqual
<1> QED BY <1>1, <1>2, <1>8 DEF a, c

-----------------------------------------------------------------------------
Ended(n) == [n EXCEPT !.sealed = TRUE, !.done = TRUE]
EndedIn(t, p) == [x \in DOMAIN t |-> IF x = p THEN Ended(t[x]) ELSE t[x]]

\* A node that ended is sealed and done, and otherwise as it was.
LEMMA EndedIs ==
    ASSUME NEW n \in NodeType
    PROVE  /\ Ended(n) \in NodeType /\ Ended(n).sealed = TRUE /\ Ended(n).done = TRUE
           /\ Ended(n).decided = n.decided /\ Ended(n).closed = n.closed /\ Ended(n).chan = n.chan
BY DEF NodeType, Ended

\* u is m with the stream p ended, unless the invocation failed.
IsFinished(u, m, p) ==
    /\ MuxRec(u) /\ u.aborted \in BOOLEAN
    /\ u.aborted <=> m.chan[p].q # <<>> \/ \E x \in Path : m.pend[x].in /\ m.pend[x].at = p
    /\ ~u.aborted =>
        /\ u.inbound = m.inbound /\ PendLike(u, m) /\ \A x \in Path : u.pend[x].in = m.pend[x].in
        /\ u.chan = [m.chan EXCEPT ![p] = Close(@, "eof")]
        /\ u.trie = [x \in DOMAIN m.trie \ GoneIn(EndedIn(m.trie, p), p) |-> EndedIn(m.trie, p)[x]]

\* A stream ends: what is left unread, or buffered below it, fails the
\* invocation.
LEMMA FinishIs ==
    ASSUME NEW m, MuxRec(m), m.aborted = FALSE, m.pend \in [Path -> PendType],
           m.chan \in [Path -> ChanType], Closed(DOMAIN m.trie),
           m.trie = [x \in DOMAIN m.trie |-> m.trie[x]],
           \A x \in DOMAIN m.trie : m.trie[x] \in NodeType,
           \A x \in Path : m.pend[x].in => StopsIn(DOMAIN m.trie, x, m.pend[x].at),
           NEW p \in Path, p \in DOMAIN m.trie
    PROVE  IsFinished(Finish(m, p), m, p)
<1> DEFINE places == {Append(p, i) : i \in Index}
           lost(z) == z.chan[p].q # <<>>
           read(z) == AbortIf(lost(z), z)
           ended(z) == [read(z) EXCEPT !.trie[p].sealed = TRUE, !.trie[p].done = TRUE,
                                       !.chan[p] = Close(@, "eof")]
           b(z) == IF Has(z, p) THEN Wake(Prune(Settle(ended(z), places), p)) ELSE read(z)
           u == Finish(m, p)
           r == read(m)
           e == ended(m)
           s == Settle(e, places)
           v == Prune(s, p)
<1>1. u = Wake(v)
    <2>1. u = One({b(z) : z \in {m}})
        BY DEF Finish
    <2>2. b(m) = Wake(v)
        BY DEF Has
    <2> HIDE DEF b, u, v
    <2>3. \A y : y \in {b(z) : z \in {m}} <=> y = b(m)
        OBVIOUS
    <2> QED BY <2>1, <2>2, <2>3, OneOf
<1>2. /\ MuxRec(r) /\ r.aborted \in BOOLEAN /\ (r.aborted <=> lost(m)) /\ (~lost(m) => r = m)
    BY AbortIfIs
<1>3. e = [r EXCEPT !.trie[p].sealed = TRUE, !.trie[p].done = TRUE, !.chan[p] = Close(@, "eof")]
    OBVIOUS
<1> HIDE DEF r, e, read, ended, b
<1>4. /\ MuxRec(e) /\ e.aborted = r.aborted /\ e.pend = r.pend /\ e.inbound = r.inbound
      /\ e.trie = [r.trie EXCEPT ![p].sealed = TRUE, ![p].done = TRUE]
      /\ e.chan = [r.chan EXCEPT ![p] = Close(@, "eof")]
    <2> DEFINE y == TRUE
               w1 == [r EXCEPT !.trie[p].sealed = y]
               w2 == [w1 EXCEPT !.trie[p].done = y]
               w3 == [w2 EXCEPT !.chan[p] = Close(@, "eof")]
               f == [r.trie EXCEPT ![p].sealed = y]
               h == [f EXCEPT ![p].done = y]
               g == [r.chan EXCEPT ![p] = Close(@, "eof")]
    <2>1. e = [r EXCEPT !.trie[p].sealed = y, !.trie[p].done = y, !.chan[p] = Close(@, "eof")]
        BY <1>3
    <2> HIDE DEF y
    <2>2. e = w3
        BY <1>2, <2>1
    <2>3. w1 = [r EXCEPT !.trie = f]
        BY <1>2
    <2> HIDE DEF f, w1
    <2>4. Like(w1, w1) /\ w1.trie = f /\ w1.chan = r.chan /\ w1.pend = r.pend
          /\ w1.inbound = r.inbound /\ w1.aborted = r.aborted
        BY <1>2, <2>3 DEF MuxRec, Like
    <2>5. w2 = [w1 EXCEPT !.trie = h]
        BY <2>4 DEF Like
    <2> HIDE DEF h, w2
    <2>6. Like(w2, w2) /\ w2.trie = h /\ w2.chan = r.chan /\ w2.pend = r.pend
          /\ w2.inbound = r.inbound /\ w2.aborted = r.aborted
        BY <2>4, <2>5 DEF MuxRec, Like
    <2>7. w3 = [w2 EXCEPT !.chan = g]
        BY <2>6 DEF Like
    <2> HIDE DEF g, w3
    <2>8. MuxRec(w3) /\ w3.trie = h /\ w3.chan = g /\ w3.pend = r.pend
          /\ w3.inbound = r.inbound /\ w3.aborted = r.aborted
        BY <2>6, <2>7 DEF MuxRec, Like
    <2>9. h = [r.trie EXCEPT ![p].sealed = TRUE, ![p].done = TRUE]
        BY DEF h, f, y
    <2> QED BY <2>2, <2>8, <2>9 DEF g
<1> HIDE DEF u, v, s
<1>5. CASE lost(m)
    <2>1. e.aborted = TRUE /\ MuxRec(e)
        BY <1>2, <1>4, <1>5
    <2>2. MuxRec(s) /\ s.aborted = TRUE
        BY <2>1, SettleLoud DEF s
    <2>3. MuxRec(v) /\ v.aborted = TRUE
        BY <2>2, PruneIs DEF v
    <2>4. MuxRec(u) /\ u.aborted = TRUE
        BY <1>1, <2>3, WakeIs
    <2> QED BY <1>5, <2>4 DEF u, IsFinished
<1>6. CASE ~lost(m)
    <2> DEFINE t == EndedIn(m.trie, p)
    <2>1. r = m
        BY <1>2, <1>6
    <2>2. e.trie = t
        BY <1>4, <2>1 DEF EndedIn, Ended
    <2>3. DOMAIN t = DOMAIN m.trie /\ t[p].sealed = TRUE /\ \A x \in DOMAIN t : t[x] \in NodeType
        BY EndedIs DEF EndedIn
    <2> HIDE DEF t
    <2>4. /\ MuxRec(e) /\ e.aborted = FALSE /\ e.pend = m.pend /\ e.inbound = m.inbound /\ e.trie = t
          /\ e.chan = [m.chan EXCEPT ![p] = Close(@, "eof")]
        BY <1>4, <2>1, <2>2
    <2>5. \A x \in Group(e, places) : m.pend[x].in /\ m.pend[x].at = p
        <3> SUFFICES ASSUME NEW x \in Group(e, places) PROVE m.pend[x].in /\ m.pend[x].at = p
            OBVIOUS
        <3>1. x \in Path /\ m.pend[x].in /\ ChildAt(x, m.pend[x].at) \in places
            BY <2>4 DEF Group
        <3>2. PICK i \in Index : ChildAt(x, m.pend[x].at) = Append(p, i)
            BY <3>1
        <3>3. m.pend[x].at \in Prefixes(x) /\ m.pend[x].at # x
            BY <3>1 DEF StopsIn
        <3>4. Front(ChildAt(x, m.pend[x].at)) = m.pend[x].at
            BY <3>1, <3>3, ChildFacts
        <3> QED BY <3>1, <3>2, <3>4, AppendFront
    <2>6. \A x \in Path : m.pend[x].in /\ m.pend[x].at = p => x \in Group(e, places) /\ Unexpected(e, x)
        <3> SUFFICES ASSUME NEW x \in Path, m.pend[x].in, m.pend[x].at = p
                     PROVE  x \in Group(e, places) /\ Unexpected(e, x)
            OBVIOUS
        <3>1. StopsIn(DOMAIN m.trie, x, p)
            OBVIOUS
        <3>2. p \in Prefixes(x) /\ p # x
            BY <3>1 DEF StopsIn
        <3>3. ChildAt(x, p) \in places
            BY <3>2, ChildAppend
        <3>4. Stop(e, x) = p
            <4>1. DOMAIN e.trie = DOMAIN m.trie
                BY <2>3, <2>4
            <4>2. Closed(DOMAIN e.trie) /\ StopsIn(DOMAIN e.trie, x, p)
                BY <3>1, <4>1
            <4> QED BY <4>2, StopMissing
        <3>5. Unexpected(e, x)
            BY <2>3, <2>4, <3>2, <3>4 DEF Unexpected
        <3> QED BY <2>4, <3>3, <3>5 DEF Group
    <2> HIDE DEF places, lost
    <2>7. CASE \E x \in Path : m.pend[x].in /\ m.pend[x].at = p
        <3>1. MuxRec(s) /\ s.aborted = TRUE
            BY <2>4, <2>6, <2>7, SettleLoud DEF s
        <3>2. MuxRec(v) /\ v.aborted = TRUE
            BY <3>1, PruneIs DEF v
        <3>3. MuxRec(u) /\ u.aborted = TRUE
            BY <1>1, <3>2, WakeIs
        <3> QED BY <2>7, <3>3 DEF u, IsFinished
    <2>8. CASE ~\E x \in Path : m.pend[x].in /\ m.pend[x].at = p
        <3>1. Group(e, places) = {}
            BY <2>5, <2>8 DEF Group
        <3>2. e.chan \in [Path -> ChanType]
            <4>1. Close(m.chan[p], "eof") \in ChanType
                BY DEF ChanType, Close
            <4> QED BY <2>4, <4>1
        <3>3. /\ Like(s, e) /\ s.chan = e.chan /\ s.pend \in [Path -> PendType]
              /\ \A x \in Path :
                    /\ s.pend[x].in = e.pend[x].in /\ s.pend[x].closed = e.pend[x].closed
                    /\ s.pend[x].at = IF x \in Group(e, places) THEN Stop(e, x) ELSE e.pend[x].at
            BY <2>4, <3>1, <3>2, SettleQuiet DEF s, IsSettled
        <3>4. /\ MuxRec(v) /\ v.chan = s.chan /\ v.pend = s.pend /\ v.inbound = s.inbound
              /\ v.aborted = s.aborted
              /\ v.trie = [x \in DOMAIN s.trie \ GoneIn(s.trie, p) |-> s.trie[x]]
            BY <3>3, PruneIs DEF v, Like
        <3>5. /\ MuxRec(u) /\ u.trie = v.trie /\ u.chan = v.chan
              /\ u.pend = v.pend /\ u.inbound = v.inbound /\ u.aborted = v.aborted
            BY <1>1, <3>4, WakeIs
        <3>6. u.aborted = FALSE /\ u.inbound = m.inbound /\ u.chan = e.chan
            BY <2>4, <3>3, <3>4, <3>5 DEF Like
        <3>7. PendLike(u, m) /\ \A x \in Path : u.pend[x].in = m.pend[x].in
            BY <2>4, <3>1, <3>3, <3>4, <3>5 DEF PendLike
        <3>8. u.trie = [x \in DOMAIN m.trie \ GoneIn(t, p) |-> t[x]]
            BY <2>3, <2>4, <3>3, <3>4, <3>5 DEF Like
        <3> QED BY <1>6, <2>4, <2>8, <3>5, <3>6, <3>7, <3>8 DEF u, t, lost, IsFinished
    <2> QED BY <2>7, <2>8
<1> QED BY <1>5, <1>6

-----------------------------------------------------------------------------
NodeIs(m, p, taken, n) ==
    /\ n \in NodeType /\ n.sealed = ~Nested(p) /\ n.decided = 0 /\ n.done = FALSE
    /\ n.closed <=> p \in taken /\ m.pend[p].closed

\* What a declared node is like.
LEMMA NodeOfIs ==
    ASSUME NEW m, NEW p \in Path, NEW taken, m.pend \in [Path -> PendType]
    PROVE  NodeIs(m, p, taken, NodeOf(m, p, taken))
<1> DEFINE s == ~Nested(p)
           k == p \in taken /\ m.pend[p].closed
           n == NodeOf(m, p, taken)
<1>1. n = [chan |-> TRUE, sealed |-> s, decided |-> 0, done |-> FALSE, closed |-> k]
    BY DEF NodeOf
<1>2. s \in BOOLEAN /\ k \in BOOLEAN
    BY DEF PendType
<1> HIDE DEF s, k, n
<1>3. n \in NodeType /\ n.sealed = s /\ n.decided = 0 /\ n.done = FALSE /\ n.closed = k
    BY <1>1, <1>2 DEF NodeType
<1> QED BY <1>3 DEF NodeIs, s, k, n

\* A closed channel is a channel, ...
LEMMA CloseType == ASSUME NEW c \in ChanType PROVE Close(c, "eof") \in ChanType
<1>1. CASE c.waiting
    BY <1>1 DEF ChanType, Close, Value
<1>2. CASE ~c.waiting
    BY <1>2 DEF ChanType, Close, Value
<1> QED BY <1>1, <1>2

\* ... and so is that of a declared stream.
LEMMA ChanOfType ==
    ASSUME NEW m, NEW p \in Path, NEW taken, m.chan \in [Path -> ChanType], m.inbound \in {"open", "eof"}
    PROVE  ChanOf(m, p, taken) \in ChanType
<1> DEFINE c == IF p \in taken THEN m.chan[p] ELSE NewChan
<1>1. NewChan \in ChanType
    BY DEF NewChan, ChanType, Value
<1>2. c \in ChanType
    BY <1>1
<1>3. ChanOf(m, p, taken) = IF m.inbound = "open" THEN c ELSE Close(c, m.inbound)
    BY DEF ChanOf
<1> HIDE DEF c
<1> QED BY <1>2, <1>3, CloseType

\* The streams of the tuple
Tops == {<<i>> : i \in Params}

\* The path of a stream of the tuple ...
LEMMA TopFacts ==
    ASSUME NEW p \in Tops
    PROVE  /\ p \in Path /\ p # <<>> /\ p = <<p[1]>> /\ p[1] \in Params /\ Len(p) = 1
           /\ Front(p) = <<>> /\ Last(p) = p[1] /\ Prefixes(p) = {<<>>, p}
<1>1. PICK i \in Params : p = <<i>>
    BY DEF Tops
<1> QED BY <1>1, ParamFacts

\* ... and what it is short of.
LEMMA TopsShort == \A p \in {<<>>} \cup Tops : Len(p) <= 1
<1> SUFFICES ASSUME NEW p \in {<<>>} \cup Tops PROVE Len(p) <= 1
    OBVIOUS
<1>1. CASE p = <<>>
    BY <1>1
<1>2. CASE p \in Tops
    <2>1. Len(p) = 1
        BY <1>2, TopFacts
    <2> QED BY <2>1
<1> QED BY <1>1, <1>2

\* u is m with the streams of the tuple declared.
IsSealed(u, m, taken) ==
    /\ MuxRec(u) /\ u.aborted = FALSE /\ u.inbound = m.inbound
    /\ u.pend \in [Path -> PendType] /\ u.chan \in [Path -> ChanType]
    /\ \A x \in Path :
        /\ u.pend[x].in <=> m.pend[x].in /\ x \notin Tops
        /\ u.pend[x].closed = m.pend[x].closed
        /\ u.pend[x].in => u.pend[x].at = <<x[1]>> /\ <<x[1]>> \in Tops /\ x # <<x[1]>>
    /\ u.trie = [p \in DOMAIN u.trie |-> u.trie[p]] /\ DOMAIN u.trie = {<<>>} \cup Tops
    /\ u.trie[<<>>] = [m.trie[<<>>] EXCEPT !.sealed = TRUE]
    /\ \A p \in Tops : NodeIs(m, p, taken, u.trie[p])
    /\ \A p \in Path : u.chan[p] = IF p \in Tops THEN ChanOf(m, p, taken) ELSE m.chan[p]

\* `seal` of the tuple declares its streams, and moves what is buffered below.
LEMMA SealTupleIs ==
    ASSUME NEW m, MuxRec(m), m.aborted = FALSE, m.pend \in [Path -> PendType],
           m.chan \in [Path -> ChanType], m.inbound \in {"open", "eof"}, DOMAIN m.trie = {<<>>},
           m.trie = [x \in DOMAIN m.trie |-> m.trie[x]], m.trie[<<>>] \in NodeType,
           \A x \in Path : m.pend[x].in => m.pend[x].at = <<>> /\ x # <<>> /\ x[1] \in Params
    PROVE  IsSealed(SealTuple(m), m, {p \in Tops : m.pend[p].in})
<1> DEFINE taken == {p \in Tops : m.pend[p].in}
           buffered == {p \in Tops : Buffered(m, p)}
           places == {<<i>> : i \in Index}
           a == TakePending(m, taken)
           b == [a EXCEPT !.trie[<<>>].sealed = TRUE]
           c == Declare(b, Tops, taken)
           s == Settle(c, places)
           u == SealTuple(m)
<1>1. Tops \subseteq Path /\ \A p \in Tops : p # <<>> /\ p = <<p[1]>> /\ p[1] \in Params
    BY TopFacts
<1>2. buffered = taken
    <2>1. SUFFICES ASSUME NEW p \in Tops, m.pend[p].in PROVE Buffered(m, p)
        BY DEF Buffered
    <2>2. p \in Path /\ p # <<>> /\ m.pend[p].at = <<>>
        BY <1>1, <2>1
    <2>3. <<>> \in Prefixes(p) /\ \A x \in Prefixes(p) : x \in DOMAIN m.trie => Len(x) <= Len(<<>>)
        BY <2>2, PrefixSelf
    <2>4. Stop(m, p) = <<>>
        BY <2>2, <2>3, StopIs
    <2> QED BY <2>1, <2>2, <2>4 DEF Buffered
<1>3. u = Wake(s)
    <2>1. u = Wake(Settle(Declare([TakePending(m, buffered) EXCEPT !.trie[<<>>].sealed = TRUE], Tops, buffered), places))
        BY DEF SealTuple, Tops
    <2> HIDE DEF buffered, u
    <2> QED BY <1>2, <2>1
<1>4. /\ Like(a, m) /\ a.chan = m.chan /\ PendLike(a, m)
      /\ \A x \in Path : a.pend[x].in <=> m.pend[x].in /\ x \notin taken
    BY TakePendingIs
<1> HIDE DEF a, buffered
<1>5. /\ MuxRec(b) /\ b.trie = [a.trie EXCEPT ![<<>>].sealed = TRUE] /\ b.chan = a.chan /\ b.pend = a.pend
      /\ b.inbound = a.inbound /\ b.aborted = a.aborted
    <2> DEFINE f == [a.trie EXCEPT ![<<>>].sealed = TRUE]
    <2>1. b = [a EXCEPT !.trie = f]
        BY <1>4 DEF Like
    <2> HIDE DEF f, b
    <2>2. /\ MuxRec(b) /\ b.trie = f /\ b.chan = a.chan /\ b.pend = a.pend
          /\ b.inbound = a.inbound /\ b.aborted = a.aborted
        BY <1>4, <2>1 DEF Like, MuxRec
    <2> QED BY <2>2 DEF f
<1> HIDE DEF b
<1>6. /\ DOMAIN b.trie = {<<>>} /\ b.trie[<<>>] = [m.trie[<<>>] EXCEPT !.sealed = TRUE]
      /\ b.inbound = m.inbound /\ b.aborted = FALSE /\ b.chan = m.chan
    BY <1>4, <1>5 DEF Like
<1>7. Tops \cap DOMAIN b.trie = {}
    BY <1>1, <1>6
<1>8. /\ MuxRec(c) /\ c.pend = b.pend /\ c.inbound = b.inbound /\ c.aborted = b.aborted
      /\ c.trie = [p \in DOMAIN c.trie |-> c.trie[p]] /\ DOMAIN c.trie = DOMAIN b.trie \cup Tops
      /\ \A p \in Tops : c.trie[p] = NodeOf(b, p, taken)
      /\ \A p \in DOMAIN b.trie : c.trie[p] = b.trie[p]
      /\ c.chan = [p \in Path |-> c.chan[p]]
      /\ \A p \in Path : c.chan[p] = IF p \in Tops THEN ChanOf(b, p, taken) ELSE b.chan[p]
    <2>1. MuxRec(b)
        BY <1>5
    <2> HIDE DEF taken
    <2>2. IsDeclared(c, b, Tops, taken)
        BY <1>7, <2>1, DeclareIs
    <2> HIDE DEF c
    <2> QED BY <2>2 DEF IsDeclared
<1> HIDE DEF c
<1>9. \A p \in Path : c.chan[p] = IF p \in Tops THEN ChanOf(m, p, taken) ELSE m.chan[p]
    BY <1>6, <1>8 DEF ChanOf
<1>10. DOMAIN c.trie = {<<>>} \cup Tops /\ c.trie[<<>>] = [m.trie[<<>>] EXCEPT !.sealed = TRUE]
    BY <1>6, <1>8
<1>11. \A p \in Tops : NodeIs(m, p, taken, c.trie[p])
    <2> SUFFICES ASSUME NEW p \in Tops PROVE NodeIs(m, p, taken, c.trie[p])
        OBVIOUS
    <2>1. c.trie[p] = NodeOf(b, p, taken)
        BY <1>8
    <2>2. p \in Path /\ b.pend \in [Path -> PendType] /\ b.pend[p].closed = m.pend[p].closed
        BY <1>1, <1>4, <1>5 DEF PendLike
    <2> HIDE DEF taken
    <2>3. NodeIs(b, p, taken, NodeOf(b, p, taken))
        BY <2>2, NodeOfIs, Zenon
    <2>4. NodeIs(b, p, taken, c.trie[p])
        BY <2>1, <2>3
    <2> QED BY <2>2, <2>4 DEF NodeIs
<1>12. c.chan \in [Path -> ChanType]
    <2> HIDE DEF taken
    <2>1. \A p \in Path : ChanOf(m, p, taken) \in ChanType
        BY ChanOfType
    <2>2. \A p \in Path : c.chan[p] \in ChanType
        BY <1>9, <2>1
    <2> QED BY <1>8, <2>2
<1>13. /\ c.aborted = FALSE /\ c.inbound = m.inbound /\ c.pend \in [Path -> PendType]
       /\ \A x \in Path : /\ c.pend[x].in <=> m.pend[x].in /\ x \notin Tops
                          /\ c.pend[x].at = m.pend[x].at /\ c.pend[x].closed = m.pend[x].closed
    BY <1>4, <1>5, <1>6, <1>8 DEF PendLike
<1>14. ASSUME NEW x \in Path, c.pend[x].in
       PROVE  /\ x \in Group(c, places) /\ ~Unexpected(c, x) /\ Stop(c, x) = <<x[1]>>
              /\ Stop(c, x) # x /\ Stop(c, x) \in Path /\ <<x[1]>> \in Tops
    <2>1. m.pend[x].at = <<>> /\ x # <<>> /\ x[1] \in Params /\ x \notin Tops
        BY <1>13, <1>14
    <2> DEFINE n == <<x[1]>>
    <2>2. n \in Tops
        BY <2>1 DEF Tops
    <2>3. ChildAt(x, <<>>) = n /\ x[1] \in Index
        BY <2>1, LengthOne
    <2>4. <<>> \in Prefixes(x)
        BY PrefixSelf
    <2>5. n \in Prefixes(x) /\ Len(n) = 1 /\ n \in Path /\ n[1] = x[1]
        BY <2>1, <2>3, <2>4, ChildFacts, RootPath, TopFacts, <2>2
    <2>6. n # x
        BY <2>1, <2>2
    <2>7. \A y \in Prefixes(x) : y \in DOMAIN c.trie => Len(y) <= Len(n)
        <3>1. \A y \in {<<>>} \cup Tops : Len(y) <= 1
            BY TopsShort
        <3> QED BY <1>10, <2>5, <3>1
    <2>8. Stop(c, x) = n
        <3>1. n \in DOMAIN c.trie /\ n \in Prefixes(x)
            BY <1>10, <2>2, <2>5
        <3> HIDE DEF n
        <3> QED BY <2>7, <3>1, StopIs
    <2>9. Nested(n) /\ x[Len(n) + 1] \in Nat
        BY <2>5, <2>6, ChildAppend, JsMuxAssumption
    <2>10. c.trie[n].sealed = FALSE /\ c.trie[n].decided = 0 /\ n # <<>>
        BY <1>11, <2>2, <2>9, TopFacts DEF NodeIs
    <2>11. ~Unexpected(c, x)
        <3> HIDE DEF n
        <3> QED BY <2>6, <2>8, <2>9, <2>10 DEF Unexpected
    <2>12. x \in Group(c, places)
        BY <1>13, <1>14, <2>1, <2>3 DEF Group
    <2> QED BY <2>2, <2>5, <2>6, <2>8, <2>11, <2>12
<1> HIDE DEF places
<1>15. /\ Like(s, c) /\ s.chan = c.chan /\ s.pend \in [Path -> PendType]
       /\ \A x \in Path :
            /\ s.pend[x].in = c.pend[x].in /\ s.pend[x].closed = c.pend[x].closed
            /\ s.pend[x].at = IF x \in Group(c, places) THEN Stop(c, x) ELSE c.pend[x].at
    <2>1. \A x \in Group(c, places) : ~Unexpected(c, x) /\ Stop(c, x) # x /\ Stop(c, x) \in Path
        BY <1>14 DEF Group
    <2>2. MuxRec(c) /\ c.aborted = FALSE /\ c.pend \in [Path -> PendType]
        BY <1>8, <1>13
    <2>3. IsSettled(s, c, places)
        BY <1>12, <2>1, <2>2, SettleQuiet
    <2> HIDE DEF s
    <2> QED BY <2>3 DEF IsSettled
<1> HIDE DEF s
<1>16. /\ MuxRec(u) /\ u.trie = s.trie /\ u.chan = s.chan
       /\ u.pend = s.pend /\ u.inbound = s.inbound /\ u.aborted = s.aborted
    BY <1>3, <1>15, WakeIs DEF Like
<1> HIDE DEF u
<1>17. MuxRec(u) /\ u.trie = c.trie /\ u.chan = c.chan /\ u.inbound = c.inbound /\ u.aborted = c.aborted
    BY <1>15, <1>16 DEF Like
<1>18. \A x \in Path :
            /\ u.pend[x].in <=> m.pend[x].in /\ x \notin Tops
            /\ u.pend[x].closed = m.pend[x].closed
            /\ u.pend[x].in => u.pend[x].at = <<x[1]>> /\ <<x[1]>> \in Tops /\ x # <<x[1]>>
    <2> SUFFICES ASSUME NEW x \in Path
                 PROVE  /\ u.pend[x].in <=> m.pend[x].in /\ x \notin Tops
                        /\ u.pend[x].closed = m.pend[x].closed
                        /\ u.pend[x].in => u.pend[x].at = <<x[1]>> /\ <<x[1]>> \in Tops /\ x # <<x[1]>>
        OBVIOUS
    <2>1. u.pend[x].in = c.pend[x].in /\ u.pend[x].closed = c.pend[x].closed
        BY <1>15, <1>16
    <2>2. c.pend[x].in => u.pend[x].at = <<x[1]>> /\ <<x[1]>> \in Tops /\ x # <<x[1]>>
        BY <1>14, <1>15, <1>16
    <2> QED BY <1>13, <2>1, <2>2
<1>19. u.pend \in [Path -> PendType] /\ u.chan \in [Path -> ChanType]
    BY <1>12, <1>15, <1>16
<1>20. u.trie = [p \in DOMAIN u.trie |-> u.trie[p]] /\ u.aborted = FALSE /\ u.inbound = m.inbound
    BY <1>8, <1>13, <1>17
<1> HIDE DEF taken
<1>21. /\ DOMAIN u.trie = {<<>>} \cup Tops /\ u.trie[<<>>] = [m.trie[<<>>] EXCEPT !.sealed = TRUE]
       /\ \A p \in Tops : NodeIs(m, p, taken, u.trie[p])
       /\ \A p \in Path : u.chan[p] = IF p \in Tops THEN ChanOf(m, p, taken) ELSE m.chan[p]
    BY <1>9, <1>10, <1>11, <1>17
<1>22. IsSealed(u, m, taken)
    BY <1>17, <1>18, <1>19, <1>20, <1>21 DEF IsSealed
<1> QED BY <1>22 DEF u, taken

-----------------------------------------------------------------------------
\* u is m with the stream e, an element of the one at p, declared.
IsGrown(u, m, p, e, taken) ==
    /\ MuxRec(u) /\ u.aborted = FALSE /\ u.inbound = m.inbound
    /\ u.pend \in [Path -> PendType] /\ u.chan \in [Path -> ChanType]
    /\ \A x \in Path :
        /\ u.pend[x].in <=> m.pend[x].in /\ x # e
        /\ u.pend[x].closed = m.pend[x].closed
        /\ u.pend[x].in => u.pend[x].at = IF e \in Prefixes(x) THEN e ELSE m.pend[x].at
    /\ u.trie = [x \in DOMAIN u.trie |-> u.trie[x]] /\ DOMAIN u.trie = DOMAIN m.trie \cup {e}
    /\ NodeIs(m, e, taken, u.trie[e])
    /\ u.trie[p] = [m.trie[p] EXCEPT !.decided = Last(e) + 1]
    /\ \A x \in DOMAIN m.trie \ {p} : u.trie[x] = m.trie[x]
    /\ \A x \in Path : u.chan[x] = IF x = e THEN ChanOf(m, x, taken) ELSE m.chan[x]

\* `seal` of an element declares its stream, and moves what is buffered below.
LEMMA SealElementIs ==
    ASSUME NEW m, MuxRec(m), m.aborted = FALSE, m.pend \in [Path -> PendType],
           m.chan \in [Path -> ChanType], m.inbound \in {"open", "eof"}, Closed(DOMAIN m.trie),
           m.trie = [x \in DOMAIN m.trie |-> m.trie[x]],
           \A x \in Path : m.pend[x].in => StopsIn(DOMAIN m.trie, x, m.pend[x].at),
           NEW p \in Path, p \in DOMAIN m.trie, Nested(p), NEW e \in Path, e # <<>>, Front(e) = p,
           e \notin DOMAIN m.trie, m.trie[p].decided = Last(e), ~m.trie[p].sealed
    PROVE  IsGrown(SealElement(m, e), m, p, e, {x \in {e} : m.pend[x].in})
<1> DEFINE taken == {x \in {e} : m.pend[x].in}
           buffered == {x \in {e} : Buffered(m, x)}
           settled == {Append(p, i) : i \in {i \in Index : Last(e) <= i /\ i < Decided(e)}}
           a == TakePending(m, taken)
           b == [a EXCEPT !.trie[p].decided = Decided(e)]
           c == Declare(b, {e}, taken)
           s == Settle(c, settled)
           u == SealElement(m, e)
<1>1. Last(e) \in Index /\ Last(e) \in Nat /\ p \in Prefixes(e) /\ p # e /\ ChildAt(e, p) = e
    BY FrontFacts, ChildIsSelf
<1>2. StopsIn(DOMAIN m.trie, e, p)
    BY <1>1 DEF StopsIn
<1>3. buffered = taken
    <2>1. Stop(m, e) = p
        BY <1>2, StopMissing
    <2>2. m.pend[e].in => m.pend[e].at = p
        BY <1>2, StopsUnique
    <2> QED BY <2>1, <2>2 DEF Buffered
<1>4. u = Wake(s)
    <2>1. u = Wake(Settle(Declare([TakePending(m, buffered) EXCEPT !.trie[p].decided = Decided(e)], {e}, buffered), settled))
        BY <1>1 DEF SealElement, Has
    <2> HIDE DEF buffered, u
    <2> QED BY <1>3, <2>1
<1>5. settled = {e}
    <2>1. e = Append(p, Last(e))
        BY <1>1, ChildAppend, ChildFacts
    <2>2. \A i \in Index : (Last(e) <= i /\ i < Decided(e)) <=> i = Last(e)
        BY <1>1, JsMuxAssumption DEF Decided
    <2> QED BY <1>1, <2>1, <2>2
<1>6. /\ Like(a, m) /\ a.chan = m.chan /\ PendLike(a, m)
      /\ \A x \in Path : a.pend[x].in <=> m.pend[x].in /\ x \notin taken
    BY TakePendingIs
<1> HIDE DEF a, buffered, settled
<1>7. /\ MuxRec(b) /\ b.trie = [a.trie EXCEPT ![p].decided = Decided(e)] /\ b.chan = a.chan
      /\ b.pend = a.pend /\ b.inbound = a.inbound /\ b.aborted = a.aborted
    <2> DEFINE f == [a.trie EXCEPT ![p].decided = Decided(e)]
    <2>1. b = [a EXCEPT !.trie = f]
        BY <1>6 DEF Like
    <2> HIDE DEF f, b
    <2>2. /\ MuxRec(b) /\ b.trie = f /\ b.chan = a.chan /\ b.pend = a.pend
          /\ b.inbound = a.inbound /\ b.aborted = a.aborted
        BY <1>6, <2>1 DEF Like, MuxRec
    <2> QED BY <2>2 DEF f
<1> HIDE DEF b
<1>8. /\ DOMAIN b.trie = DOMAIN m.trie /\ b.trie[p] = [m.trie[p] EXCEPT !.decided = Last(e) + 1]
      /\ \A x \in DOMAIN m.trie \ {p} : b.trie[x] = m.trie[x]
      /\ b.inbound = m.inbound /\ b.aborted = FALSE /\ b.chan = m.chan
    BY <1>6, <1>7 DEF Like, Decided
<1> DEFINE ps == {e}
<1>9. ps \cap DOMAIN b.trie = {}
    BY <1>8
<1>10. /\ MuxRec(c) /\ c.pend = b.pend /\ c.inbound = b.inbound /\ c.aborted = b.aborted
       /\ c.trie = [x \in DOMAIN c.trie |-> c.trie[x]] /\ DOMAIN c.trie = DOMAIN b.trie \cup ps
       /\ \A x \in ps : c.trie[x] = NodeOf(b, x, taken)
       /\ \A x \in DOMAIN b.trie : c.trie[x] = b.trie[x]
       /\ c.chan = [x \in Path |-> c.chan[x]]
       /\ \A x \in Path : c.chan[x] = IF x \in ps THEN ChanOf(b, x, taken) ELSE b.chan[x]
    <2>1. MuxRec(b) /\ c = Declare(b, ps, taken)
        BY <1>7
    <2> HIDE DEF taken, ps, c
    <2>2. IsDeclared(c, b, ps, taken)
        BY <1>9, <2>1, DeclareIs
    <2> QED BY <2>2 DEF IsDeclared
<1> HIDE DEF c
<1>11. \A x \in Path : c.chan[x] = IF x = e THEN ChanOf(m, x, taken) ELSE m.chan[x]
    BY <1>8, <1>10 DEF ChanOf
<1>12. DOMAIN c.trie = DOMAIN m.trie \cup {e} /\ \A x \in DOMAIN m.trie : c.trie[x] = b.trie[x]
    BY <1>8, <1>10
<1>13. NodeIs(m, e, taken, c.trie[e])
    <2>1. c.trie[e] = NodeOf(b, e, taken)
        BY <1>10
    <2>2. b.pend \in [Path -> PendType] /\ b.pend[e].closed = m.pend[e].closed
        BY <1>6, <1>7 DEF PendLike
    <2> HIDE DEF taken
    <2>3. NodeIs(b, e, taken, NodeOf(b, e, taken))
        BY <2>2, NodeOfIs, Zenon
    <2>4. NodeIs(b, e, taken, c.trie[e])
        BY <2>1, <2>3
    <2> QED BY <2>2, <2>4 DEF NodeIs
<1>14. c.chan \in [Path -> ChanType]
    <2> HIDE DEF taken
    <2>1. \A x \in Path : ChanOf(m, x, taken) \in ChanType
        BY ChanOfType
    <2>2. \A x \in Path : c.chan[x] \in ChanType
        BY <1>11, <2>1
    <2> QED BY <1>10, <2>2
<1>15. /\ c.aborted = FALSE /\ c.inbound = m.inbound /\ c.pend \in [Path -> PendType]
       /\ \A x \in Path : /\ c.pend[x].in <=> m.pend[x].in /\ x # e
                          /\ c.pend[x].at = m.pend[x].at /\ c.pend[x].closed = m.pend[x].closed
    BY <1>6, <1>7, <1>8, <1>10 DEF PendLike
<1>16. Closed(DOMAIN c.trie)
    <2>1. \A x \in Prefixes(e) : x # e => x \in Prefixes(p)
        BY FrontFacts
    <2> QED BY <1>12, <2>1 DEF Closed
<1>17. ASSUME NEW x \in Path, c.pend[x].in, e \in Prefixes(x)
       PROVE  /\ x \in Group(c, settled) /\ ~Unexpected(c, x) /\ Stop(c, x) = e
              /\ Stop(c, x) # x /\ Stop(c, x) \in Path
    <2>1. m.pend[x].in /\ x # e /\ c.pend[x].at = m.pend[x].at
        BY <1>15, <1>17
    <2>2. ChildAt(x, p) = e /\ p \in Prefixes(x) /\ p # x
        BY <1>1, <1>17, ChildSame
    <2>3. m.pend[x].at = p
        <3>1. StopsIn(DOMAIN m.trie, x, p)
            BY <2>2 DEF StopsIn
        <3> QED BY <2>1, <3>1, StopsUnique
    <2>4. ChildAt(x, e) \in Prefixes(x) /\ e \in Prefixes(ChildAt(x, e)) /\ e # ChildAt(x, e)
        BY <1>17, <2>1, ChildFacts
    <2>5. StopsIn(DOMAIN c.trie, x, e)
        <3>1. ChildAt(x, e) \notin DOMAIN m.trie
            BY <2>4 DEF Closed
        <3> QED BY <1>12, <1>17, <2>1, <2>4, <3>1 DEF StopsIn
    <2>6. Stop(c, x) = e
        BY <1>16, <2>5, StopMissing
    <2>7. Nested(e) /\ x[Len(e) + 1] \in Nat
        BY <1>17, <2>1, ChildAppend, JsMuxAssumption
    <2>8. c.trie[e].sealed = FALSE /\ c.trie[e].decided = 0
        BY <1>13, <2>7 DEF NodeIs
    <2>9. ~Unexpected(c, x)
        BY <2>1, <2>6, <2>7, <2>8 DEF Unexpected
    <2>10. x \in Group(c, settled)
        BY <1>5, <1>17, <2>1, <2>2, <2>3 DEF Group
    <2> QED BY <2>1, <2>6, <2>9, <2>10
<1>18. \A x \in Group(c, settled) : c.pend[x].in /\ e \in Prefixes(x)
    <2> SUFFICES ASSUME NEW x \in Group(c, settled) PROVE c.pend[x].in /\ e \in Prefixes(x)
        OBVIOUS
    <2>1. x \in Path /\ c.pend[x].in /\ ChildAt(x, c.pend[x].at) = e
        BY <1>5 DEF Group
    <2>2. c.pend[x].at \in Prefixes(x) /\ c.pend[x].at # x
        BY <1>15, <2>1 DEF StopsIn
    <2> QED BY <2>1, <2>2, ChildFacts
<1>19. /\ Like(s, c) /\ s.chan = c.chan /\ s.pend \in [Path -> PendType]
       /\ \A x \in Path :
            /\ s.pend[x].in = c.pend[x].in /\ s.pend[x].closed = c.pend[x].closed
            /\ s.pend[x].at = IF x \in Group(c, settled) THEN Stop(c, x) ELSE c.pend[x].at
    <2>1. \A x \in Group(c, settled) : ~Unexpected(c, x) /\ Stop(c, x) # x /\ Stop(c, x) \in Path
        BY <1>17, <1>18 DEF Group
    <2>2. MuxRec(c) /\ c.aborted = FALSE /\ c.pend \in [Path -> PendType]
        BY <1>10, <1>15
    <2>3. IsSettled(s, c, settled)
        BY <1>14, <2>1, <2>2, SettleQuiet
    <2> HIDE DEF s
    <2> QED BY <2>3 DEF IsSettled
<1> HIDE DEF s
<1>20. /\ MuxRec(u) /\ u.trie = s.trie /\ u.chan = s.chan
       /\ u.pend = s.pend /\ u.inbound = s.inbound /\ u.aborted = s.aborted
    BY <1>4, <1>19, WakeIs DEF Like
<1> HIDE DEF u
<1>21. MuxRec(u) /\ u.trie = c.trie /\ u.chan = c.chan /\ u.inbound = c.inbound /\ u.aborted = c.aborted
    BY <1>19, <1>20 DEF Like
<1>22. \A x \in Path :
            /\ u.pend[x].in <=> m.pend[x].in /\ x # e
            /\ u.pend[x].closed = m.pend[x].closed
            /\ u.pend[x].in => u.pend[x].at = IF e \in Prefixes(x) THEN e ELSE m.pend[x].at
    <2> SUFFICES ASSUME NEW x \in Path
                 PROVE  /\ u.pend[x].in <=> m.pend[x].in /\ x # e
                        /\ u.pend[x].closed = m.pend[x].closed
                        /\ u.pend[x].in => u.pend[x].at = IF e \in Prefixes(x) THEN e ELSE m.pend[x].at
        OBVIOUS
    <2>1. u.pend[x].in = c.pend[x].in /\ u.pend[x].closed = c.pend[x].closed
        BY <1>19, <1>20
    <2>2. c.pend[x].in /\ e \in Prefixes(x) => u.pend[x].at = e
        BY <1>17, <1>19, <1>20
    <2>3. ~(e \in Prefixes(x)) => u.pend[x].at = c.pend[x].at
        BY <1>18, <1>19, <1>20
    <2> QED BY <1>15, <2>1, <2>2, <2>3
<1>23. /\ u.pend \in [Path -> PendType] /\ u.chan \in [Path -> ChanType]
       /\ u.trie = [x \in DOMAIN u.trie |-> u.trie[x]] /\ u.aborted = FALSE /\ u.inbound = m.inbound
    BY <1>10, <1>14, <1>15, <1>19, <1>20, <1>21
<1> HIDE DEF taken
<1>24. /\ DOMAIN u.trie = DOMAIN m.trie \cup {e} /\ NodeIs(m, e, taken, u.trie[e])
       /\ u.trie[p] = [m.trie[p] EXCEPT !.decided = Last(e) + 1]
       /\ \A x \in DOMAIN m.trie \ {p} : u.trie[x] = m.trie[x]
       /\ \A x \in Path : u.chan[x] = IF x = e THEN ChanOf(m, x, taken) ELSE m.chan[x]
    BY <1>8, <1>11, <1>12, <1>13, <1>21
<1>25. IsGrown(u, m, p, e, taken)
    BY <1>21, <1>22, <1>23, <1>24 DEF IsGrown
<1> QED BY <1>25 DEF u, taken

\* Nothing is buffered below the missing child c.
NoneBelow(m, c) == \A x \in Path : m.pend[x].in => ChildAt(x, m.pend[x].at) # c
Untouched(u, m) ==
    /\ Like(u, m) /\ u.chan = m.chan /\ PendLike(u, m)
    /\ \A x \in Path : u.pend[x].in = m.pend[x].in

\* Of a stream that was forgotten, nothing is declared, and nothing is
\* buffered.
LEMMA SealElementForgotten ==
    ASSUME NEW m, MuxRec(m), m.aborted = FALSE, m.pend \in [Path -> PendType],
           m.chan \in [Path -> ChanType], Closed(DOMAIN m.trie),
           \A x \in Path : m.pend[x].in => StopsIn(DOMAIN m.trie, x, m.pend[x].at),
           NEW e \in Path, e # <<>>, Front(e) \notin DOMAIN m.trie,
           NEW n, StopsIn(DOMAIN m.trie, e, n),
           NoneBelow(m, ChildAt(e, n))
    PROVE  Untouched(SealElement(m, e), m)
<1> DEFINE buffered == {x \in {e} : Buffered(m, x)}
           none == {}
           places == {ChildAt(e, n)}
           a == TakePending(m, none)
           b == Drop(a, none)
           s == Settle(b, places)
           u == SealElement(m, e)
<1>1. Stop(m, e) = n
    BY StopMissing
<1>2. buffered = none
    BY <1>1 DEF Buffered, NoneBelow
<1>3. u = Wake(s)
    <2>1. u = Wake(Settle(Drop(TakePending(m, buffered), buffered), {ChildAt(e, Stop(m, e))}))
        BY DEF SealElement, Has
    <2> HIDE DEF buffered, u, none
    <2> QED BY <1>1, <1>2, <2>1
<1> HIDE DEF buffered, u, none
<1>4. /\ Like(a, m) /\ a.chan = m.chan /\ PendLike(a, m)
      /\ \A x \in Path : a.pend[x].in <=> m.pend[x].in /\ x \notin none
    BY TakePendingIs
<1> HIDE DEF a
<1>5. /\ MuxRec(b) /\ b.aborted \in BOOLEAN
      /\ b.aborted <=> a.aborted \/ \E x \in none : a.chan[x].q # <<>>
      /\ ~b.aborted /\ a.pend \in [Path -> PendType] =>
            /\ Like(b, a) /\ PendLike(b, a) /\ \A x \in Path : b.pend[x].in = a.pend[x].in
            /\ b.chan = [x \in Path |-> IF x \in none THEN Cancel(a.chan[x]) ELSE a.chan[x]]
    <2>1. MuxRec(a) /\ a.aborted \in BOOLEAN
        BY <1>4 DEF Like
    <2> QED BY <2>1, DropIs
<1> HIDE DEF b
<1>6. /\ Like(b, m) /\ PendLike(b, m) /\ b.chan = m.chan /\ b.aborted = FALSE
      /\ \A x \in Path : b.pend[x].in <=> m.pend[x].in
    BY <1>4, <1>5 DEF none, Like, PendLike
<1>7. Group(b, places) = {}
    BY <1>6 DEF Group, PendLike, NoneBelow
<1>8. IsSettled(s, b, places)
    <2>1. MuxRec(b) /\ b.pend \in [Path -> PendType] /\ b.chan \in [Path -> ChanType]
        BY <1>6 DEF Like, PendLike
    <2> HIDE DEF places
    <2> QED BY <1>6, <1>7, <2>1, SettleQuiet
<1> HIDE DEF s, places
<1>9. Like(s, m) /\ PendLike(s, m) /\ s.chan = m.chan /\ \A x \in Path : s.pend[x].in <=> m.pend[x].in
    BY <1>6, <1>7, <1>8 DEF IsSettled, Like, PendLike
<1>10. /\ MuxRec(u) /\ u.trie = s.trie /\ u.chan = s.chan
       /\ u.pend = s.pend /\ u.inbound = s.inbound /\ u.aborted = s.aborted
    BY <1>3, <1>9, WakeIs DEF Like
<1>11. /\ Like(u, m) /\ u.chan = m.chan /\ PendLike(u, m)
       /\ \A x \in Path : u.pend[x].in <=> m.pend[x].in
    BY <1>9, <1>10 DEF Like, PendLike
<1>12. \A x \in Path : u.pend[x].in \in BOOLEAN /\ m.pend[x].in \in BOOLEAN
    BY <1>11 DEF PendLike, PendType
<1>13. Untouched(u, m)
    BY <1>11, <1>12 DEF Untouched
<1> QED BY <1>13 DEF u

-----------------------------------------------------------------------------
\* The nodes that `discard` forgets
LostIn(m, p, from, to) ==
    {x \in DOMAIN m.trie : Prefixes(x) \cap {c \in Children(m, p) : from <= Last(c) /\ Last(c) < to} # {}}
HeldIn(m, gone) == {x \in Path : m.pend[x].in /\ m.pend[x].at \in gone}
LeftIn(m, gone) == [x \in DOMAIN m.trie \ gone |-> m.trie[x]]

\* u is m without the nodes `gone`, and what ended above them, unless the
\* invocation failed.
IsDiscarded(u, m, p, gone) ==
    /\ MuxRec(u) /\ u.aborted \in BOOLEAN
    /\ ~u.aborted =>
        /\ u.inbound = m.inbound /\ PendLike(u, m)
        /\ \A x \in Path : u.pend[x].in <=> m.pend[x].in /\ m.pend[x].at \notin gone
        /\ u.chan = [x \in Path |-> u.chan[x]]
        /\ \A x \in Path :
            IF x \in HeldIn(m, gone) \cup gone THEN u.chan[x] = Cancel(m.chan[x]) /\ m.chan[x].q = <<>>
            ELSE u.chan[x] = m.chan[x]
        /\ u.trie = [x \in DOMAIN u.trie |-> u.trie[x]]
        /\ DOMAIN u.trie = (DOMAIN m.trie \ gone) \ GoneIn(LeftIn(m, gone), p)
        /\ \A x \in DOMAIN u.trie : u.trie[x] = m.trie[x]

\* `discard` forgets the nodes of the elements, and cancels their channels.
LEMMA DiscardIs ==
    ASSUME NEW m, MuxRec(m), m.aborted = FALSE, m.pend \in [Path -> PendType],
           DOMAIN m.trie \subseteq Path, \A x \in DOMAIN m.trie : m.trie[x] \in NodeType,
           NEW p \in DOMAIN m.trie, NEW from, NEW to
    PROVE  IsDiscarded(Discard(m, p, from, to), m, p, LostIn(m, p, from, to))
<1> DEFINE gone == LostIn(m, p, from, to)
           held == HeldIn(m, gone)
           f == [x \in Path |-> IF x \in held THEN [m.pend[x] EXCEPT !.in = FALSE] ELSE m.pend[x]]
           t == LeftIn(m, gone)
           left == [m EXCEPT !.trie = t, !.pend = f]
           drop == held \cup gone
           d == Drop(left, drop)
           v == Prune(d, p)
           u == Discard(m, p, from, to)
<1>1. u = Wake(v)
    <2>1. {x \in gone : m.trie[x].chan} = gone
        BY DEF LostIn, NodeType
    <2>2. u = Wake(Prune(Drop(left, held \cup {x \in gone : m.trie[x].chan}), p))
        BY DEF Discard, LostIn, HeldIn, LeftIn, Replaced, Out, Has
    <2> HIDE DEF u, left, held, gone
    <2> QED BY <2>1, <2>2
<1>2. f \in [Path -> PendType]
    BY DEF PendType
<1>3. \A x \in Path : /\ f[x].in <=> m.pend[x].in /\ x \notin held
                      /\ f[x].at = m.pend[x].at /\ f[x].closed = m.pend[x].closed
    BY DEF PendType
<1>4. t = [x \in DOMAIN t |-> t[x]] /\ DOMAIN t = DOMAIN m.trie \ gone /\ \A x \in DOMAIN t : t[x] = m.trie[x]
    <2> HIDE DEF gone
    <2> QED BY DEF LeftIn
<1>5. \A x \in Path : x \in held <=> m.pend[x].in /\ m.pend[x].at \in gone
    BY DEF HeldIn
<1> HIDE DEF f, t, gone, held
<1>6. /\ MuxRec(left) /\ left.trie = t /\ left.pend = f /\ left.chan = m.chan
      /\ left.inbound = m.inbound /\ left.aborted = m.aborted
    <2>1. left = [m EXCEPT !.trie = t, !.pend = f]
        OBVIOUS
    <2> HIDE DEF left
    <2> QED BY <2>1 DEF MuxRec
<1> HIDE DEF left
<1>7. /\ MuxRec(d) /\ d.aborted \in BOOLEAN
      /\ d.aborted <=> left.aborted \/ \E x \in drop : left.chan[x].q # <<>>
      /\ ~d.aborted /\ left.pend \in [Path -> PendType] =>
            /\ Like(d, left) /\ PendLike(d, left) /\ \A x \in Path : d.pend[x].in = left.pend[x].in
            /\ d.chan = [x \in Path |-> IF x \in drop THEN Cancel(left.chan[x]) ELSE left.chan[x]]
    <2> HIDE DEF drop
    <2>1. MuxRec(left) /\ left.aborted \in BOOLEAN
        BY <1>6
    <2> QED BY <2>1, DropIs
<1> HIDE DEF d
<1>8. /\ MuxRec(v) /\ v.chan = d.chan /\ v.pend = d.pend /\ v.inbound = d.inbound /\ v.aborted = d.aborted
      /\ v.trie = [x \in DOMAIN d.trie \ GoneIn(d.trie, p) |-> d.trie[x]]
    BY <1>7, PruneIs
<1> HIDE DEF v
<1>9. /\ MuxRec(u) /\ u.trie = v.trie /\ u.chan = v.chan
      /\ u.pend = v.pend /\ u.inbound = v.inbound /\ u.aborted = v.aborted
    BY <1>1, <1>8, WakeIs
<1> HIDE DEF u
<1>10. ASSUME ~u.aborted
       PROVE  /\ u.inbound = m.inbound /\ PendLike(u, m)
              /\ \A x \in Path : u.pend[x].in <=> m.pend[x].in /\ m.pend[x].at \notin gone
              /\ u.chan = [x \in Path |-> u.chan[x]]
              /\ \A x \in Path :
                    IF x \in held \cup gone THEN u.chan[x] = Cancel(m.chan[x]) /\ m.chan[x].q = <<>>
                    ELSE u.chan[x] = m.chan[x]
              /\ u.trie = [x \in DOMAIN u.trie |-> u.trie[x]]
              /\ DOMAIN u.trie = (DOMAIN m.trie \ gone) \ GoneIn(t, p)
              /\ \A x \in DOMAIN u.trie : u.trie[x] = m.trie[x]
    <2>1. /\ Like(d, left) /\ PendLike(d, left) /\ \A x \in Path : d.pend[x].in = left.pend[x].in
          /\ d.chan = [x \in Path |-> IF x \in drop THEN Cancel(left.chan[x]) ELSE left.chan[x]]
          /\ \A x \in drop : left.chan[x].q = <<>>
        BY <1>2, <1>6, <1>7, <1>8, <1>9, <1>10
    <2>2. u.inbound = m.inbound /\ u.chan = d.chan
        BY <1>6, <1>8, <1>9, <2>1 DEF Like
    <2>3. PendLike(u, m)
        BY <1>3, <1>6, <1>8, <1>9, <2>1 DEF PendLike
    <2>4. \A x \in Path : u.pend[x].in <=> m.pend[x].in /\ m.pend[x].at \notin gone
        BY <1>3, <1>5, <1>6, <1>8, <1>9, <2>1
    <2>5. /\ u.chan = [x \in Path |-> u.chan[x]]
          /\ \A x \in Path :
                IF x \in held \cup gone THEN u.chan[x] = Cancel(m.chan[x]) /\ m.chan[x].q = <<>>
                ELSE u.chan[x] = m.chan[x]
        BY <1>6, <2>1, <2>2
    <2>6. u.trie = [x \in DOMAIN t \ GoneIn(t, p) |-> t[x]]
        BY <1>6, <1>8, <1>9, <2>1 DEF Like
    <2>7. /\ u.trie = [x \in DOMAIN u.trie |-> u.trie[x]]
          /\ DOMAIN u.trie = (DOMAIN m.trie \ gone) \ GoneIn(t, p)
          /\ \A x \in DOMAIN u.trie : u.trie[x] = m.trie[x]
        BY <1>4, <2>6
    <2> QED BY <2>2, <2>3, <2>4, <2>5, <2>7
<1>11. IsDiscarded(u, m, p, gone)
    BY <1>7, <1>8, <1>9, <1>10 DEF IsDiscarded, held, t
<1> QED BY <1>11 DEF u, gone

-----------------------------------------------------------------------------
(* How the trie changes                                                    *)

\* A lookup that was barred stays so: of the children B that were barred, D
\* has some as nodes; E has nodes that none of them is, and bars them if it
\* has the parent.
LEMMA StaysBarred ==
    ASSUME NEW D, Closed(D), NEW E, Closed(E), NEW B, NEW y \in Path, y \notin E,
           \A c \in D : c # <<>> => c \in B, (E \ D) \cap B = {},
           y \notin D => \E n \in Path : StopsIn(D, y, n) /\ ChildAt(y, n) \in B
    PROVE  \E n \in Path : /\ StopsIn(E, y, n) /\ ChildAt(y, n) \in B /\ Front(ChildAt(y, n)) = n
                           /\ n \in E /\ ChildAt(y, n) # <<>>
<1>1. PICK n \in Path : StopsIn(E, y, n)
    BY StopsSomewhere
<1> DEFINE c == ChildAt(y, n)
<1>2. n \in E /\ n \in Prefixes(y) /\ n # y /\ c \notin E
    BY <1>1 DEF StopsIn
<1>3. c \in Path /\ c \in Prefixes(y) /\ c # <<>> /\ Len(c) = Len(n) + 1 /\ Front(c) = n
    BY <1>2, ChildFacts
<1>4. c \in B
    <2>1. CASE c \in D
        BY <1>3, <2>1
    <2>2. CASE c \notin D
        <3>1. y \notin D
            BY <1>3, <2>2 DEF Closed
        <3>2. PICK k \in Path : StopsIn(D, y, k) /\ ChildAt(y, k) \in B
            BY <3>1
        <3>3. CASE n \in D
            <4>1. StopsIn(D, y, n)
                BY <1>2, <2>2, <3>3 DEF StopsIn
            <4>2. n = k
                BY <3>2, <4>1, StopsUnique
            <4> QED BY <3>2, <4>2
        <3>4. CASE n \notin D
            <4>1. k \in D /\ k \in Prefixes(y) /\ k # y /\ ChildAt(y, k) \notin D
                BY <3>2 DEF StopsIn
            <4>2. Len(k) < Len(n)
                <5>1. SUFFICES ASSUME ~(Len(k) < Len(n)) PROVE FALSE
                    OBVIOUS
                <5>2. Len(n) <= Len(k)
                    BY <1>2, <4>1, <5>1, PrefixFacts
                <5>3. n \in Prefixes(k)
                    BY <1>2, <4>1, <5>2, PrefixChain
                <5> QED BY <3>4, <4>1, <5>3 DEF Closed
            <4>3. ChildAt(y, k) \in Prefixes(n)
                BY <1>2, <4>1, <4>2, BeyondChild
            <4>4. ChildAt(y, k) \in E
                BY <1>2, <4>3 DEF Closed
            <4> QED BY <3>2, <4>1, <4>4
        <3> QED BY <3>3, <3>4
    <2> QED BY <2>1, <2>2
<1> QED BY <1>1, <1>2, <1>3, <1>4

\* The prefixes of a path contain their own.
LEMMA PrefixesClosed == ASSUME NEW p \in Path PROVE Closed(Prefixes(p))
BY PrefixSelf, PrefixTrans, PrefixFacts DEF Closed

\* What is pruned is over, and so is all between it and the stream that ended.
LEMMA GoneFacts ==
    ASSUME NEW t, NEW p \in Path, NEW x \in GoneIn(t, p)
    PROVE  /\ x \in Prefixes(p) /\ x \in Path /\ x # <<>> /\ x \in DOMAIN t
           /\ (~t[x].chan \/ t[x].done) /\ KidsIn(t, x) \subseteq Prefixes(p)
           /\ \A w \in Prefixes(p) : x \in Prefixes(w) => w \in GoneIn(t, p)
<1>1. x \in Prefixes(p) /\ x # <<>> /\ x \in Path /\ Len(x) \in Nat
    BY PrefixFacts DEF GoneIn
<1>2. \A y \in Prefixes(p) : Len(y) >= Len(x) =>
            y \in DOMAIN t /\ (~t[y].chan \/ t[y].done) /\ KidsIn(t, y) \subseteq Prefixes(p)
    BY DEF GoneIn
<1>3. ASSUME NEW w \in Prefixes(p), x \in Prefixes(w) PROVE w \in GoneIn(t, p)
    <2>1. w \in Path /\ Len(x) <= Len(w) /\ Len(w) \in Nat
        BY <1>3, PrefixFacts
    <2>2. w # <<>>
        BY <1>1, <2>1, <1>3, PrefixFacts, RootPath
    <2>3. ASSUME NEW y \in Prefixes(p), Len(y) >= Len(w)
          PROVE  y \in DOMAIN t /\ (~t[y].chan \/ t[y].done) /\ KidsIn(t, y) \subseteq Prefixes(p)
        <3>1. Len(y) \in Nat
            BY PrefixFacts
        <3> QED BY <1>1, <1>2, <2>1, <2>3, <3>1
    <2> QED BY <2>2, <2>3 DEF GoneIn
<1>4. x \in DOMAIN t /\ (~t[x].chan \/ t[x].done) /\ KidsIn(t, x) \subseteq Prefixes(p)
    BY <1>1, <1>2
<1> QED BY <1>1, <1>3, <1>4

\* Below a pruned node there are none but pruned ones.
LEMMA GoneBeyond ==
    ASSUME NEW t, NEW p \in Path, NEW x \in GoneIn(t, p), NEW z \in Path, x \in Prefixes(z)
    PROVE  \/ z \in GoneIn(t, p)
           \/ \E w \in GoneIn(t, p) : StopsIn(DOMAIN t, z, w)
<1>1. CASE z \in Prefixes(p)
    BY <1>1, GoneFacts
<1>2. CASE z \notin Prefixes(p)
    <2>1. PICK w \in Path : StopsIn(Prefixes(p), z, w)
        BY <1>2, PrefixesClosed, StopsSomewhere
    <2> DEFINE c == ChildAt(z, w)
    <2>2. w \in Prefixes(p) /\ w \in Prefixes(z) /\ w # z /\ c \notin Prefixes(p)
        BY <2>1 DEF StopsIn
    <2>3. x \in Prefixes(p)
        BY GoneFacts
    <2>4. Len(x) <= Len(w)
        <3>1. SUFFICES ASSUME ~(Len(x) <= Len(w)) PROVE FALSE
            OBVIOUS
        <3>2. Len(w) < Len(x)
            BY <2>2, <3>1, PrefixFacts
        <3>3. c \in Prefixes(x)
            BY <2>2, <3>2, BeyondChild
        <3>4. c \in Prefixes(p)
            BY <2>3, <3>3, PrefixTrans
        <3> QED BY <2>2, <3>4
    <2>5. x \in Prefixes(w)
        BY <2>2, <2>4, PrefixChain
    <2>6. w \in GoneIn(t, p)
        BY <2>2, <2>5, GoneFacts
    <2>7. w \in DOMAIN t /\ KidsIn(t, w) \subseteq Prefixes(p)
        <3>1. Len(w) >= Len(w)
            BY <2>2, PrefixFacts
        <3> QED BY <2>2, <2>6, <3>1 DEF GoneIn
    <2>8. c \notin DOMAIN t
        <3>1. Len(c) = Len(w) + 1 /\ Front(c) = w
            BY <2>2, ChildFacts
        <3> QED BY <2>2, <2>7, <3>1 DEF KidsIn
    <2> QED BY <2>2, <2>6, <2>7, <2>8 DEF StopsIn
<1> QED BY <1>1, <1>2

\* No node is left without its parent.
LEMMA GoneClosed ==
    ASSUME NEW t, Closed(DOMAIN t), NEW p \in Path
    PROVE  Closed(DOMAIN t \ GoneIn(t, p))
<1>1. <<>> \notin GoneIn(t, p)
    BY GoneFacts
<1>2. ASSUME NEW z \in DOMAIN t, z \notin GoneIn(t, p), NEW y \in Prefixes(z)
      PROVE  y \in DOMAIN t /\ y \notin GoneIn(t, p)
    <2>1. z \in Path /\ y \in DOMAIN t
        BY DEF Closed
    <2>2. ASSUME y \in GoneIn(t, p) PROVE FALSE
        <3>1. PICK w \in GoneIn(t, p) : StopsIn(DOMAIN t, z, w)
            BY <1>2, <2>1, <2>2, GoneBeyond
        <3>2. ChildAt(z, w) \in Prefixes(z) /\ ChildAt(z, w) \notin DOMAIN t
            BY <2>1, <3>1, ChildFacts DEF StopsIn
        <3> QED BY <3>2 DEF Closed
    <2> QED BY <2>1, <2>2
<1> QED BY <1>1, <1>2 DEF Closed

-----------------------------------------------------------------------------
(* Steps that leave the trie and what is buffered                          *)

SamePending ==
    /\ mux'.pend \in [Path -> PendType]
    /\ \A p \in Path : /\ mux'.pend[p].in = mux.pend[p].in /\ mux'.pend[p].at = mux.pend[p].at
                       /\ mux'.pend[p].closed = mux.pend[p].closed

\* The nodes are the same, and bar the same children.
SameNodes ==
    /\ Trie' = Trie
    /\ \A p \in Trie : /\ Node(p)'.sealed = Node(p).sealed /\ Node(p)'.decided = Node(p).decided
                       /\ Node(p)'.done = Node(p).done

\* Lookups stop and are barred as before.
LEMMA SameNodesFacts ==
    ASSUME TrieInv, SameNodes
    PROVE  /\ \A p, n : StopsAt(p, n)' <=> StopsAt(p, n)
           /\ \A c : Front(c) \in Trie => (Barred(c)' <=> Barred(c))
           /\ \A n : \A p \in Path : StopsAt(p, n) => (Barred(ChildAt(p, n))' <=> Barred(ChildAt(p, n)))
           /\ \A c \in Trie \ {<<>>} : Barred(c)'
<1>1. \A p, n : StopsAt(p, n)' <=> StopsAt(p, n)
    BY DEF SameNodes, StopsAt
<1>2. \A c : Front(c) \in Trie => (Barred(c)' <=> Barred(c))
    BY DEF SameNodes, Barred
<1>3. ASSUME NEW p \in Path, NEW n, StopsAt(p, n) PROVE Front(ChildAt(p, n)) \in Trie
    BY <1>3, ChildFacts DEF StopsAt
<1>4. ASSUME NEW c \in Trie \ {<<>>} PROVE Front(c) \in Trie /\ Barred(c)
    BY FrontFacts DEF TrieInv
<1> QED BY <1>1, <1>2, <1>3, <1>4

\* The invariants of the trie, of a step that leaves its nodes.
LEMMA SameTrie ==
    ASSUME TrieInv, PassedInv, SameNodes,
           \A p \in Path : reader'[p].pc = "off" <=> reader[p].pc = "off",
           \A p \in Path : reader[p].pc = "done" => reader'[p].pc = "done",
           \A p \in Trie : /\ reader'[p].pc = "done" => reader[p].pc = "done"
                           /\ reader'[p].base = reader[p].base
                           /\ mux'.chan[p].cancelled = mux.chan[p].cancelled,
           \A p \in Path : On(p) /\ p \notin Trie => mux'.chan[p].end # "open" /\ mux'.chan[p].q = <<>>,
           App => App'
    PROVE  TrieInv' /\ PassedInv'
<1>1. \A p \in Path : On(p)' <=> On(p)
    BY DEF On
<1>2. TrieInv'
    <2>1. /\ <<>> \in Trie' /\ Trie' \subseteq Path /\ \A p \in Trie' : Prefixes(p) \subseteq Trie'
          /\ \A p \in Trie' \ {<<>>} : Barred(p)'
        BY SameNodesFacts DEF TrieInv, SameNodes
    <2>2. ASSUME NEW p \in Trie'
          PROVE  /\ On(p)' /\ (Node(p)'.done <=> reader'[p].pc = "done")
                 /\ Node(p)'.sealed <=> Node(p)'.done \/ (p # <<>> /\ ~Nested(p))
                 /\ Node(p)'.decided = reader'[p].base
                 /\ ~mux'.chan[p].cancelled
        <3>1. p \in Trie /\ p \in Path
            BY DEF TrieInv, SameNodes
        <3>2. /\ On(p) /\ (Node(p).done <=> reader[p].pc = "done")
              /\ Node(p).sealed <=> Node(p).done \/ (p # <<>> /\ ~Nested(p))
              /\ Node(p).decided = reader[p].base
              /\ ~mux.chan[p].cancelled
            BY <3>1 DEF TrieInv
        <3> QED BY <1>1, <3>1, <3>2 DEF SameNodes
    <2> QED BY <2>1, <2>2 DEF TrieInv
<1>3. PassedInv'
    <2> SUFFICES ASSUME NEW p \in Path, On(p)', p \notin Trie'
                 PROVE  /\ \E n \in Path : StopsAt(p, n)' /\ Barred(ChildAt(p, n))'
                        /\ mux'.chan[p].end # "open" /\ mux'.chan[p].q = <<>>
                        /\ reader'[p].pc # "done" => App'
        BY DEF PassedInv
    <2>1. On(p) /\ p \notin Trie
        BY <1>1 DEF SameNodes
    <2>2. /\ \E n \in Path : StopsAt(p, n) /\ Barred(ChildAt(p, n))
          /\ reader[p].pc # "done" => App
        BY <2>1 DEF PassedInv
    <2> QED BY <2>1, <2>2, SameNodesFacts
<1> QED BY <1>2, <1>3

\* The invariant of what is buffered, of such a step.
LEMMA SamePend ==
    ASSUME TrieInv, PendInv, SameNodes, SamePending,
           \A p \in Path : p \notin Trie /\ ~mux.pend[p].in => mux'.chan[p].q = <<>>,
           \A p \in Path : mux.pend[p].in /\ ~mux.chan[p].cancelled => ~mux'.chan[p].cancelled
    PROVE  PendInv'
<1>1. ASSUME NEW p \in Path, mux'.pend[p].in
      PROVE  /\ StopsAt(p, mux.pend[p].at)' /\ ~Barred(ChildAt(p, mux.pend[p].at))'
             /\ mux'.pend[p].at = <<>> => p[1] \in Params
             /\ ~mux'.chan[p].cancelled
    <2>1. mux.pend[p].in /\ mux'.pend[p].at = mux.pend[p].at
        BY <1>1 DEF SamePending
    <2>2. StopsAt(p, mux.pend[p].at) /\ ~Barred(ChildAt(p, mux.pend[p].at)) /\ (mux.pend[p].at = <<>> => p[1] \in Params)
          /\ ~mux.chan[p].cancelled
        BY <2>1 DEF PendInv
    <2>3. PICK n : StopsAt(p, n) /\ ~Barred(ChildAt(p, n)) /\ n = mux'.pend[p].at
        BY <2>1, <2>2
    <2>4. StopsAt(p, n)' /\ ~Barred(ChildAt(p, n))'
        BY <2>3, SameNodesFacts
    <2>5. StopsAt(p, mux.pend[p].at)' /\ ~Barred(ChildAt(p, mux.pend[p].at))'
        BY <2>3, <2>4 DEF StopsAt, Barred, Node, Trie
    <2> QED BY <2>1, <2>2, <2>5
<1>2. ASSUME NEW p \in Path, p \notin Trie', ~mux'.pend[p].in PROVE mux'.chan[p].q = <<>>
    BY <1>2 DEF SamePending, SameNodes
<1>3. \A p \in Path : mux'.pend[p].in =>
        /\ StopsAt(p, mux.pend[p].at)' /\ ~Barred(ChildAt(p, mux.pend[p].at))'
        /\ mux'.pend[p].at = <<>> => p[1] \in Params
        /\ ~mux'.chan[p].cancelled
    BY <1>1
<1> QED BY <1>2, <1>3 DEF PendInv, StopsAt, Barred, Trie, Node

\* What holds while nobody is to blame, of such a step.
LEMMA SameCalm ==
    ASSUME CalmInv, SameNodes, \A p \in Trie : ~Node(p)'.closed, SamePending,
           mux'.inbound = mux.inbound \/ (mux'.inbound # "open" /\ Complete),
           sent' = sent, ingress' = ingress \/ CalmIngress',
           \A p \in Path : queue'[p].cancelled = queue[p].cancelled,
           \A p \in Path : reader'[p].pc = "off" <=> reader[p].pc = "off",
           \A p \in Path : Tidy(mux.chan[p], reader[p]) => Tidy(mux'.chan[p], reader'[p]),
           \A p \in Path : mux'.inbound = "open" /\ ((p \in Trie /\ ~Node(p).done) \/ mux.pend[p].in) =>
                (mux.chan[p].end = "open" => mux'.chan[p].end = "open")
    PROVE  CalmInv'
<1>1. /\ Trie' = Trie /\ \A p \in Trie : Node(p)'.done = Node(p).done
      /\ \A p \in Path : On(p)' <=> On(p)
      /\ \A p : Declared(p)' <=> Declared(p)
      /\ \A p : AllDeclared(p)' <=> AllDeclared(p)
      /\ \A p : Open(p)' <=> Open(p)
      /\ Complete' <=> Complete
    BY DEF SameNodes, On, Declared, AllDeclared, Open, Complete
<1>2. \A p \in Path : ~queue'[p].cancelled /\ ~mux'.pend[p].closed /\ Tidy(mux'.chan[p], reader'[p])
    BY DEF CalmInv, SamePending
<1>3. \A p \in Trie' : ~Node(p)'.closed
    BY <1>1 DEF CalmInv
<1>4. \A p \in Path : sent'[p].n > 0 \/ mux'.pend[p].in \/ On(p)' => AllDeclared(p)'
    BY <1>1 DEF CalmInv, SamePending
<1>5. \A p \in Path :
        mux'.inbound = "open" /\ ((p \in Trie' /\ ~Node(p)'.done) \/ mux'.pend[p].in) =>
        mux'.chan[p].end = "open"
    BY <1>1 DEF CalmInv, SamePending
<1>6. \A x \in Path : On(x)' /\ x \notin Trie' =>
        \A p \in Path : x \in Prefixes(p) /\ Declared(p)' => sent'[p].over
    BY <1>1 DEF CalmInv
<1>7. sent'[<<>>].n <= 1 /\ (mux'.inbound # "open" => Complete')
    BY <1>1 DEF CalmInv
<1>8. CalmIngress'
    <2> SUFFICES ASSUME ingress' = ingress PROVE CalmIngress'
        OBVIOUS
    <2>1. /\ ingress'.pc \in {"room", "route", "send"} => AllDeclared(ingress.path)' /\ ingress'.n > 0
          /\ ingress'.pc \in {"room", "route"} => Open(ingress.path)'
        BY <1>1 DEF CalmInv, CalmIngress
    <2>2. ASSUME ingress.pc = "send", Open(ingress.path)
          PROVE  ingress'.path \in Trie' \/ mux'.pend[ingress'.path].in
        <3>1. ingress.path \in Trie \/ mux.pend[ingress.path].in
            BY <2>2 DEF CalmInv, CalmIngress
        <3>2. ingress.path \in Path
            BY <2>2 DEF Open
        <3> QED BY <1>1, <3>1, <3>2 DEF SamePending
    <2>3. Open(ingress.path)' <=> Open(ingress.path)
        BY DEF Open
    <2> QED BY <2>1, <2>2, <2>3 DEF CalmIngress
<1> QED BY <1>2, <1>3, <1>4, <1>5, <1>6, <1>7, <1>8 DEF CalmInv

-----------------------------------------------------------------------------
(* As long as nobody is to blame                                           *)

\* Every node has its parent.
LEMMA TrieClosed == ASSUME TrieInv PROVE Closed(Trie)
BY DEF TrieInv, Closed

\* Where a lookup stops depends on the nodes only.
LEMMA StopsSame == ASSUME NEW p, NEW n PROVE StopsAt(p, n) <=> StopsIn(DOMAIN mux.trie, p, n)
BY DEF StopsAt, StopsIn, Trie

\* What the peer declared is in something it declared.
LEMMA DeclaredAll ==
    ASSUME Streams, CalmInv, NEW p \in Path, Declared(p)
    PROVE  AllDeclared(p)
<1>1. SUFFICES ASSUME NEW x \in Prefixes(p) PROVE Declared(x)
    BY DEF AllDeclared
<1>2. CASE x = p
    BY <1>2
<1>3. CASE x = <<>>
    BY <1>3 DEF Declared
<1>4. CASE x # p /\ x # <<>>
    <2>1. x \in Path /\ Len(x) < Len(p) /\ Len(x) \in Nat /\ Len(p) \in Nat /\ Len(x) # 0
        BY <1>4, PrefixFacts, FrontFacts
    <2>2. p # <<>> /\ Len(p) > 1
        BY <2>1
    <2>3. Front(p) \in Path /\ x \in Prefixes(Front(p))
        BY <1>4, <2>2, FrontFacts
    <2>4. Last(p) < sent[Front(p)].elems /\ Last(p) \in Nat
        BY <2>2, FrontFacts DEF Declared
    <2>5. sent[Front(p)].n > 0
        <3>1. StreamInv(Front(p), mux.chan[Front(p)], reader[Front(p)], decoded[Front(p)], sent[Front(p)], App)
            BY <2>3 DEF Streams
        <3>2. sent[Front(p)].elems <= sent[Front(p)].n /\ sent[Front(p)].n \in Nat /\ sent[Front(p)].elems \in Nat
            BY <3>1 DEF StreamInv, FlowInv, SentType
        <3> QED BY <2>4, <3>2
    <2> QED BY <2>3, <2>5 DEF CalmInv, AllDeclared
<1> QED BY <1>2, <1>3, <1>4

\* A stream read to its end had all its elements declared.
LEMMA DoneElems ==
    ASSUME Streams, CalmInv, ~App, NEW p \in Path, p # <<>>, Nested(p), reader[p].pc = "done"
    PROVE  sent[p].elems = reader[p].base
<1> DEFINE c == mux.chan[p]
           r == reader[p]
           s == sent[p]
<1>1. StreamInv(p, c, r, decoded[p], s, App) /\ Tidy(c, r)
    BY DEF Streams, CalmInv
<1> HIDE DEF c, r, s
<1>2. r.pc = "done"
    BY DEF r
<1>3. c.q = <<>> /\ ~Holding(c, r) /\ s.over
    BY <1>1, <1>2 DEF StreamInv, ChanInv, EndInv, Holding
<1>4. s.n = decoded[p] /\ decoded[p] = r.base + 1 /\ s.n = s.elems + 1
    BY <1>1, <1>2, <1>3 DEF StreamInv, FlowInv, EndInv, OneIf, SentType
<1> QED BY <1>1, <1>4 DEF StreamInv, SentType, ReaderType, r, s

\* What the peer declared and whose lookup is barred was read to its end.
LEMMA BarredOver ==
    ASSUME Streams, TrieInv, StartedInv, CalmInv, ~App,
           NEW p \in Path, Declared(p), NEW n, StopsAt(p, n), Barred(ChildAt(p, n))
    PROVE  sent[p].over
<1> DEFINE c == ChildAt(p, n)
<1>1. n \in Trie /\ n \in Path /\ n \in Prefixes(p) /\ n # p /\ c \notin Trie
    BY DEF StopsAt, TrieInv
<1>2. c \in Path /\ c \in Prefixes(p) /\ c # <<>> /\ Len(c) = Len(n) + 1 /\ Front(c) = n /\ Last(c) \in Nat
    BY <1>1, ChildFacts, FrontFacts
<1>3. Nested(n) /\ Len(n) \in Nat
    BY <1>1, ChildAppend, PrefixFacts
<1>4. Declared(c)
    BY <1>2, DeclaredAll DEF AllDeclared
<1>5. /\ Node(n).done <=> reader[n].pc = "done"
      /\ Node(n).sealed <=> Node(n).done \/ (n # <<>> /\ ~Nested(n))
      /\ Node(n).decided = reader[n].base
    BY <1>1 DEF TrieInv
<1>6. reader[n].pc = "done" \/ Last(c) < reader[n].base
    BY <1>2, <1>3, <1>5 DEF Barred
<1>7. On(c)
    <2>1. CASE n = <<>>
        <3>1. Len(c) = 1 /\ Last(c) \in Params
            BY <1>2, <1>4, <2>1, RootPath DEF Declared
        <3>2. reader[<<>>].base = 0
            <4>1. StreamInv(<<>>, mux.chan[<<>>], reader[<<>>], decoded[<<>>], sent[<<>>], App)
                BY RootPath DEF Streams
            <4> QED BY <4>1 DEF StreamInv, FlowInv
        <3>3. reader[<<>>].pc = "done"
            BY <1>2, <1>6, <2>1, <3>2
        <3>4. c = <<Last(c)>>
            <4>1. c = ChildAt(c, <<>>)
                BY <1>2, <2>1, ChildIsSelf
            <4>2. c = <<c[1]>>
                BY <1>2, <4>1, LengthOne
            <4> QED BY <3>1, <4>2 DEF Last
        <3> QED BY <3>1, <3>3, <3>4 DEF StartedInv
    <2>2. CASE n # <<>>
        <3>1. Len(n) # 0 /\ Len(c) > 1
            BY <1>1, <1>2, <1>3, <2>2, FrontFacts
        <3>2. Last(c) < sent[n].elems
            BY <1>2, <1>4, <3>1 DEF Declared
        <3>3. Last(c) < reader[n].base
            BY <1>1, <1>3, <1>6, <2>2, <3>2, DoneElems
        <3> QED BY <1>2, <3>1, <3>3 DEF StartedInv
    <2> QED BY <2>1, <2>2
<1> QED BY <1>1, <1>2, <1>7 DEF CalmInv

\* What a sub-stream is that the peer may send to.
LEMMA OpenDeclared ==
    ASSUME NEW p, Open(p)
    PROVE  p \in Path /\ Declared(p) /\ ~sent[p].over /\ (p = <<>> => sent[p].n = 0)
<1>1. p \in Path /\ ~sent[p].over
    BY DEF Open
<1>2. CASE p = <<>>
    BY <1>1, <1>2, RootPath DEF Open, Declared
<1>3. CASE p # <<>>
    <2>1. Len(p) \in Nat \ {0}
        BY <1>1, <1>3, FrontFacts
    <2>2. CASE Len(p) = 1
        <3>1. sent[<<>>].n > 0 /\ Last(p) \in Params
            BY <1>3, <2>2 DEF Open
        <3> QED BY <1>1, <1>3, <2>2, <3>1 DEF Declared
    <2>3. CASE Len(p) # 1
        <3>1. Last(p) < sent[Front(p)].elems
            BY <1>3, <2>3 DEF Open
        <3> QED BY <1>1, <1>3, <2>3, <3>1 DEF Declared
    <2> QED BY <2>2, <2>3
<1> QED BY <1>2, <1>3

\* Nobody read it to its end.
LEMMA OpenNotDone ==
    ASSUME Streams, ~App, NEW p, Open(p)
    PROVE  reader[p].pc # "done"
<1>1. p \in Path /\ Declared(p) /\ ~sent[p].over /\ (p = <<>> => sent[p].n = 0)
    BY OpenDeclared
<1>2. StreamInv(p, mux.chan[p], reader[p], decoded[p], sent[p], App)
    BY <1>1 DEF Streams
<1>3. CASE p = <<>>
    <2> DEFINE c == mux.chan[p]
               r == reader[p]
               s == sent[p]
               d == decoded[p]
    <2>1. StreamInv(p, c, r, d, s, App) /\ s.n = 0
        BY <1>1, <1>2, <1>3
    <2> HIDE DEF c, r, s, d
    <2>2. /\ s.n = d + Len(c.q) + OneIf(Holding(c, r)) /\ d = OneIf(r.pc = "done")
          /\ Len(c.q) \in Nat
        BY <1>3, <2>1 DEF StreamInv, FlowInv, ChanType
    <2>3. OneIf(Holding(c, r)) \in Nat
        BY DEF OneIf
    <2>4. r.pc # "done"
        <3>1. SUFFICES ASSUME r.pc = "done" PROVE FALSE
            OBVIOUS
        <3>2. d = 1
            BY <2>2, <3>1 DEF OneIf
        <3> QED BY <2>1, <2>2, <2>3, <3>2
    <2> QED BY <2>4 DEF r
<1>4. CASE p # <<>>
    BY <1>1, <1>2, <1>4 DEF StreamInv, EndInv
<1> QED BY <1>3, <1>4

\* Data of a sub-stream the peer declared, and did not end, is expected.
LEMMA OpenExpected ==
    ASSUME TypeInv, Streams, TrieInv, StartedInv, CalmInv, ~App, NEW p, Open(p)
    PROVE  ~Unexpected(mux, p)
<1>1. p \in Path /\ Declared(p) /\ ~sent[p].over /\ (p = <<>> => sent[p].n = 0)
    BY OpenDeclared
<1>2. StreamInv(p, mux.chan[p], reader[p], decoded[p], sent[p], App)
    BY <1>1 DEF Streams
<1>3. CASE p \in Trie
    <2>1. Stop(mux, p) = p
        BY <1>1, <1>3, StopKnown DEF Trie
    <2>2. reader[p].pc # "done"
        BY OpenNotDone
    <2>3. ~Node(p).done /\ ~Node(p).closed /\ Node(p).chan = TRUE
        BY <1>3, <2>2 DEF TrieInv, CalmInv, TypeInv, NodeType, Node
    <2> QED BY <2>1, <2>3 DEF Unexpected, Node
<1>4. CASE p \notin Trie
    <2>1. PICK n \in Path : StopsIn(Trie, p, n)
        BY <1>1, <1>4, TrieClosed, StopsSomewhere
    <2>2. StopsAt(p, n) /\ Stop(mux, p) = n /\ n # p /\ n \in Prefixes(p)
        BY <1>1, <2>1, TrieClosed, StopMissing, StopsSame DEF Trie, StopsIn
    <2>3. ~Barred(ChildAt(p, n))
        BY <1>1, <2>2, BarredOver
    <2>4. Front(ChildAt(p, n)) = n /\ Last(ChildAt(p, n)) = p[Len(n) + 1] /\ ChildAt(p, n) \in Path
          /\ ChildAt(p, n) \in Prefixes(p) /\ Len(ChildAt(p, n)) = Len(n) + 1
        BY <1>1, <2>2, ChildFacts
    <2>5. n = <<>> => p[Len(n) + 1] \in Params
        <3> SUFFICES ASSUME n = <<>> PROVE p[Len(n) + 1] \in Params
            OBVIOUS
        <3>1. Declared(ChildAt(p, n))
            BY <1>1, <2>4, DeclaredAll DEF AllDeclared
        <3> QED BY <2>4, <3>1, RootPath DEF Declared
    <2> QED BY <2>2, <2>3, <2>4, <2>5 DEF Unexpected, Barred, Node
<1> QED BY <1>3, <1>4

-----------------------------------------------------------------------------
(* Ingress                                                                 *)

\* A step fails the invocation for a reason, or keeps the invariant.
Kept == (mux'.aborted = TRUE /\ blame' # {}) \/ AliveInv'

\* The state of the multiplexer is a record.
LEMMA MuxIs == ASSUME TypeInv PROVE MuxRec(mux) /\ mux.aborted = FALSE
BY DEF TypeInv, MuxRec

\* What the methods of the multiplexer rely on
MuxOk(m) ==
    /\ MuxRec(m) /\ m.aborted = FALSE /\ m.inbound \in {"open", "eof"}
    /\ m.pend \in [Path -> PendType] /\ m.chan \in [Path -> ChanType]
    /\ Closed(DOMAIN m.trie) /\ m.trie = [x \in DOMAIN m.trie |-> m.trie[x]]
    /\ \A x \in DOMAIN m.trie : m.trie[x] \in NodeType
    /\ \A x \in Path : m.pend[x].in => StopsIn(DOMAIN m.trie, x, m.pend[x].at)

\* The methods can rely on it.
LEMMA MuxIsOk == ASSUME TypeInv, TrieInv, PendInv PROVE MuxOk(mux)
<1>1. \A x \in Path : mux.pend[x].in => StopsIn(DOMAIN mux.trie, x, mux.pend[x].at)
    BY StopsSame DEF PendInv
<1>2. Closed(DOMAIN mux.trie)
    BY TrieClosed DEF Trie
<1> QED BY <1>1, <1>2, MuxIs DEF MuxOk, TypeInv, Trie

\* The methods, of a multiplexer they can rely on.
LEMMA FinishOk ==
    ASSUME NEW m, MuxOk(m), NEW p \in Path, p \in DOMAIN m.trie
    PROVE  IsFinished(Finish(m, p), m, p)
BY FinishIs DEF MuxOk

\* `seal` of an element whose stream has a node.
LEMMA ElementOk ==
    ASSUME NEW m, MuxOk(m), NEW p \in Path, p \in DOMAIN m.trie, Nested(p), NEW e \in Path, e # <<>>,
           Front(e) = p, e \notin DOMAIN m.trie, m.trie[p].decided = Last(e), ~m.trie[p].sealed
    PROVE  IsGrown(SealElement(m, e), m, p, e, {x \in {e} : m.pend[x].in})
BY SealElementIs DEF MuxOk

\* `seal` of an element whose stream was forgotten.
LEMMA ForgottenOk ==
    ASSUME NEW m, MuxOk(m), NEW e \in Path, e # <<>>, Front(e) \notin DOMAIN m.trie,
           NEW n, StopsIn(DOMAIN m.trie, e, n), NoneBelow(m, ChildAt(e, n))
    PROVE  Untouched(SealElement(m, e), m)
BY SealElementForgotten DEF MuxOk

\* `discard` of elements.
LEMMA DiscardOk ==
    ASSUME NEW m, MuxOk(m), NEW p \in DOMAIN m.trie, NEW from, NEW to
    PROVE  IsDiscarded(Discard(m, p, from, to), m, p, LostIn(m, p, from, to))
<1>1. DOMAIN m.trie \subseteq Path
    BY DEF MuxOk, Closed
<1> QED BY <1>1, DiscardIs DEF MuxOk

\* A failure there is a reason for.
LEMMA AbortKept ==
    ASSUME TypeInv, mux' = Abort(mux), blame' # {}
    PROVE  Kept
<1>1. Abort(mux).aborted = TRUE
    BY MuxIs, AbortIs
<1> QED BY <1>1 DEF Kept

\* The type invariant, but for the readers and the channels
MuxType(m) ==
    /\ MuxRec(m) /\ m.aborted = FALSE
    /\ m.trie = [p \in DOMAIN m.trie |-> m.trie[p]] /\ \A p \in DOMAIN m.trie : m.trie[p] \in NodeType
    /\ m.pend \in [Path -> PendType] /\ m.inbound \in {"open", "eof"}
QueueType == [Path -> [n : Nat, taken : Nat, closed : BOOLEAN, cancelled : BOOLEAN]]
IngressType(i) == i = [pc |-> i.pc, path |-> i.path, n |-> i.n] /\ i.path \in Path /\ i.n \in Nat

\* The type invariant in parts.
LEMMA TypeIs ==
    TypeInv <=> /\ MuxType(mux) /\ mux.chan \in [Path -> ChanType]
                /\ reader \in [Path -> ReaderType] /\ decoded \in [Path -> Nat] /\ sent \in [Path -> SentType]
                /\ queue \in QueueType /\ IngressType(ingress)
BY DEF TypeInv, MuxType, MuxRec, QueueType, IngressType, Trie

\* A step that leaves the streams
SameStreams ==
    /\ mux'.chan = mux.chan /\ reader' = reader /\ decoded' = decoded /\ sent' = sent

\* The streams are as before.
LEMMA StreamsKept ==
    ASSUME Streams, SameStreams, App' <=> App
    PROVE  Streams'
BY DEF Streams, SameStreams, App

\* The header of a frame is read.
LEMMA FrameKept ==
    ASSUME AliveInv, NEW p \in WirePath, NEW n \in 0..MaxFrameChunks, IngressFrame(p, n)
    PROVE  Kept
<1> USE DEF AliveInv
<1>1. ingress.pc = "loop" /\ blame' = Blamed(n > 0 /\ Open(p))
    BY DEF IngressFrame
<1>2. CASE Len(p) > Depth
    <2>1. mux' = Abort(mux)
        BY <1>2 DEF IngressFrame
    <2>2. ~Open(p)
        <3>1. p \notin Path
            BY <1>2, PathSeq
        <3> QED BY <3>1 DEF Open
    <2> QED BY <1>1, <2>1, <2>2, AbortKept DEF Blamed
<1>3. CASE ~(Len(p) > Depth)
    <2>1. mux' = mux /\ ingress' = [pc |-> "room", path |-> p, n |-> n]
        BY <1>3 DEF IngressFrame
    <2>2. UNCHANGED <<reader, queue, tx, finished, sent, decoded>>
        BY DEF IngressFrame
    <2>3. p \in Path
        <3>1. p \in Seq(Index) /\ Depth \in Nat
            BY JsMuxAssumption
        <3> QED BY <1>3, <3>1, SeqPath
    <2>4. (App' <=> App) /\ (blame' = {} => blame = {} /\ n > 0 /\ Open(p))
        BY <1>1 DEF Blamed, App
    <2>5. TypeInv'
        <3>1. IngressType(ingress)'
            BY <2>1, <2>3, JsMuxAssumption DEF IngressType
        <3> QED BY <2>1, <2>2, <3>1 DEF TypeInv, IngressType, Trie
    <2>6. Streams'
        BY <2>1, <2>2, <2>4, StreamsKept DEF SameStreams
    <2>7. SamePending
        BY <2>1 DEF SamePending, TypeInv
    <2>8. SameNodes
        BY <2>1 DEF SameNodes, Trie, Node
    <2>9. TrieInv' /\ PassedInv' /\ PendInv'
        BY <2>1, <2>2, <2>4, <2>7, <2>8, SameTrie, SamePend DEF PendInv, PassedInv
    <2>10. IngressInv' /\ StartedInv'
        BY <1>1, <2>1, <2>2, <2>4 DEF IngressInv, StartedInv, On
    <2>11. ASSUME blame' = {} PROVE CalmInv'
        <3>1. CalmInv /\ Open(p)
            BY <2>4, <2>11
        <3>2. AllDeclared(p)
            BY <2>3, <3>1, OpenDeclared, DeclaredAll
        <3>3. CalmIngress'
            BY <2>1, <2>2, <2>4, <2>11, <3>1, <3>2 DEF CalmIngress, AllDeclared, Declared, Open
        <3>4. \A x \in Trie : ~Node(x)'.closed
            BY <2>1, <3>1 DEF CalmInv, Node
        <3> QED BY <2>1, <2>2, <2>7, <2>8, <3>1, <3>3, <3>4, SameCalm
    <2> QED BY <2>5, <2>6, <2>10, <2>11, <2>9 DEF Kept
<1> QED BY <1>2, <1>3

\* A step that leaves the readers and their channels
LEMMA QuietKept ==
    ASSUME AliveInv, MuxRec(mux)', mux'.trie = mux.trie, mux'.chan = mux.chan,
           mux'.inbound = mux.inbound, mux'.aborted = FALSE, SamePending,
           reader' = reader, decoded' = decoded, sent' = sent, blame' = blame,
           queue' \in QueueType, \A p \in Path : queue'[p].cancelled = queue[p].cancelled,
           IngressType(ingress'), IngressInv', ingress' = ingress \/ (blame = {} => CalmIngress')
    PROVE  AliveInv'
<1> USE DEF AliveInv
<1>1. TypeInv'
    BY DEF TypeInv, MuxRec, QueueType, IngressType, SamePending, Trie
<1>2. App' <=> App
    BY DEF App
<1>3. Streams'
    BY <1>2, StreamsKept DEF SameStreams
<1>4. SameNodes
    BY DEF SameNodes, Trie, Node
<1>5. TrieInv' /\ PendInv' /\ PassedInv'
    BY <1>2, <1>4, SameTrie, SamePend DEF PendInv, PassedInv
<1>6. StartedInv'
    BY <1>2 DEF StartedInv, On
<1>7. ASSUME blame' = {} PROVE CalmInv'
    <2>1. \A x \in Trie : ~Node(x)'.closed
        BY <1>7 DEF CalmInv, Node
    <2> QED BY <1>7, <1>4, <2>1, SameCalm
<1> QED BY <1>1, <1>3, <1>5, <1>6, <1>7

\* `_room`: a full buffer fails the invocation only for data that is
\* unexpected.
LEMMA RoomKept ==
    ASSUME AliveInv, IngressRoom
    PROVE  Kept
<1> USE DEF AliveInv
<1> DEFINE p == ingress.path
           full == PendingCount(mux) >= MaxPending
<1>1. ingress.pc = "room" /\ UNCHANGED <<reader, queue, tx, finished, frames, sent, decoded, blame>>
    BY DEF IngressRoom
<1>2. CASE full /\ Unexpected(mux, p)
    <2>1. mux' = Abort(mux)
        BY <1>2 DEF IngressRoom
    <2>2. blame # {}
        <3>1. SUFFICES ASSUME blame = {} PROVE FALSE
            OBVIOUS
        <3>2. CalmInv /\ Open(p) /\ ~App
            BY <1>1, <3>1 DEF CalmInv, CalmIngress, App
        <3> QED BY <1>2, <3>2, OpenExpected
    <2> QED BY <1>1, <2>1, <2>2, AbortKept
<1>3. CASE ~(full /\ Unexpected(mux, p)) /\ full /\ Undecided(mux, p) /\ ~Buffered(mux, p)
    <2>1. mux' = [mux EXCEPT !.asleep = TRUE] /\ ingress' = ingress
        BY <1>3 DEF IngressRoom
    <2> DEFINE w == mux'
               v == TRUE
    <2>2. w = [mux EXCEPT !.asleep = v]
        BY <2>1
    <2> HIDE DEF w, v
    <2>3. /\ MuxRec(w) /\ w.trie = mux.trie /\ w.chan = mux.chan
          /\ w.pend = mux.pend /\ w.inbound = mux.inbound /\ w.aborted = mux.aborted
        BY <2>2, MuxIs, AsleepIs
    <2>4. /\ MuxRec(mux') /\ mux'.trie = mux.trie /\ mux'.chan = mux.chan
          /\ mux'.pend = mux.pend /\ mux'.inbound = mux.inbound /\ mux'.aborted = mux.aborted
        BY <2>3 DEF w
    <2>5. SamePending
        BY <2>4 DEF SamePending, TypeInv
    <2>6. IngressInv'
        BY <2>1, <2>4 DEF IngressInv, Trie
    <2> QED BY <1>1, <2>1, <2>4, <2>5, <2>6, TypeIs, MuxIs, QuietKept DEF Kept
<1>4. CASE ~(full /\ Unexpected(mux, p)) /\ ~(full /\ Undecided(mux, p) /\ ~Buffered(mux, p))
    <2>1. mux' = mux /\ ingress' = [ingress EXCEPT !.pc = "route"]
        BY <1>4 DEF IngressRoom
    <2>2. IngressType(ingress') /\ ingress'.pc = "route" /\ ingress'.path = ingress.path /\ ingress'.n = ingress.n
        BY <2>1, TypeIs DEF IngressType
    <2>3. SamePending
        BY <2>1 DEF SamePending, TypeInv
    <2>4. IngressInv'
        BY <1>1, <2>1, <2>2 DEF IngressInv, Trie
    <2>5. ASSUME blame = {} PROVE CalmIngress'
        <3>1. CalmIngress
            BY <2>5 DEF CalmInv
        <3> QED BY <1>1, <2>1, <2>2, <3>1 DEF CalmIngress, AllDeclared, Declared, Open
    <2> QED BY <1>1, <2>1, <2>2, <2>3, <2>4, <2>5, TypeIs, MuxIs, QuietKept DEF Kept
<1> QED BY <1>2, <1>3, <1>4

\* The application takes a chunk.
LEMMA TakeKept ==
    ASSUME AliveInv, NEW p \in Path, Take(p)
    PROVE  Kept
<1> USE DEF AliveInv
<1>1. /\ queue[p].n > 0 /\ queue' = [queue EXCEPT ![p].n = @ - 1, ![p].taken = @ + 1]
      /\ UNCHANGED <<mux, reader, ingress, tx, finished, frames, sent, decoded, blame>>
    BY DEF Take
<1>2. queue' \in QueueType /\ \A x \in Path : queue'[x].cancelled = queue[x].cancelled
    <2>1. queue \in QueueType
        BY TypeIs
    <2> QED BY <1>1, <2>1 DEF QueueType
<1>3. SamePending
    BY <1>1 DEF SamePending, TypeInv
<1>4. IngressInv'
    BY <1>1 DEF IngressInv, Trie
<1> QED BY <1>1, <1>2, <1>3, <1>4, TypeIs, MuxIs, QuietKept DEF Kept

\* The other direction, the end of the invocation, and failures.
LEMMA TxKept ==
    ASSUME AliveInv, TxClose \/ TxFail \/ Resolve \/ IngressFail
    PROVE  Kept
<1> USE DEF AliveInv
<1>1. CASE TxFail \/ IngressFail
    BY <1>1, AbortKept DEF TxFail, IngressFail
<1>2. CASE TxClose \/ Resolve
    <2>1. UNCHANGED <<mux, reader, queue, ingress, frames, sent, decoded, blame>>
        BY <1>2 DEF TxClose, Resolve
    <2>2. SamePending
        BY <2>1 DEF SamePending, TypeInv
    <2>3. IngressInv'
        BY <2>1 DEF IngressInv, Trie
    <2> QED BY <2>1, <2>2, <2>3, TypeIs, MuxIs, QuietKept DEF Kept
<1> QED BY <1>1, <1>2

\* The type invariant of the next state, from its streams.
LEMMA TypeNext ==
    ASSUME MuxType(mux'), Streams', mux'.chan = [p \in Path |-> mux'.chan[p]],
           reader' = [p \in Path |-> reader'[p]], decoded' = [p \in Path |-> decoded'[p]],
           sent' = [p \in Path |-> sent'[p]], queue' \in QueueType, IngressType(ingress')
    PROVE  TypeInv'
<1>1. \A p \in Path : /\ mux'.chan[p] \in ChanType /\ reader'[p] \in ReaderType
                      /\ decoded'[p] \in Nat /\ sent'[p] \in SentType
    BY DEF Streams, StreamInv
<1>2. mux'.chan \in [Path -> ChanType]
    BY <1>1
<1>3. reader' \in [Path -> ReaderType]
    BY <1>1
<1>4. decoded' \in [Path -> Nat]
    BY <1>1
<1>5. sent' \in [Path -> SentType]
    BY <1>1
<1> QED BY <1>2, <1>3, <1>4, <1>5 DEF TypeInv, MuxType, MuxRec, QueueType, IngressType, Trie

\* The transport ends: nothing more arrives, and every channel knows.
LEMMA EndKept ==
    ASSUME AliveInv, IngressEnd
    PROVE  Kept
<1> USE DEF AliveInv
<1>1. /\ ingress.pc = "loop" /\ ingress' = [ingress EXCEPT !.pc = "end"] /\ blame' = Blamed(Complete)
      /\ mux' = CloseInbound(mux, "eof")
      /\ UNCHANGED <<reader, queue, tx, finished, frames, sent, decoded>>
    BY DEF IngressEnd
<1>2. mux.inbound = "open"
    BY <1>1 DEF IngressInv
<1>3. /\ MuxRec(mux') /\ mux'.trie = mux.trie /\ mux'.pend = mux.pend /\ mux'.aborted = mux.aborted
      /\ mux'.inbound = "eof"
      /\ mux'.chan = [p \in Path |-> IF p \in Chans(mux) THEN Close(mux.chan[p], "eof") ELSE mux.chan[p]]
    BY <1>1, <1>2, MuxIs, CloseInboundIs
<1>4. \A p \in Path : mux'.chan[p] = mux.chan[p] \/ mux'.chan[p] = Close(mux.chan[p], "eof")
    BY <1>3
<1>5. App' = App /\ App \in BOOLEAN /\ (blame' = {} => blame = {} /\ Complete)
    BY <1>1 DEF App, Blamed
<1>6. ASSUME NEW p \in Path
      PROVE  /\ StreamInv(p, mux'.chan[p], reader'[p], decoded'[p], sent'[p], App')
             /\ mux'.chan[p].q = mux.chan[p].q /\ mux'.chan[p].cancelled = mux.chan[p].cancelled
             /\ mux.chan[p].end # "open" => mux'.chan[p].end # "open"
             /\ Tidy(mux.chan[p], reader[p]) => Tidy(mux'.chan[p], reader'[p])
    <2>1. StreamInv(p, mux.chan[p], reader[p], decoded[p], sent[p], App)
        BY DEF Streams
    <2>2. reader'[p] = reader[p] /\ decoded'[p] = decoded[p] /\ sent'[p] = sent[p]
        BY <1>1
    <2>3. CASE mux'.chan[p] = mux.chan[p]
        BY <1>5, <2>1, <2>2, <2>3
    <2>4. CASE mux'.chan[p] = Close(mux.chan[p], "eof")
        <3> DEFINE c == mux.chan[p]
                   d == mux'.chan[p]
        <3>1. StreamInv(p, c, reader[p], decoded[p], sent[p], App) /\ d = Close(c, "eof")
            BY <2>1, <2>4
        <3> HIDE DEF c, d
        <3>2. /\ StreamInv(p, d, reader[p], decoded[p], sent[p], App)
              /\ d.q = c.q /\ d.end # "open" /\ d.cancelled = c.cancelled
              /\ Tidy(c, reader[p]) => Tidy(d, reader[p])
            BY <1>5, <3>1, StreamClose
        <3> QED BY <1>5, <2>2, <3>2 DEF c, d
    <2> QED BY <1>4, <2>3, <2>4
<1>7. Streams'
    BY <1>6 DEF Streams
<1>8. IngressType(ingress') /\ ingress'.pc = "end"
    BY <1>1, TypeIs DEF IngressType
<1>9. TypeInv'
    <2>1. MuxType(mux')
        BY <1>3, TypeIs DEF MuxType
    <2>2. mux'.chan = [p \in Path |-> mux'.chan[p]]
        BY <1>3
    <2>3. queue' \in QueueType /\ reader' = [p \in Path |-> reader'[p]]
          /\ decoded' = [p \in Path |-> decoded'[p]] /\ sent' = [p \in Path |-> sent'[p]]
        BY <1>1, TypeIs
    <2> QED BY <1>7, <1>8, <2>1, <2>2, <2>3, TypeNext
<1>10. SamePending /\ SameNodes
    BY <1>3 DEF SamePending, TypeInv, SameNodes, Trie, Node
<1>11. TrieInv' /\ PassedInv' /\ PendInv'
    <2>1. \A p \in Path : On(p) /\ p \notin Trie => mux'.chan[p].end # "open" /\ mux'.chan[p].q = <<>>
        BY <1>6 DEF PassedInv
    <2>2. \A p \in Path : p \notin Trie /\ ~mux.pend[p].in => mux'.chan[p].q = <<>>
        BY <1>6 DEF PendInv
    <2>3. Trie \subseteq Path
        BY DEF TrieInv
    <2> QED BY <1>1, <1>5, <1>6, <1>10, <2>1, <2>2, <2>3, SameTrie, SamePend
<1>12. IngressInv'
    BY <1>3, <1>8 DEF IngressInv
<1>13. StartedInv'
    BY <1>1, <1>5 DEF StartedInv, On
<1>14. ASSUME blame' = {} PROVE CalmInv'
    <2>1. CalmInv /\ Complete
        BY <1>5, <1>14
    <2>2. CalmIngress'
        BY <1>8 DEF CalmIngress
    <2>3. \A x \in Trie : ~Node(x)'.closed
        BY <1>3, <2>1 DEF CalmInv, Node
    <2> QED BY <1>1, <1>3, <1>6, <1>10, <2>1, <2>2, <2>3, SameCalm
<1> QED BY <1>7, <1>9, <1>11, <1>12, <1>13, <1>14 DEF Kept

\* The sub-stream of a frame whose sending goes on has an open channel.
LEMMA ChunkExpected ==
    ASSUME AliveInv, ingress.pc = "send", blame = {}, Open(ingress.path)
    PROVE  mux.chan[ingress.path].end = "open"
<1> USE DEF AliveInv
<1> DEFINE p == ingress.path
<1>1. CalmInv /\ ~App /\ mux.inbound = "open" /\ p \in Path
    BY OpenDeclared DEF App, IngressInv
<1>2. p \in Trie \/ mux.pend[p].in
    BY <1>1 DEF CalmInv, CalmIngress
<1>3. p \in Trie => ~Node(p).done
    BY <1>1, OpenNotDone DEF TrieInv
<1> QED BY <1>1, <1>2, <1>3 DEF CalmInv

\* What holds while nobody is to blame, when a chunk arrives that may.
LEMMA ChunkCalm ==
    ASSUME AliveInv, NEW p, p = ingress.path, ingress.pc = "send", blame = {}, Open(p),
           SameNodes, SamePending, mux'.trie = mux.trie, mux'.inbound = mux.inbound,
           queue' = queue, reader' = reader,
           sent'[p].n = sent[p].n + 1, sent'[p].elems \in {sent[p].elems, sent[p].elems + 1},
           \A x \in Path : x # p => sent'[x] = sent[x] /\ mux'.chan[x] = mux.chan[x],
           mux'.chan[p].end = mux.chan[p].end, Tidy(mux'.chan[p], reader'[p]),
           ingress'.pc \in {"loop", "send"}, ingress'.path = p,
           ingress'.pc = "send" => ingress'.n > 0
    PROVE  CalmInv'
<1> USE DEF AliveInv
<1>1. /\ CalmInv /\ p \in Path /\ Declared(p) /\ ~sent[p].over /\ (p = <<>> => sent[p].n = 0)
      /\ mux.inbound = "open" /\ (p \in Trie \/ mux.pend[p].in)
    BY OpenDeclared DEF IngressInv, CalmInv, CalmIngress
<1>2. \A x \in Path : /\ sent[x].n \in Nat /\ sent[x].elems \in Nat
                      /\ sent'[x].n >= sent[x].n /\ sent'[x].elems >= sent[x].elems
    <2>1. \A x \in Path : sent[x].n \in Nat /\ sent[x].elems \in Nat
        BY DEF TypeInv, SentType
    <2>2. ASSUME NEW x \in Path PROVE sent'[x].n >= sent[x].n /\ sent'[x].elems >= sent[x].elems
        <3>1. CASE x = p
            BY <2>1, <3>1
        <3>2. CASE x # p
            BY <2>1, <3>2
        <3> QED BY <3>1, <3>2
    <2> QED BY <2>1, <2>2
<1>3. ASSUME NEW x \in Path, Declared(x) PROVE Declared(x)'
    <2>1. Len(x) > 1 => Front(x) \in Path /\ Last(x) \in Nat
        BY FrontFacts
    <2>2. <<>> \in Path
        BY RootPath
    <2>3. Len(x) = 1 => sent'[<<>>].n > 0 /\ Last(x) \in Params
        BY <1>2, <1>3, <2>2 DEF Declared
    <2>4. Len(x) > 1 => Last(x) < sent'[Front(x)].elems
        <3> SUFFICES ASSUME Len(x) > 1 PROVE Last(x) < sent'[Front(x)].elems
            OBVIOUS
        <3>1. Last(x) < sent[Front(x)].elems /\ sent'[Front(x)].elems >= sent[Front(x)].elems
              /\ sent[Front(x)].elems \in Nat
            BY <1>2, <1>3, <2>1 DEF Declared
        <3>2. sent'[Front(x)].elems \in Nat
            BY <1>2, <2>1
        <3> QED BY <2>1, <3>1, <3>2
    <2> QED BY <2>3, <2>4 DEF Declared
<1>4. ASSUME NEW x \in Path, AllDeclared(x) PROVE AllDeclared(x)'
    BY <1>3, <1>4, PrefixFacts DEF AllDeclared
<1>5. AllDeclared(p)
    BY <1>1, DeclaredAll
<1>6. /\ \A x \in Path : ~queue'[x].cancelled /\ ~mux'.pend[x].closed /\ Tidy(mux'.chan[x], reader'[x])
      /\ \A x \in Trie' : ~Node(x)'.closed
    BY <1>1 DEF CalmInv, SamePending, Trie, Node
<1>7. sent'[<<>>].n <= 1
    <2>1. CASE p = <<>>
        BY <1>1, <2>1
    <2>2. CASE p # <<>>
        BY <1>1, <2>2, RootPath DEF CalmInv
    <2> QED BY <2>1, <2>2
<1>8. ASSUME NEW x \in Path, sent'[x].n > 0 \/ mux'.pend[x].in \/ On(x)' PROVE AllDeclared(x)'
    <2>1. CASE x = p
        BY <1>1, <1>4, <1>5, <2>1
    <2>2. CASE x # p
        <3>1. sent[x].n > 0 \/ mux.pend[x].in \/ On(x)
            BY <1>8, <2>2 DEF SamePending, On
        <3> QED BY <1>1, <1>4, <3>1 DEF CalmInv
    <2> QED BY <2>1, <2>2
<1>9. CalmIngress'
    BY <1>1, <1>4, <1>5 DEF CalmIngress, SamePending, SameNodes
<1>10. ASSUME NEW x \in Path, mux'.inbound = "open", (x \in Trie' /\ ~Node(x)'.done) \/ mux'.pend[x].in
       PROVE  mux'.chan[x].end = "open"
    <2>1. mux.chan[x].end = "open"
        BY <1>1, <1>10 DEF CalmInv, SamePending, Trie, Node
    <2> QED BY <2>1
<1>11. ASSUME NEW x \in Path, On(x)', x \notin Trie', NEW y \in Path, x \in Prefixes(y), Declared(y)'
       PROVE  sent'[y].over
    <2>1. On(x) /\ x \notin Trie
        BY <1>11 DEF On, Trie
    <2>2. Declared(y)
        <3> SUFFICES ASSUME ~Declared(y) PROVE FALSE
            OBVIOUS
        <3>1. y # <<>> /\ Len(y) \in Nat \ {0} /\ Front(y) \in Path /\ Len(Front(y)) = Len(y) - 1
            <4>1. y # <<>>
                BY <2>1, <1>11 DEF Declared
            <4> QED BY <4>1, FrontFacts
        <3>2. Front(y) = p
            <4>1. CASE Len(y) = 1
                <5>1. Front(y) = <<>>
                    BY <3>1, <4>1, FrontFacts
                <5>2. sent'[<<>>] # sent[<<>>]
                    BY <1>11, <4>1 DEF Declared
                <5> QED BY <5>1, <5>2, RootPath
            <4>2. CASE Len(y) # 1
                <5>1. sent'[Front(y)] # sent[Front(y)]
                    BY <1>11, <3>1, <4>2 DEF Declared
                <5> QED BY <3>1, <5>1
            <4> QED BY <4>1, <4>2
        <3>3. CASE x = y
            <4>1. AllDeclared(y)
                BY <1>1, <2>1, <3>3 DEF CalmInv
            <4> QED BY <4>1, PrefixSelf DEF AllDeclared
        <3>4. CASE x # y
            <4>1. x \in Prefixes(p)
                BY <1>11, <3>1, <3>2, <3>4, FrontFacts
            <4> QED BY <1>1, <2>1, <4>1 DEF CalmInv
        <3> QED BY <3>3, <3>4
    <2>3. sent[y].over
        BY <1>1, <1>11, <2>1, <2>2 DEF CalmInv
    <2>4. y # p
        BY <1>1, <2>3
    <2> QED BY <2>3, <2>4
<1>12. mux'.inbound # "open" => Complete'
    BY <1>1
<1> QED BY <1>6, <1>7, <1>8, <1>9, <1>10, <1>11, <1>12 DEF CalmInv

\* A chunk of a frame arrives.
LEMMA ChunkKept ==
    ASSUME AliveInv, NEW v \in Value, IngressChunk(v)
    PROVE  Kept
<1> USE DEF AliveInv
<1>1. PICK p : p = ingress.path
    OBVIOUS
<1> DEFINE t == [n |-> sent[p].n + 1, over |-> sent[p].over \/ v = "end",
                 elems |-> IF v = "some" THEN sent[p].elems + 1 ELSE sent[p].elems]
<1>2. /\ ingress.pc = "send" /\ blame' = Blamed(Open(p))
      /\ p # <<>> /\ v = "some" => sent[p].elems \in Index
      /\ sent' = [sent EXCEPT ![p] = t]
      /\ UNCHANGED <<reader, queue, tx, finished, frames, decoded>>
    BY <1>1 DEF IngressChunk
<1>3. App' = App /\ App \in BOOLEAN /\ (blame' = {} => blame = {} /\ Open(p))
    BY <1>2 DEF App, Blamed
<1>4. CASE mux.chan[p].end # "open"
    <2>1. mux' = Abort(mux)
        BY <1>1, <1>4 DEF IngressChunk
    <2>2. blame' # {}
        BY <1>1, <1>2, <1>3, <1>4, ChunkExpected
    <2> QED BY <2>1, <2>2, AbortKept
<1>5. CASE mux.chan[p].end = "open"
    <2>1. /\ mux' = [mux EXCEPT !.chan[p] = Push(@, v)]
          /\ ingress' = [ingress EXCEPT !.n = @ - 1, !.pc = IF ingress.n = 1 THEN "loop" ELSE "send"]
        BY <1>1, <1>5 DEF IngressChunk
    <2>2. p \in Path /\ ingress.n \in Nat
        BY <1>1 DEF TypeInv
    <2>3. /\ MuxRec(mux') /\ mux'.trie = mux.trie /\ mux'.pend = mux.pend /\ mux'.inbound = mux.inbound
          /\ mux'.aborted = mux.aborted /\ mux'.chan = [mux.chan EXCEPT ![p] = Push(@, v)]
        <3> DEFINE g == [mux.chan EXCEPT ![p] = Push(@, v)]
        <3>1. mux' = [mux EXCEPT !.chan = g]
            BY <2>1, MuxIs DEF MuxRec
        <3> HIDE DEF g
        <3>2. /\ MuxRec(mux') /\ mux'.trie = mux.trie /\ mux'.pend = mux.pend /\ mux'.inbound = mux.inbound
              /\ mux'.aborted = mux.aborted /\ mux'.chan = g
            BY <3>1, MuxIs DEF MuxRec
        <3> QED BY <3>2 DEF g
    <2>4. /\ mux'.chan = [x \in Path |-> mux'.chan[x]] /\ mux'.chan[p] = Push(mux.chan[p], v)
          /\ \A x \in Path : x # p => mux'.chan[x] = mux.chan[x]
        BY <2>2, <2>3 DEF TypeInv
    <2> HIDE DEF t
    <2>5. /\ sent' = [x \in Path |-> sent'[x]] /\ sent'[p] = t
          /\ \A x \in Path : x # p => sent'[x] = sent[x]
        BY <1>2, <2>2 DEF TypeInv
    <2>6. /\ StreamInv(p, mux'.chan[p], reader'[p], decoded'[p], sent'[p], App')
          /\ mux'.chan[p].end = mux.chan[p].end /\ mux'.chan[p].cancelled = mux.chan[p].cancelled
          /\ ~sent[p].over => Tidy(mux'.chan[p], reader'[p])
        <3> DEFINE c == mux.chan[p]
                   s == sent[p]
                   r == reader[p]
                   d == decoded[p]
        <3>1. StreamInv(p, c, r, d, s, App) /\ c.end = "open"
            BY <1>5, <2>2 DEF Streams
        <3>2. t = [n |-> s.n + 1, over |-> s.over \/ v = "end",
                   elems |-> IF v = "some" THEN s.elems + 1 ELSE s.elems]
            BY DEF t
        <3>3. mux'.chan[p] = Push(c, v) /\ sent'[p] = t /\ reader'[p] = r /\ decoded'[p] = d
            BY <1>2, <2>4, <2>5
        <3>4. c.end = mux.chan[p].end /\ c.cancelled = mux.chan[p].cancelled /\ s.over = sent[p].over
            OBVIOUS
        <3> HIDE DEF c, s, r, d
        <3>5. /\ StreamInv(p, Push(c, v), r, d, t, App)
              /\ Push(c, v).end = c.end /\ Push(c, v).cancelled = c.cancelled
              /\ ~s.over => Tidy(Push(c, v), r)
            BY <1>3, <3>1, <3>2, StreamPush
        <3> QED BY <1>3, <3>3, <3>4, <3>5
    <2>7. Streams'
        <3> SUFFICES ASSUME NEW x \in Path
                     PROVE  StreamInv(x, mux'.chan[x], reader'[x], decoded'[x], sent'[x], App')
            BY DEF Streams
        <3>1. CASE x = p
            BY <2>6, <3>1
        <3>2. CASE x # p
            BY <1>2, <1>3, <2>4, <2>5, <3>2 DEF Streams
        <3> QED BY <3>1, <3>2
    <2>8. sent'[p].n = sent[p].n + 1 /\ sent'[p].elems \in {sent[p].elems, sent[p].elems + 1}
          /\ (sent'[p].elems = sent[p].elems + 1 /\ p # <<>> => sent[p].elems \in Index)
          /\ sent[p] \in SentType /\ (sent[p].over => sent'[p].over)
        BY <1>2, <2>2, <2>5 DEF t, TypeInv, SentType
    <2>9. /\ ingress'.pc \in {"loop", "send"} /\ ingress'.path = p
          /\ ingress' = [pc |-> ingress'.pc, path |-> ingress'.path, n |-> ingress'.n]
          /\ ingress'.n = ingress.n - 1 /\ (ingress'.pc = "send" => ingress.n # 1)
        <3>1. IngressType(ingress)
            BY TypeIs
        <3>2. ingress.n = 1 \/ ingress.n # 1
            OBVIOUS
        <3> QED BY <1>1, <2>1, <3>1, <3>2 DEF IngressType
    <2>10. ingress.n > 0 /\ (p \in Trie \/ mux.pend[p].in)
        BY <1>1, <1>2, <1>5 DEF IngressInv
    <2>11. IngressType(ingress') /\ (ingress'.pc = "send" => ingress'.n > 0)
        BY <2>2, <2>9, <2>10 DEF IngressType
    <2>12. TypeInv'
        <3>1. MuxType(mux')
            BY <2>3, TypeIs DEF MuxType
        <3>2. queue' \in QueueType /\ reader' = [x \in Path |-> reader'[x]]
              /\ decoded' = [x \in Path |-> decoded'[x]]
            BY <1>2, TypeIs
        <3> QED BY <2>4, <2>5, <2>7, <2>11, <3>1, <3>2, TypeNext
    <2>13. SamePending /\ SameNodes
        BY <2>3 DEF SamePending, TypeInv, SameNodes, Trie, Node
    <2>14. TrieInv' /\ PassedInv' /\ PendInv'
        <3>1. ASSUME NEW x \in Path, On(x), x \notin Trie
              PROVE  mux'.chan[x].end # "open" /\ mux'.chan[x].q = <<>>
            BY <1>5, <2>4, <3>1 DEF PassedInv
        <3>2. ASSUME NEW x \in Path, x \notin Trie, ~mux.pend[x].in PROVE mux'.chan[x].q = <<>>
            BY <2>4, <2>10, <3>2 DEF PendInv
        <3>3. \A x \in Trie : x \in Path /\ mux'.chan[x].cancelled = mux.chan[x].cancelled
            BY <2>4, <2>6 DEF TrieInv
        <3>4. \A x \in Path : mux'.chan[x].cancelled = mux.chan[x].cancelled
            BY <2>4, <2>6
        <3> QED BY <1>2, <1>3, <2>13, <3>1, <3>2, <3>3, <3>4, SameTrie, SamePend
    <2>15. IngressInv'
        BY <1>2, <2>3, <2>9, <2>10, <2>11 DEF IngressInv, Trie
    <2>16. StartedInv'
        <3>1. /\ reader'[<<>>].pc = "done" => \A i \in Params : On(<<i>>)'
              /\ \A x \in Path : Len(x) > 1 /\ Last(x) < reader'[Front(x)].base => On(x)' \/ App'
            BY <1>2, <1>3 DEF StartedInv, On
        <3>2. ASSUME NEW x \in Path \ {<<>>}, NEW i \in 0..sent'[x].elems, i < sent'[x].elems
              PROVE  i \in Index
            <4>1. CASE x # p
                BY <2>5, <3>2, <4>1 DEF StartedInv
            <4>2. CASE x = p
                <5>1. i \in Nat /\ sent[p].elems \in Nat
                    BY <2>8, <3>2, <4>2 DEF SentType
                <5>2. i < sent[p].elems \/ (i = sent[p].elems /\ sent'[p].elems = sent[p].elems + 1)
                    BY <2>8, <3>2, <4>2, <5>1
                <5> QED BY <2>8, <3>2, <4>2, <5>1, <5>2 DEF StartedInv
            <4> QED BY <4>1, <4>2
        <3> QED BY <3>1, <3>2 DEF StartedInv
    <2>17. ASSUME blame' = {} PROVE CalmInv'
        <3>1. blame = {} /\ Open(p) /\ ~sent[p].over
            BY <1>3, <2>17 DEF Open
        <3> QED BY <1>1, <1>2, <2>3, <2>4, <2>5, <2>6, <2>8, <2>9, <2>11, <2>13, <3>1, ChunkCalm
    <2> QED BY <2>7, <2>12, <2>14, <2>15, <2>16, <2>17 DEF Kept
<1> QED BY <1>4, <1>5

\* What holds while nobody is to blame, when a frame is routed that may arrive.
LEMMA RouteCalm ==
    ASSUME AliveInv, NEW p, p = ingress.path, ingress.pc = "route", blame = {},
           SameNodes, \A x \in Trie : ~Node(x)'.closed, mux'.inbound = mux.inbound,
           queue' = queue, reader' = reader, sent' = sent,
           \A x \in Path : ~mux'.pend[x].closed /\ (mux'.pend[x].in => mux.pend[x].in \/ x = p),
           \A x \in Path : x # p => mux'.chan[x] = mux.chan[x],
           mux'.chan[p] = mux.chan[p] \/ mux'.chan[p] = NewChan, Tidy(mux'.chan[p], reader'[p]),
           p \in Trie \/ mux'.pend[p].in,
           mux'.pend[p].in => mux.pend[p].in \/ mux'.chan[p].end = "open",
           ingress'.pc = "send", ingress'.path = p, ingress'.n = ingress.n
    PROVE  CalmInv'
<1> USE DEF AliveInv
<1>1. CalmInv /\ Open(p) /\ p \in Path /\ AllDeclared(p) /\ ingress.n > 0
    BY OpenDeclared DEF CalmInv, CalmIngress
<1>2. /\ Trie' = Trie /\ \A x \in Trie : Node(x)'.done = Node(x).done
      /\ \A x \in Path : On(x)' <=> On(x)
      /\ \A x : Declared(x)' <=> Declared(x)
      /\ \A x : AllDeclared(x)' <=> AllDeclared(x)
      /\ Complete' <=> Complete
    BY DEF SameNodes, On, Declared, AllDeclared, Open, Complete
<1>3. \A x \in Path : ~queue'[x].cancelled /\ ~mux'.pend[x].closed /\ Tidy(mux'.chan[x], reader'[x])
    BY <1>1 DEF CalmInv
<1>4. \A x \in Path : sent'[x].n > 0 \/ mux'.pend[x].in \/ On(x)' => AllDeclared(x)'
    BY <1>1, <1>2 DEF CalmInv
<1>5. ASSUME NEW x \in Path, mux'.inbound = "open", (x \in Trie' /\ ~Node(x)'.done) \/ mux'.pend[x].in
      PROVE  mux'.chan[x].end = "open"
    <2>1. mux.chan[x].end = "open" \/ (x = p /\ mux'.chan[x].end = "open")
        BY <1>1, <1>2, <1>5 DEF CalmInv
    <2>2. NewChan.end = "open"
        BY DEF NewChan
    <2> QED BY <2>1, <2>2
<1>6. \A x \in Path : On(x)' /\ x \notin Trie' =>
        \A y \in Path : x \in Prefixes(y) /\ Declared(y)' => sent'[y].over
    BY <1>1, <1>2 DEF CalmInv
<1>7. CalmIngress'
    BY <1>1, <1>2 DEF CalmIngress
<1> QED BY <1>1, <1>2, <1>3, <1>4, <1>5, <1>6, <1>7 DEF CalmInv

\* What `_route` does to the multiplexer, if it goes on with the frame.
RoutedTo(p, empty, new) ==
    IF Stop(mux, p) = p THEN [mux EXCEPT !.trie[p].closed = @ \/ empty]
    ELSE [mux EXCEPT
            !.pend[p] = [in |-> TRUE, at |-> Stop(mux, p), closed |-> @.closed \/ empty,
                         counted |-> new \/ @.counted],
            !.chan[p] = IF new THEN NewChan ELSE @]
ClosedIf(empty, m, p) == IF empty THEN [m EXCEPT !.chan[p] = Close(@, "eof")] ELSE m

RoutedChan(p, new) == IF p \notin Trie /\ new THEN NewChan ELSE mux.chan[p]
IsRouted(p, empty, new) ==
    /\ MuxRec(mux') /\ mux'.inbound = mux.inbound /\ mux'.aborted = mux.aborted
    /\ mux'.chan = [mux.chan EXCEPT ![p] = IF empty THEN Close(RoutedChan(p, new), "eof")
                                           ELSE RoutedChan(p, new)]
    /\ p \in Trie => mux'.trie = [mux.trie EXCEPT ![p].closed = @ \/ empty] /\ mux'.pend = mux.pend
    /\ p \notin Trie =>
        /\ mux'.trie = mux.trie
        /\ mux'.pend = [mux.pend EXCEPT ![p] = [in |-> TRUE, at |-> Stop(mux, p),
                                                closed |-> @.closed \/ empty,
                                                counted |-> new \/ @.counted]]

\* `_route` in parts.
LEMMA RouteIs ==
    ASSUME MuxRec(mux), mux.trie = [x \in Trie |-> mux.trie[x]], mux.pend \in [Path -> PendType],
           mux.chan \in [Path -> ChanType], Closed(Trie), NEW p \in Path,
           NEW empty \in BOOLEAN, NEW new \in BOOLEAN,
           mux' = ClosedIf(empty, RoutedTo(p, empty, new), p)
    PROVE  IsRouted(p, empty, new)
<1> DEFINE routed == RoutedTo(p, empty, new)
           c == RoutedChan(p, new)
<1>1. mux' = ClosedIf(empty, routed, p)
    OBVIOUS
<1>2. Stop(mux, p) = p <=> p \in Trie
    <2>1. p \in Trie => Stop(mux, p) = p
        BY StopKnown DEF Trie
    <2>2. ASSUME p \notin Trie PROVE Stop(mux, p) # p
        <3>1. PICK n \in Path : StopsIn(Trie, p, n)
            BY <2>2, StopsSomewhere
        <3>2. Stop(mux, p) = n /\ n # p
            BY <3>1, StopMissing DEF Trie, StopsIn
        <3> QED BY <3>2
    <2> QED BY <2>1, <2>2
<1> HIDE DEF c
<1>3. /\ MuxRec(routed) /\ routed.inbound = mux.inbound /\ routed.aborted = mux.aborted
      /\ routed.chan = [mux.chan EXCEPT ![p] = c]
      /\ p \in Trie => routed.trie = [mux.trie EXCEPT ![p].closed = @ \/ empty] /\ routed.pend = mux.pend
      /\ p \notin Trie =>
            /\ routed.trie = mux.trie
            /\ routed.pend = [mux.pend EXCEPT ![p] = [in |-> TRUE, at |-> Stop(mux, p),
                                                      closed |-> @.closed \/ empty,
                                                      counted |-> new \/ @.counted]]
    <2>1. CASE p \in Trie
        <3> DEFINE f == [mux.trie EXCEPT ![p].closed = @ \/ empty]
        <3>1. routed = [mux EXCEPT !.trie = f]
            BY <1>2, <2>1 DEF MuxRec, RoutedTo
        <3> HIDE DEF f, routed
        <3>2. /\ MuxRec(routed) /\ routed.trie = f /\ routed.chan = mux.chan /\ routed.pend = mux.pend
              /\ routed.inbound = mux.inbound /\ routed.aborted = mux.aborted
            BY <3>1 DEF MuxRec
        <3>3. c = mux.chan[p]
            BY <2>1 DEF c, RoutedChan
        <3>4. [mux.chan EXCEPT ![p] = c] = mux.chan
            BY <3>3
        <3> QED BY <2>1, <3>2, <3>4 DEF f
    <2>2. CASE p \notin Trie
        <3> DEFINE g == [mux.pend EXCEPT ![p] = [in |-> TRUE, at |-> Stop(mux, p),
                                                 closed |-> @.closed \/ empty,
                                                 counted |-> new \/ @.counted]]
                   h == [mux.chan EXCEPT ![p] = IF new THEN NewChan ELSE @]
                   w == [mux EXCEPT !.pend = g]
        <3>1. routed = [w EXCEPT !.chan = h]
            BY <1>2, <2>2 DEF MuxRec, RoutedTo
        <3>2. h = [mux.chan EXCEPT ![p] = c]
            BY <2>2 DEF c, RoutedChan
        <3> HIDE DEF g, h, routed
        <3>3. Like(w, mux) /\ w.chan = mux.chan /\ w.pend = g
            BY PendSet
        <3> HIDE DEF w
        <3>4. Like(routed, w) /\ routed.chan = h /\ routed.pend = w.pend
            BY <3>1, <3>3 DEF Like, MuxRec
        <3> QED BY <2>2, <3>2, <3>3, <3>4 DEF g, Like
    <2> QED BY <2>1, <2>2
<1> HIDE DEF routed
<1>4. CASE ~empty
    BY <1>1, <1>3, <1>4 DEF ClosedIf, IsRouted, c
<1>5. CASE empty
    <2> DEFINE k == [routed.chan EXCEPT ![p] = Close(@, "eof")]
    <2>1. mux' = [routed EXCEPT !.chan = k]
        BY <1>1, <1>3, <1>5 DEF MuxRec, ClosedIf
    <2>2. k = [mux.chan EXCEPT ![p] = Close(c, "eof")]
        <3>1. routed.chan = [mux.chan EXCEPT ![p] = c]
            BY <1>3
        <3> QED BY <3>1
    <2> HIDE DEF k
    <2>3. Like(mux', routed) /\ mux'.chan = k /\ mux'.pend = routed.pend
        BY <1>3, <2>1 DEF Like, MuxRec
    <2> QED BY <1>3, <1>5, <2>2, <2>3 DEF Like, IsRouted, c
<1> QED BY <1>4, <1>5

\* A frame is routed: unexpected data fails the invocation for a reason.
LEMMA RouteKept ==
    ASSUME AliveInv, IngressRoute
    PROVE  Kept
<1> USE DEF AliveInv
<1>1. PICK p : p = ingress.path
    OBVIOUS
<1>2. PICK empty \in BOOLEAN : empty = (ingress.n = 0) /\ (empty <=> ingress.n = 0)
    OBVIOUS
<1>3. PICK new \in BOOLEAN : new = (Stop(mux, p) # p /\ ~Buffered(mux, p))
    OBVIOUS
<1>4. empty <=> ingress.n = 0
    BY <1>2
<1>5. /\ ingress.pc = "route" /\ p \in Path /\ ingress.n \in Nat
      /\ UNCHANGED <<reader, queue, tx, finished, frames, sent, decoded, blame>>
    BY <1>1 DEF IngressRoute, TypeInv
<1>6. App' = App /\ App \in BOOLEAN
    BY <1>5 DEF App
<1>7. CASE Unexpected(mux, p) \/ (Stop(mux, p) # p /\ mux.pend[p].closed)
    <2>1. mux' = Abort(mux)
        BY <1>1, <1>7 DEF IngressRoute
    <2>2. blame # {}
        <3>1. SUFFICES ASSUME blame = {} PROVE FALSE
            OBVIOUS
        <3>2. CalmInv /\ Open(p) /\ ~App
            BY <1>1, <1>5, <3>1 DEF CalmInv, CalmIngress, App
        <3> QED BY <1>5, <1>7, <3>2, OpenExpected DEF CalmInv
    <2> QED BY <1>5, <2>1, <2>2, AbortKept
<1>8. CASE ~(Unexpected(mux, p) \/ (Stop(mux, p) # p /\ mux.pend[p].closed))
    <2>1. /\ mux' = ClosedIf(empty, RoutedTo(p, empty, new), p)
          /\ ingress' = [ingress EXCEPT !.pc = IF empty THEN "loop" ELSE "send"]
        BY <1>1, <1>2, <1>3, <1>8 DEF IngressRoute, RoutedTo, ClosedIf
    <2>2. PICK c : c = RoutedChan(p, new) /\ c = IF p \notin Trie /\ new THEN NewChan ELSE mux.chan[p]
        BY DEF RoutedChan
    <2>3. /\ MuxRec(mux') /\ mux'.inbound = mux.inbound /\ mux'.aborted = mux.aborted
          /\ mux'.chan = [mux.chan EXCEPT ![p] = IF empty THEN Close(c, "eof") ELSE c]
          /\ p \in Trie => mux'.trie = [mux.trie EXCEPT ![p].closed = @ \/ empty] /\ mux'.pend = mux.pend
          /\ p \notin Trie =>
                /\ mux'.trie = mux.trie
                /\ mux'.pend = [mux.pend EXCEPT ![p] = [in |-> TRUE, at |-> Stop(mux, p),
                                                        closed |-> @.closed \/ empty,
                                                        counted |-> new \/ @.counted]]
        <3>1. /\ MuxRec(mux) /\ mux.trie = [x \in Trie |-> mux.trie[x]] /\ mux.pend \in [Path -> PendType]
              /\ mux.chan \in [Path -> ChanType] /\ Closed(Trie)
            BY MuxIs, TrieClosed DEF TypeInv
        <3>2. IsRouted(p, empty, new)
            BY <1>5, <2>1, <3>1, RouteIs
        <3> QED BY <2>2, <3>2 DEF IsRouted
    <2>4. /\ mux'.chan = [x \in Path |-> mux'.chan[x]]
          /\ mux'.chan[p] = IF empty THEN Close(c, "eof") ELSE c
          /\ \A x \in Path : x # p => mux'.chan[x] = mux.chan[x]
        BY <1>5, <2>3 DEF TypeInv
    <2>5. ingress'.pc = (IF empty THEN "loop" ELSE "send") /\ ingress'.path = p /\ ingress'.n = ingress.n
          /\ IngressType(ingress')
        BY <1>1, <2>1, TypeIs DEF IngressType
    \* A path that is not known may yet be declared.
    <2>6. ASSUME p \notin Trie
          PROVE  /\ StopsAt(p, Stop(mux, p)) /\ Stop(mux, p) \in Path /\ ~Barred(ChildAt(p, Stop(mux, p)))
                 /\ Stop(mux, p) = <<>> => p[1] \in Params
                 /\ new <=> ~mux.pend[p].in
                 /\ reader[p].pc = "off"
        <3>1. PICK n \in Path : StopsIn(Trie, p, n)
            BY <1>5, <2>6, TrieClosed, StopsSomewhere
        <3>2. StopsAt(p, n) /\ Stop(mux, p) = n /\ n # p /\ n \in Prefixes(p)
            BY <1>5, <3>1, TrieClosed, StopMissing, StopsSame DEF Trie, StopsIn
        <3>3. /\ ~mux.trie[n].sealed /\ ~(p[Len(n) + 1] < mux.trie[n].decided)
              /\ n = <<>> => p[Len(n) + 1] \in Params
            BY <1>8, <3>2 DEF Unexpected
        <3>4. Front(ChildAt(p, n)) = n /\ Last(ChildAt(p, n)) = p[Len(n) + 1]
            BY <1>5, <3>2, ChildFacts
        <3>5. ~Barred(ChildAt(p, n))
            BY <3>3, <3>4 DEF Barred, Node
        <3>6. \A x : StopsAt(p, x) => x = n
            BY <1>5, <3>2, TrieClosed, StopsUnique, StopsSame DEF Trie
        <3>7. mux.pend[p].in => mux.pend[p].at = n
            BY <1>5, <3>6 DEF PendInv
        <3>8. reader[p].pc = "off"
            <4>1. SUFFICES ASSUME On(p) PROVE FALSE
                BY DEF On
            <4> QED BY <1>5, <2>6, <3>5, <3>6, <4>1 DEF PassedInv
        <3>9. new <=> ~mux.pend[p].in
            BY <1>3, <3>2, <3>7 DEF Buffered
        <3>10. n = <<>> => p[1] \in Params
            BY <3>3, RootPath
        <3> QED BY <3>2, <3>5, <3>8, <3>9, <3>10
    <2>7. /\ SameNodes
          /\ \A x \in Trie : mux'.trie[x] \in NodeType
          /\ mux'.trie = [x \in DOMAIN mux'.trie |-> mux'.trie[x]]
          /\ \A x \in Trie : Node(x)'.closed => empty \/ Node(x).closed
        <3>1. CASE p \notin Trie
            BY <2>3, <3>1 DEF SameNodes, Trie, Node, TypeInv
        <3>2. CASE p \in Trie
            <4> DEFINE f == mux'.trie
            <4>1. /\ f = [mux.trie EXCEPT ![p].closed = @ \/ empty]
                  /\ mux.trie = [x \in Trie |-> mux.trie[x]] /\ \A x \in Trie : mux.trie[x] \in NodeType
                BY <2>3, <3>2 DEF TypeInv
            <4> HIDE DEF f
            <4>2. /\ DOMAIN f = Trie /\ f = [x \in DOMAIN f |-> f[x]]
                  /\ \A x \in Trie : x # p => f[x] = mux.trie[x]
                BY <4>1, <3>2
            <4> DEFINE v == mux.trie[p].closed \/ empty
                       o == mux.trie[p]
            <4>3. f[p] = [o EXCEPT !.closed = v] /\ o \in NodeType /\ v \in BOOLEAN
                BY <4>1, <3>2 DEF NodeType
            <4> HIDE DEF v, o
            <4>4. f[p] \in NodeType /\ f[p].sealed = o.sealed /\ f[p].decided = o.decided
                  /\ f[p].done = o.done /\ f[p].closed = v
                BY <4>3 DEF NodeType
            <4>5. \A x \in Trie : f[x] \in NodeType /\ f[x].sealed = mux.trie[x].sealed
                    /\ f[x].decided = mux.trie[x].decided /\ f[x].done = mux.trie[x].done
                    /\ (f[x].closed => empty \/ mux.trie[x].closed)
                BY <4>1, <4>2, <4>4 DEF o, v
            <4> QED BY <4>2, <4>5 DEF f, SameNodes, Trie, Node
        <3> QED BY <3>1, <3>2
    <2>8. /\ mux'.pend \in [Path -> PendType]
          /\ \A x \in Path : x # p => mux'.pend[x] = mux.pend[x]
          /\ p \in Trie => mux'.pend = mux.pend
          /\ p \notin Trie => mux'.pend[p].in /\ mux'.pend[p].at = Stop(mux, p)
                              /\ (mux'.pend[p].closed => empty \/ mux.pend[p].closed)
        <3>1. CASE p \in Trie
            BY <2>3, <3>1 DEF TypeInv
        <3>2. CASE p \notin Trie
            <4> DEFINE t == TRUE
                       n == Stop(mux, p)
                       k == mux.pend[p].closed \/ empty
                       l == new \/ mux.pend[p].counted
            <4>1. t \in BOOLEAN /\ n \in Path /\ k \in BOOLEAN /\ l \in BOOLEAN /\ mux.pend \in [Path -> PendType]
                BY <1>3, <2>6, <3>2, <1>5 DEF TypeInv, PendType
            <4>2. mux'.pend = [mux.pend EXCEPT ![p] = [in |-> t, at |-> n, closed |-> k, counted |-> l]]
                BY <2>3, <3>2
            <4> HIDE DEF t, n, k, l
            <4>3. /\ mux'.pend \in [Path -> PendType]
                  /\ \A x \in Path : x # p => mux'.pend[x] = mux.pend[x]
                  /\ mux'.pend[p].in = t /\ mux'.pend[p].at = n /\ mux'.pend[p].closed = k
                BY <1>5, <4>1, <4>2 DEF PendType
            <4> QED BY <3>2, <4>3 DEF t, n, k
        <3> QED BY <3>1, <3>2
    <2>9. /\ StreamInv(p, c, reader[p], decoded[p], sent[p], App)
          /\ p \in Trie => c = mux.chan[p]
          /\ Tidy(mux.chan[p], reader[p]) => Tidy(c, reader[p])
        <3> DEFINE o == mux.chan[p]
                   r == reader[p]
                   d == decoded[p]
                   s == sent[p]
        <3>1. StreamInv(p, o, r, d, s, App)
            BY <1>5 DEF Streams
        <3>2. CASE p \notin Trie /\ new
            <4>1. r.pc = "off" /\ o.q = <<>>
                BY <1>5, <2>6, <3>2 DEF PendInv
            <4> HIDE DEF o, r, d, s
            <4>2. StreamInv(p, NewChan, r, d, s, App) /\ Tidy(NewChan, r)
                BY <1>6, <3>1, <4>1, StreamNew
            <4> QED BY <2>2, <3>2, <4>2 DEF o, r, d, s
        <3>3. CASE ~(p \notin Trie /\ new)
            BY <2>2, <3>1, <3>3
        <3> QED BY <2>2, <3>2, <3>3
    <2>10. /\ StreamInv(p, mux'.chan[p], reader[p], decoded[p], sent[p], App)
           /\ mux'.chan[p].q = c.q /\ mux'.chan[p].cancelled = c.cancelled
        <3>1. CASE ~empty
            BY <2>4, <2>9, <3>1
        <3>2. CASE empty
            <4> DEFINE d == Close(c, "eof")
            <4>1. StreamInv(p, d, reader[p], decoded[p], sent[p], App)
                  /\ d.q = c.q /\ d.cancelled = c.cancelled
                BY <1>6, <2>9, StreamClose
            <4> QED BY <2>4, <3>2, <4>1
        <3> QED BY <3>1, <3>2
    <2>11. Streams'
        <3> SUFFICES ASSUME NEW x \in Path
                     PROVE  StreamInv(x, mux'.chan[x], reader'[x], decoded'[x], sent'[x], App')
            BY DEF Streams
        <3>1. CASE x = p
            BY <1>5, <1>6, <2>10, <3>1
        <3>2. CASE x # p
            BY <1>5, <1>6, <2>4, <3>2 DEF Streams
        <3> QED BY <3>1, <3>2
    <2>12. TypeInv'
        <3>1. MuxType(mux')
            <4>1. mux.aborted = FALSE /\ mux.inbound \in {"open", "eof"}
                BY DEF TypeInv
            <4>2. \A x \in DOMAIN mux'.trie : mux'.trie[x] \in NodeType
                BY <2>7 DEF SameNodes, Trie
            <4>3. MuxRec(mux') /\ mux'.aborted = FALSE /\ mux'.inbound \in {"open", "eof"}
                BY <2>3, <4>1
            <4>4. mux'.trie = [x \in DOMAIN mux'.trie |-> mux'.trie[x]]
                BY <2>7
            <4>5. mux'.pend \in [Path -> PendType]
                BY <2>8
            <4> QED BY <4>2, <4>3, <4>4, <4>5 DEF MuxType
        <3>2. queue' \in QueueType /\ reader' = [x \in Path |-> reader'[x]]
              /\ decoded' = [x \in Path |-> decoded'[x]] /\ sent' = [x \in Path |-> sent'[x]]
            BY <1>5, TypeIs
        <3> QED BY <2>4, <2>5, <2>11, <3>1, <3>2, TypeNext
    <2>13. TrieInv' /\ PassedInv'
        <3>1. ASSUME NEW x \in Path, On(x), x \notin Trie
              PROVE  mux'.chan[x].end # "open" /\ mux'.chan[x].q = <<>>
            <4>1. x # p
                BY <2>6, <3>1 DEF On
            <4> QED BY <2>4, <3>1, <4>1 DEF PassedInv
        <3>2. \A x \in Trie : x \in Path /\ mux'.chan[x].cancelled = mux.chan[x].cancelled
            BY <2>4, <2>9, <2>10 DEF TrieInv
        <3> QED BY <1>5, <1>6, <2>7, <3>1, <3>2, SameTrie
    <2>14. PendInv'
        <3>1. ASSUME NEW x \in Path, mux'.pend[x].in
              PROVE  /\ StopsAt(x, mux.pend[x].at)' /\ ~Barred(ChildAt(x, mux.pend[x].at))'
                     /\ mux'.pend[x].at = <<>> => x[1] \in Params
                     /\ ~mux'.chan[x].cancelled
            <4>1. /\ StopsAt(x, mux'.pend[x].at) /\ ~Barred(ChildAt(x, mux'.pend[x].at))
                  /\ mux'.pend[x].at = <<>> => x[1] \in Params
                <5>1. CASE x = p /\ p \notin Trie
                    BY <2>6, <2>8, <5>1
                <5>2. CASE ~(x = p /\ p \notin Trie)
                    <6>1. mux'.pend[x] = mux.pend[x]
                        BY <2>8, <5>2
                    <6> QED BY <3>1, <6>1 DEF PendInv
                <5> QED BY <5>1, <5>2
            <4>2. PICK n : n = mux'.pend[x].at
                OBVIOUS
            <4>3. StopsAt(x, n)' /\ ~Barred(ChildAt(x, n))'
                BY <2>7, <4>1, <4>2, SameNodesFacts
            <4>4. ~mux'.chan[x].cancelled
                <5>1. CASE x # p
                    BY <2>4, <2>8, <3>1, <5>1 DEF PendInv
                <5>2. CASE x = p
                    <6>1. ~NewChan.cancelled
                        BY DEF NewChan
                    <6>2. mux.pend[p].in => ~mux.chan[p].cancelled
                        BY <1>5 DEF PendInv
                    <6>3. c = NewChan \/ (c = mux.chan[p] /\ mux.pend[p].in)
                        BY <2>2, <2>6, <2>8, <3>1, <5>2
                    <6> QED BY <2>10, <5>2, <6>1, <6>2, <6>3
                <5> QED BY <5>1, <5>2
            <4> QED BY <4>1, <4>2, <4>3, <4>4 DEF StopsAt, Barred, Node, Trie
        <3>2. ASSUME NEW x \in Path, x \notin Trie', ~mux'.pend[x].in PROVE mux'.chan[x].q = <<>>
            <4>1. x # p /\ x \notin Trie
                BY <2>7, <2>8, <3>2 DEF SameNodes
            <4> QED BY <2>4, <2>8, <3>2, <4>1 DEF PendInv
        <3>3. \A x \in Path : mux'.pend[x].in =>
                /\ StopsAt(x, mux.pend[x].at)' /\ ~Barred(ChildAt(x, mux.pend[x].at))'
                /\ mux'.pend[x].at = <<>> => x[1] \in Params
                /\ ~mux'.chan[x].cancelled
            BY <3>1
        <3> QED BY <3>2, <3>3 DEF PendInv, StopsAt, Barred, Trie, Node
    <2>15. IngressInv'
        <3>1. mux'.inbound = "open"
            BY <1>5, <2>3 DEF IngressInv
        <3>2. ingress'.pc = "send" => ingress'.n > 0
            BY <1>4, <1>5, <2>5
        <3>3. p \in Trie' \/ mux'.pend[p].in
            BY <2>7, <2>8 DEF SameNodes
        <3> QED BY <2>5, <3>1, <3>2, <3>3 DEF IngressInv
    <2>16. StartedInv'
        BY <1>5, <1>6 DEF StartedInv, On
    <2>17. ASSUME blame' = {} PROVE CalmInv'
        <3>1. blame = {} /\ CalmInv /\ ~empty
            <4>1. blame = {} /\ CalmInv
                BY <1>5, <2>17
            <4>2. ingress.n > 0
                BY <1>5, <4>1 DEF CalmInv, CalmIngress
            <4> QED BY <1>4, <4>1, <4>2
        <3>2. /\ \A x \in Trie : ~Node(x)'.closed
              /\ \A x \in Path : ~mux'.pend[x].closed /\ (mux'.pend[x].in => mux.pend[x].in \/ x = p)
            BY <2>7, <2>8, <3>1 DEF CalmInv
        <3>3. mux'.chan[p] = c /\ (c = mux.chan[p] \/ c = NewChan) /\ Tidy(c, reader'[p])
            BY <1>5, <2>2, <2>4, <2>9, <3>1 DEF CalmInv
        <3>4. mux'.pend[p].in => mux.pend[p].in \/ mux'.chan[p].end = "open"
            BY <1>5, <2>2, <2>6, <2>8, <3>3 DEF NewChan
        <3>5. ingress'.pc = "send"
            BY <2>5, <3>1
        <3> QED BY <1>1, <1>5, <2>3, <2>4, <2>5, <2>7, <2>8, <3>1, <3>2, <3>3, <3>4, <3>5, RouteCalm
    <2> QED BY <2>11, <2>12, <2>13, <2>14, <2>15, <2>16, <2>17 DEF Kept
<1> QED BY <1>7, <1>8

-----------------------------------------------------------------------------
(* The tasks that read                                                     *)

\* A step of the reader of a stream that declares and ends nothing
LEMMA ReaderKept ==
    ASSUME AliveInv, NEW p \in Path, p # <<>>,
           MuxRec(mux'), mux'.trie = mux.trie, mux'.inbound = mux.inbound, mux'.aborted = FALSE, SamePending,
           mux'.chan = [x \in Path |-> mux'.chan[x]], \A x \in Path : x # p => mux'.chan[x] = mux.chan[x],
           reader' = [x \in Path |-> reader'[x]], \A x \in Path : x # p => reader'[x] = reader[x],
           decoded' = [x \in Path |-> decoded'[x]], \A x \in Path : x # p => decoded'[x] = decoded[x],
           sent' = sent, blame' = blame, ingress' = ingress,
           queue' \in QueueType, \A x \in Path : queue'[x].cancelled = queue[x].cancelled,
           StreamInv(p, mux'.chan[p], reader'[p], decoded'[p], sent[p], App),
           mux'.chan[p].end = mux.chan[p].end, mux'.chan[p].cancelled = mux.chan[p].cancelled,
           mux.chan[p].q = <<>> => mux'.chan[p].q = <<>>,
           reader[p].pc \notin {"off", "done"}, reader'[p].pc # "off",
           p \in Trie => reader'[p].pc # "done" /\ reader'[p].base = reader[p].base,
           Tidy(mux.chan[p], reader[p]) => Tidy(mux'.chan[p], reader'[p])
    PROVE  AliveInv'
<1> USE DEF AliveInv
<1>1. App' = App
    BY DEF App
<1>2. Streams'
    <2> SUFFICES ASSUME NEW x \in Path
                 PROVE  StreamInv(x, mux'.chan[x], reader'[x], decoded'[x], sent'[x], App')
        BY DEF Streams
    <2>1. CASE x = p
        BY <1>1, <2>1
    <2>2. CASE x # p
        BY <1>1, <2>2 DEF Streams
    <2> QED BY <2>1, <2>2
<1>3. TypeInv'
    <2>1. MuxType(mux')
        <3>1. /\ mux.trie = [x \in DOMAIN mux.trie |-> mux.trie[x]]
              /\ \A x \in DOMAIN mux.trie : mux.trie[x] \in NodeType
              /\ mux.inbound \in {"open", "eof"}
            BY DEF TypeInv, Trie
        <3> QED BY <3>1 DEF MuxType, SamePending
    <2>2. sent' = [x \in Path |-> sent'[x]] /\ IngressType(ingress')
        BY TypeIs
    <2> QED BY <1>2, <2>1, <2>2, TypeNext
<1>4. SameNodes
    BY DEF SameNodes, Trie, Node
<1>5. \A x \in Path : reader'[x].pc = "off" <=> reader[x].pc = "off"
    OBVIOUS
<1>6. TrieInv' /\ PassedInv' /\ PendInv'
    <2>1. Trie \subseteq Path
        BY DEF TrieInv
    <2>2. ASSUME NEW x \in Path, On(x), x \notin Trie
          PROVE  mux'.chan[x].end # "open" /\ mux'.chan[x].q = <<>>
        <3>1. mux.chan[x].end # "open" /\ mux.chan[x].q = <<>>
            BY <2>2 DEF PassedInv
        <3> QED BY <3>1
    <2>3. ASSUME NEW x \in Path, x \notin Trie, ~mux.pend[x].in PROVE mux'.chan[x].q = <<>>
        <3>1. mux.chan[x].q = <<>>
            BY <2>3 DEF PendInv
        <3> QED BY <3>1
    <2>4. \A x \in Path : reader[x].pc = "done" => reader'[x].pc = "done"
        OBVIOUS
    <2>5. \A x \in Trie : /\ reader'[x].pc = "done" => reader[x].pc = "done"
                          /\ reader'[x].base = reader[x].base
                          /\ mux'.chan[x].cancelled = mux.chan[x].cancelled
        BY <2>1
    <2> QED BY <1>1, <1>4, <1>5, <2>2, <2>3, <2>4, <2>5, SameTrie, SamePend
<1>7. IngressInv'
    <2>1. \A x \in Path : mux'.chan[x].end = mux.chan[x].end /\ mux'.pend[x].in = mux.pend[x].in
        BY DEF SamePending
    <2>2. ingress.path \in Path /\ Trie' = Trie
        BY DEF TypeInv, Trie
    <2> QED BY <2>1, <2>2 DEF IngressInv
<1>8. StartedInv'
    <2>1. reader'[<<>>] = reader[<<>>] /\ \A x \in Path : On(x)' <=> On(x)
        BY <1>5, RootPath DEF On
    <2>2. ASSUME NEW x \in Path, Len(x) > 1, Last(x) < reader'[Front(x)].base PROVE On(x)' \/ App'
        <3>1. Front(x) \in Path
            BY <2>2, FrontFacts
        <3>2. CASE reader'[Front(x)].base = reader[Front(x)].base
            BY <1>1, <2>1, <2>2, <3>2 DEF StartedInv
        <3>3. CASE reader'[Front(x)].base # reader[Front(x)].base
            <4>1. Front(x) = p /\ p \notin Trie /\ On(p)
                BY <3>1, <3>3 DEF On
            <4> QED BY <1>1, <4>1 DEF PassedInv
        <3> QED BY <3>2, <3>3
    <2>3. \A i \in Params : <<i>> \in Path
        BY ParamFacts
    <2> QED BY <2>1, <2>2, <2>3 DEF StartedInv
<1>9. ASSUME blame' = {} PROVE CalmInv'
    <2>1. \A x \in Trie : ~Node(x)'.closed
        BY <1>9 DEF CalmInv, Node
    <2>2. \A x \in Path : Tidy(mux.chan[x], reader[x]) => Tidy(mux'.chan[x], reader'[x])
        OBVIOUS
    <2>3. \A x \in Path : mux'.chan[x].end = mux.chan[x].end
        OBVIOUS
    <2> QED BY <1>4, <1>5, <1>9, <2>1, <2>2, <2>3, SameCalm
<1> QED BY <1>2, <1>3, <1>6, <1>7, <1>8, <1>9

\* The root is read once.
LEMMA RootReader ==
    ASSUME Streams
    PROVE  reader[<<>>].pc \in {"next", "done"} /\ reader[<<>>].base = 0
<1>1. StreamInv(<<>>, mux.chan[<<>>], reader[<<>>], decoded[<<>>], sent[<<>>], App)
    BY RootPath DEF Streams
<1> QED BY <1>1 DEF StreamInv, FlowInv

\* A queue is cancelled by the application only.
LEMMA CancelledBlame ==
    ASSUME AliveInv, NEW p \in Path, Cancelled(p)
    PROVE  blame # {}
<1> USE DEF AliveInv
<1>1. CASE queue[p].cancelled
    BY <1>1 DEF CalmInv
<1>2. CASE mux.chan[p].cancelled
    <2>1. StreamInv(p, mux.chan[p], reader[p], decoded[p], sent[p], App)
        BY DEF Streams
    <2>2. App
        BY <1>2, <2>1 DEF StreamInv, ChanInv
    <2> QED BY <2>2 DEF App
<1> QED BY <1>1, <1>2 DEF Cancelled

\* The length of a chunk is decoded.
LEMMA LengthKept ==
    ASSUME AliveInv, NEW p \in Path, ReadLength(p)
    PROVE  Kept
<1> USE DEF AliveInv
<1>1. /\ p # <<>> /\ reader[p].pc = "next" /\ mux.chan[p].got = "some"
      /\ UNCHANGED <<queue, ingress, tx, finished, frames, sent, decoded, blame>>
    BY DEF ReadLength, Got
<1>2. CASE Cancelled(p)
    <2>1. mux' = Abort(mux)
        BY <1>2 DEF ReadLength, AbortIf
    <2> QED BY <1>1, <1>2, <2>1, CancelledBlame, AbortKept
<1>3. CASE ~Cancelled(p)
    <2>1. mux' = mux /\ reader' = [reader EXCEPT ![p].pc = "decode"]
        BY <1>3 DEF ReadLength, AbortIf
    <2>2. PICK t : t = [reader[p] EXCEPT !.pc = "decode"]
        OBVIOUS
    <2>3. /\ reader' = [x \in Path |-> reader'[x]] /\ reader'[p] = t
          /\ \A x \in Path : x # p => reader'[x] = reader[x]
        BY <2>1, <2>2 DEF TypeInv
    <2>4. t.pc = "decode" /\ t.base = reader[p].base
        BY <2>2 DEF TypeInv, ReaderType
    <2> DEFINE c == mux.chan[p]
               r == reader[p]
    <2>5. StreamInv(p, c, r, decoded[p], sent[p], App) /\ App \in BOOLEAN
        BY DEF Streams, App
    <2>6. r.pc = "next" /\ c.got = "some" /\ t = [r EXCEPT !.pc = "decode"]
        BY <1>1, <2>2
    <2> HIDE DEF c, r
    <2>7. StreamInv(p, c, t, decoded[p], sent[p], App) /\ (Tidy(c, r) => Tidy(c, t))
        BY <1>1, <2>5, <2>6, StreamLength
    <2>8. SamePending /\ MuxRec(mux') /\ mux'.aborted = FALSE
        BY <2>1, MuxIs DEF SamePending, TypeInv
    <2>9. /\ mux'.chan = [x \in Path |-> mux'.chan[x]] /\ decoded' = [x \in Path |-> decoded'[x]]
          /\ queue' \in QueueType
        BY <1>1, <2>1, TypeIs
    <2>10. /\ StreamInv(p, mux'.chan[p], reader'[p], decoded'[p], sent[p], App)
           /\ Tidy(mux.chan[p], reader[p]) => Tidy(mux'.chan[p], reader'[p])
        BY <1>1, <2>1, <2>3, <2>7 DEF c, r
    <2> QED BY <1>1, <2>1, <2>3, <2>4, <2>8, <2>9, <2>10, ReaderKept DEF Kept
<1> QED BY <1>2, <1>3

\* The reader of a discarded stream stops.
LEMMA DiscardedKept ==
    ASSUME AliveInv, NEW p \in Path, ReadDiscarded(p)
    PROVE  Kept
<1> USE DEF AliveInv
<1>1. /\ reader[p].pc = "next" /\ mux.chan[p].got = "discarded"
      /\ reader' = [reader EXCEPT ![p].pc = "done"]
      /\ UNCHANGED <<mux, queue, ingress, tx, finished, frames, sent, decoded, blame>>
    BY DEF ReadDiscarded, Got
<1>2. PICK t : t = [reader[p] EXCEPT !.pc = "done"]
    OBVIOUS
<1>3. /\ reader' = [x \in Path |-> reader'[x]] /\ reader'[p] = t
      /\ \A x \in Path : x # p => reader'[x] = reader[x]
    BY <1>1, <1>2 DEF TypeInv
<1>4. t.pc = "done" /\ t.base = reader[p].base
    BY <1>2 DEF TypeInv, ReaderType
<1> DEFINE c == mux.chan[p]
           r == reader[p]
<1>5. StreamInv(p, c, r, decoded[p], sent[p], App) /\ App \in BOOLEAN
    BY DEF Streams, App
<1>6. r.pc = "next" /\ c.got = "discarded" /\ t = [r EXCEPT !.pc = "done"]
    BY <1>1, <1>2
<1> HIDE DEF c, r
<1>7. c.cancelled
    BY <1>5, <1>6 DEF StreamInv, ChanInv
<1>8. p \notin Trie /\ p # <<>>
    BY <1>7 DEF TrieInv, c
<1>9. StreamInv(p, c, t, decoded[p], sent[p], App) /\ (Tidy(c, r) => Tidy(c, t))
    BY <1>5, <1>6, <1>8, StreamStop
<1>10. SamePending /\ MuxRec(mux') /\ mux'.aborted = FALSE
    BY <1>1, MuxIs DEF SamePending, TypeInv
<1>11. /\ mux'.chan = [x \in Path |-> mux'.chan[x]] /\ decoded' = [x \in Path |-> decoded'[x]]
       /\ queue' \in QueueType
    BY <1>1, TypeIs
<1>12. /\ StreamInv(p, mux'.chan[p], reader'[p], decoded'[p], sent[p], App)
       /\ Tidy(mux.chan[p], reader[p]) => Tidy(mux'.chan[p], reader'[p])
    BY <1>1, <1>3, <1>9 DEF c, r
<1> QED BY <1>1, <1>3, <1>4, <1>8, <1>10, <1>11, <1>12, ReaderKept DEF Kept

\* What the peer declared and did not end is open.
LEMMA DeclaredOpen ==
    ASSUME NEW p \in Path, Declared(p), ~sent[p].over, p = <<>> => sent[p].n = 0
    PROVE  Open(p)
<1>1. CASE p = <<>>
    BY <1>1 DEF Open
<1>2. CASE p # <<>>
    <2>1. Len(p) \in Nat \ {0}
        BY <1>2, FrontFacts
    <2>2. CASE Len(p) = 1
        BY <1>2, <2>2 DEF Open, Declared
    <2>3. CASE Len(p) # 1
        <3>1. Len(p) > 1
            <4>1. \A k \in Nat \ {0} : k # 1 => k > 1
                OBVIOUS
            <4> QED BY <2>1, <2>3, <4>1
        <3>2. Last(p) < sent[Front(p)].elems
            BY <3>1 DEF Declared
        <3> QED BY <1>2, <2>3, <3>2 DEF Open
    <2> QED BY <2>2, <2>3
<1> QED BY <1>1, <1>2

\* The end of a channel reaches its reader for a reason.
LEMMA FailKept ==
    ASSUME AliveInv, NEW p \in Path, ReadFail(p)
    PROVE  Kept
<1> USE DEF AliveInv
<1>1. /\ reader[p].pc = "next" /\ mux.chan[p].got = "eof" /\ mux' = Abort(mux) /\ blame' = blame
    BY DEF ReadFail, Got
<1>2. blame # {}
    <2>1. SUFFICES ASSUME blame = {} PROVE FALSE
        OBVIOUS
    <2>2. CalmInv /\ ~App
        BY <2>1 DEF App
    <2> DEFINE c == mux.chan[p]
               r == reader[p]
               s == sent[p]
               d == decoded[p]
    <2>3. StreamInv(p, c, r, d, s, App) /\ r.pc = "next" /\ c.got = "eof"
        BY <1>1 DEF Streams
    <2> HIDE DEF c, r, s, d
    <2>4. c.q = <<>> /\ c.end # "open" /\ ~Holding(c, r) /\ ~HoldingEnd(c, r) /\ ~HasEnd(c.q)
        BY <2>3 DEF StreamInv, ChanInv, Holding, HoldingEnd, HasEnd, Value
    <2>5. ~s.over /\ (p = <<>> => s.n = 0)
        <3>1. ~s.over
            BY <2>3, <2>4 DEF StreamInv, EndInv
        <3>2. p = <<>> => d = 0
            BY <2>3 DEF StreamInv, FlowInv, OneIf
        <3>3. s.n = d + 0 + 0
            BY <2>3, <2>4 DEF StreamInv, FlowInv, OneIf
        <3> QED BY <3>1, <3>2, <3>3
    <2>6. p \in Trie /\ On(p) /\ ~Node(p).done
        <3>1. On(p)
            BY <1>1 DEF On
        <3> QED BY <1>1, <2>2, <3>1 DEF PassedInv, TrieInv
    <2>7. mux.inbound # "open"
        BY <2>2, <2>4, <2>6 DEF CalmInv, c
    <2>8. Declared(p)
        BY <2>2, <2>6, PrefixSelf DEF CalmInv, AllDeclared
    <2>9. Open(p)
        BY <2>5, <2>8, DeclaredOpen DEF s
    <2> QED BY <2>2, <2>7, <2>9 DEF CalmInv, Complete
<1> QED BY <1>1, <1>2, AbortKept

\* An element is sent to the application.
LEMMA SendKept ==
    ASSUME AliveInv, NEW p \in Path, SendElement(p)
    PROVE  Kept
<1> USE DEF AliveInv
<1>1. /\ reader[p].pc = "send"
      /\ UNCHANGED <<ingress, tx, finished, frames, sent, decoded, blame>>
    BY DEF SendElement
<1>2. p # <<>>
    BY <1>1, RootReader
<1> DEFINE c == mux.chan[p]
           r == reader[p]
<1>3. StreamInv(p, c, r, decoded[p], sent[p], App) /\ App \in BOOLEAN /\ r.pc = "send"
    BY <1>1 DEF Streams, App
<1> HIDE DEF c, r
<1>4. CASE queue[p].cancelled
    <2>1. mux' = Abort(mux)
        BY <1>4 DEF SendElement, Cancelled, AbortIf
    <2>2. blame # {}
        BY <1>4, CancelledBlame DEF Cancelled
    <2> QED BY <1>1, <2>1, <2>2, AbortKept
<1>5. CASE ~queue[p].cancelled /\ Cancelled(p)
    <2>1. mux' = mux /\ reader' = [reader EXCEPT ![p].pc = "done"] /\ queue' = queue
        BY <1>5 DEF SendElement, AbortIf
    <2>2. PICK t : t = [reader[p] EXCEPT !.pc = "done"]
        OBVIOUS
    <2>3. /\ reader' = [x \in Path |-> reader'[x]] /\ reader'[p] = t
          /\ \A x \in Path : x # p => reader'[x] = reader[x]
        BY <2>1, <2>2 DEF TypeInv
    <2>4. t.pc = "done" /\ t.base = reader[p].base
        BY <2>2 DEF TypeInv, ReaderType
    <2>5. c.cancelled /\ p \notin Trie /\ t = [r EXCEPT !.pc = "done"]
        BY <1>5, <2>2 DEF Cancelled, TrieInv, c, r
    <2>6. StreamInv(p, c, t, decoded[p], sent[p], App) /\ (Tidy(c, r) => Tidy(c, t))
        BY <1>2, <1>3, <2>5, StreamStop
    <2>7. SamePending /\ MuxRec(mux') /\ mux'.aborted = FALSE
        BY <2>1, MuxIs DEF SamePending, TypeInv
    <2>8. /\ mux'.chan = [x \in Path |-> mux'.chan[x]] /\ decoded' = [x \in Path |-> decoded'[x]]
          /\ queue' \in QueueType
        BY <1>1, <2>1, TypeIs
    <2>9. /\ StreamInv(p, mux'.chan[p], reader'[p], decoded'[p], sent[p], App)
          /\ Tidy(mux.chan[p], reader[p]) => Tidy(mux'.chan[p], reader'[p])
        BY <1>1, <2>1, <2>3, <2>6 DEF c, r
    <2> QED BY <1>1, <1>2, <2>1, <2>3, <2>4, <2>5, <2>7, <2>8, <2>9, ReaderKept DEF Kept
<1>6. CASE ~Cancelled(p)
    <2>1. /\ mux' = [mux EXCEPT !.chan[p] = NextOf(@)] /\ reader' = [reader EXCEPT ![p].pc = "next"]
          /\ queue' = [queue EXCEPT ![p].n = @ + 1]
        BY <1>6 DEF SendElement, Await
    <2>2. PICK t : t = [reader[p] EXCEPT !.pc = "next"]
        OBVIOUS
    <2>3. /\ reader' = [x \in Path |-> reader'[x]] /\ reader'[p] = t
          /\ \A x \in Path : x # p => reader'[x] = reader[x]
        BY <2>1, <2>2 DEF TypeInv
    <2>4. t.pc = "next" /\ t.base = reader[p].base /\ t = [r EXCEPT !.pc = "next"]
        BY <2>2 DEF TypeInv, ReaderType, r
    <2>5. /\ MuxRec(mux') /\ mux'.trie = mux.trie /\ mux'.pend = mux.pend /\ mux'.inbound = mux.inbound
          /\ mux'.aborted = mux.aborted /\ mux'.chan = [mux.chan EXCEPT ![p] = NextOf(@)]
        <3> DEFINE g == [mux.chan EXCEPT ![p] = NextOf(@)]
        <3>1. mux' = [mux EXCEPT !.chan = g]
            BY <2>1, MuxIs DEF MuxRec
        <3> HIDE DEF g
        <3>2. /\ MuxRec(mux') /\ mux'.trie = mux.trie /\ mux'.pend = mux.pend /\ mux'.inbound = mux.inbound
              /\ mux'.aborted = mux.aborted /\ mux'.chan = g
            BY <3>1, MuxIs DEF MuxRec
        <3> QED BY <3>2 DEF g
    <2>6. /\ mux'.chan = [x \in Path |-> mux'.chan[x]] /\ mux'.chan[p] = NextOf(c)
          /\ \A x \in Path : x # p => mux'.chan[x] = mux.chan[x]
        BY <2>5 DEF TypeInv, c
    <2>7. /\ StreamInv(p, NextOf(c), t, decoded[p], sent[p], App)
          /\ NextOf(c).end = c.end /\ NextOf(c).cancelled = c.cancelled
          /\ c.q = <<>> => NextOf(c).q = <<>>
          /\ Tidy(c, r) => Tidy(NextOf(c), t)
        BY <1>2, <1>3, <2>4, StreamNext
    <2>8. SamePending /\ mux'.aborted = FALSE
        BY <2>5, MuxIs DEF SamePending, TypeInv
    <2>9. decoded' = [x \in Path |-> decoded'[x]]
        BY <1>1, TypeIs
    <2>10. queue' \in QueueType /\ \A x \in Path : queue'[x].cancelled = queue[x].cancelled
        <3>1. queue \in QueueType
            BY TypeIs
        <3> QED BY <2>1, <3>1 DEF QueueType
    <2>11. /\ StreamInv(p, mux'.chan[p], reader'[p], decoded'[p], sent[p], App)
           /\ mux'.chan[p].end = mux.chan[p].end /\ mux'.chan[p].cancelled = mux.chan[p].cancelled
           /\ mux.chan[p].q = <<>> => mux'.chan[p].q = <<>>
           /\ Tidy(mux.chan[p], reader[p]) => Tidy(mux'.chan[p], reader'[p])
        BY <1>1, <2>3, <2>6, <2>7 DEF c, r
    <2> QED BY <1>1, <1>2, <2>3, <2>4, <2>5, <2>6, <2>8, <2>9, <2>10, <2>11, ReaderKept DEF Kept
<1> QED BY <1>4, <1>5, <1>6

\* The element that is being decoded was sent.
LEMMA NextElement ==
    ASSUME AliveInv, NEW p \in Path, p # <<>>, reader[p].pc = "decode"
    PROVE  reader[p].base \in Index /\ reader[p].base \in Nat /\ reader[p].base < sent[p].elems
<1> USE DEF AliveInv
<1> DEFINE c == mux.chan[p]
           r == reader[p]
           d == decoded[p]
<1>1. StreamInv(p, c, r, d, sent[p], App) /\ r.pc = "decode"
    BY DEF Streams
<1> HIDE DEF c, r, d
<1>2. r.base + OneIf(HoldingSome(c, r)) + 0 <= sent[p].elems
    <2>1. r.pc # "done" /\ ~HoldingEnd(c, r) /\ 0 \in 0..Len(c.q) /\ \A j \in 1..0 : c.q[j] = "some"
        BY <1>1 DEF HoldingEnd, StreamInv, ChanType
    <2> QED BY <1>1, <2>1 DEF StreamInv, EndInv
<1>3. OneIf(HoldingSome(c, r)) = 1 /\ r.base \in Nat /\ sent[p].elems \in Nat
    BY <1>1 DEF OneIf, HoldingSome, StreamInv, ReaderType, SentType
<1>4. r.base \in 0..sent[p].elems /\ r.base < sent[p].elems
    BY <1>2, <1>3
<1> QED BY <1>3, <1>4 DEF StartedInv, r

\* The element of a stream of plain data, or of a forgotten one
LEMMA PlainElementKept ==
    ASSUME AliveInv, NEW p \in Path, ReadElement(p), ~Nested(p) \/ p \notin Trie
    PROVE  Kept
<1> USE DEF AliveInv
<1>1. /\ reader[p].pc = "decode" /\ decoded' = [decoded EXCEPT ![p] = @ + 1]
      /\ UNCHANGED <<queue, ingress, tx, finished, frames, sent, blame>>
    BY DEF ReadElement, Counted
<1>2. p # <<>>
    BY <1>1, RootReader
<1> DEFINE c == mux.chan[p]
           r == reader[p]
           d == decoded[p]
<1>3. StreamInv(p, c, r, d, sent[p], App) /\ App \in BOOLEAN /\ r.pc = "decode"
    BY <1>1 DEF Streams, App
<1>4. PICK t : t = [pc |-> "send", base |-> IF Nested(p) THEN r.base + 1 ELSE r.base]
    OBVIOUS
<1>5. /\ decoded' = [x \in Path |-> decoded'[x]] /\ decoded'[p] = d + 1
      /\ \A x \in Path : x # p => decoded'[x] = decoded[x]
    BY <1>1 DEF TypeInv
<1> HIDE DEF c, r, d
<1>6. StreamInv(p, c, t, d + 1, sent[p], App) /\ (Tidy(c, r) => Tidy(c, t))
    BY <1>3, <1>4, StreamElement
<1>7. /\ MuxRec(mux') /\ mux'.trie = mux.trie /\ mux'.inbound = mux.inbound /\ mux'.aborted = FALSE
      /\ mux'.chan = mux.chan /\ SamePending
      /\ reader' = [x \in Path |-> reader'[x]] /\ reader'[p] = t
      /\ \A x \in Path : x # p => reader'[x] = reader[x]
    <2>1. CASE ~Nested(p)
        <3>1. mux' = mux /\ reader' = [reader EXCEPT ![p].pc = "send"]
            BY <2>1 DEF ReadElement
        <3>2. [reader[p] EXCEPT !.pc = "send"] = t
            BY <1>4, <2>1 DEF TypeInv, ReaderType, r
        <3>3. /\ reader' = [x \in Path |-> reader'[x]] /\ reader'[p] = t
              /\ \A x \in Path : x # p => reader'[x] = reader[x]
            BY <3>1, <3>2 DEF TypeInv
        <3> QED BY <3>1, <3>3, MuxIs DEF SamePending, TypeInv
    <2>2. CASE Nested(p) /\ p \notin Trie
        <3>1. PICK e : e = Append(p, reader[p].base)
            OBVIOUS
        <3>2. reader[p].base \in Index
            BY <1>1, <1>2, NextElement
        <3>3. e \in Path /\ e # <<>> /\ Front(e) = p /\ e # p /\ p \in Prefixes(e)
            BY <2>2, <3>1, <3>2, AppendFacts
        <3>4. On(p) /\ Closed(DOMAIN mux.trie)
            BY <1>1, TrieClosed DEF On, Trie
        <3>5. PICK n \in Path : StopsAt(p, n) /\ Barred(ChildAt(p, n))
            BY <2>2, <3>4 DEF PassedInv
        <3>6. n \in Prefixes(p) /\ n # p /\ n \in Trie /\ ChildAt(p, n) \notin Trie
            BY <3>5 DEF StopsAt
        <3>7. n \in Prefixes(e) /\ n # e /\ ChildAt(e, n) = ChildAt(p, n)
            BY <3>3, <3>6, ChildSame
        <3>8. StopsIn(DOMAIN mux.trie, e, n) /\ Barred(ChildAt(e, n))
            BY <3>5, <3>6, <3>7 DEF StopsIn, Trie
        <3>9. NoneBelow(mux, ChildAt(e, n))
            BY <3>8 DEF PendInv, NoneBelow
        <3>10. MuxOk(mux)
            BY MuxIsOk
        <3> DEFINE u == SealElement(mux, e)
        <3>11. /\ MuxRec(mux) /\ mux.aborted = FALSE /\ mux.pend \in [Path -> PendType]
               /\ mux.chan \in [Path -> ChanType] /\ Front(e) \notin DOMAIN mux.trie
            BY <2>2, <3>3, MuxIs DEF TypeInv, Trie
        <3>12. /\ Like(u, mux) /\ u.chan = mux.chan /\ PendLike(u, mux)
               /\ \A x \in Path : u.pend[x].in = mux.pend[x].in
            <4>1. Untouched(u, mux)
                BY <3>3, <3>8, <3>9, <3>10, <3>11, ForgottenOk
            <4> QED BY <4>1 DEF Untouched
        <3>13. ~Has(u, e)
            BY <2>2, <3>3, <3>4, <3>12 DEF Has, Like, Trie, Closed
        <3>14. mux' = u /\ reader' = [reader EXCEPT ![p] = [pc |-> "send", base |-> @.base + 1], ![e].pc = @]
            BY <2>2, <3>1, <3>13 DEF ReadElement
        <3> HIDE DEF u
        <3>15. t = [pc |-> "send", base |-> reader[p].base + 1]
            BY <1>4, <2>2 DEF r
        <3>16. reader' = [reader EXCEPT ![p] = t]
            <4> DEFINE f == [reader EXCEPT ![p] = t]
            <4>1. reader' = [f EXCEPT ![e].pc = reader[e].pc]
                BY <3>14, <3>15
            <4>2. f \in [Path -> ReaderType] /\ f[e] = reader[e]
                BY <1>6, <3>3 DEF TypeInv, StreamInv
            <4> HIDE DEF f
            <4>3. reader' = f
                BY <3>3, <4>1, <4>2 DEF ReaderType
            <4> QED BY <4>3 DEF f
        <3>17. /\ reader' = [x \in Path |-> reader'[x]] /\ reader'[p] = t
               /\ \A x \in Path : x # p => reader'[x] = reader[x]
            BY <3>16 DEF TypeInv
        <3> QED BY <3>11, <3>12, <3>14, <3>17 DEF SamePending, Like, PendLike
    <2> QED BY <2>1, <2>2
<1>8. mux'.chan = [x \in Path |-> mux'.chan[x]] /\ queue' \in QueueType
    BY <1>1, <1>7, TypeIs
<1>9. /\ StreamInv(p, mux'.chan[p], reader'[p], decoded'[p], sent[p], App)
      /\ Tidy(mux.chan[p], reader[p]) => Tidy(mux'.chan[p], reader'[p])
    BY <1>5, <1>6, <1>7 DEF c, r, d
<1>10. reader'[p].pc = "send" /\ (p \in Trie => reader'[p].base = reader[p].base)
    BY <1>4, <1>7 DEF r
<1> QED BY <1>1, <1>2, <1>5, <1>7, <1>8, <1>9, <1>10, ReaderKept DEF Kept

-----------------------------------------------------------------------------
(* Steps that change the trie                                              *)

\* A stream that was forgotten stays so, as long as nothing is declared twice.
LEMMA PassedKept ==
    ASSUME TrieInv, PassedInv, Closed(Trie'),
           \A c \in Path : c # <<>> /\ Front(c) \in Trie /\ Front(c) \in Trie' /\ Barred(c) => Barred(c)',
           \A c \in Trie' : c \notin Trie => ~Barred(c),
           \A x \in Path : On(x)' /\ x \notin Trie' => On(x) /\ mux'.chan[x].end # "open" /\ mux'.chan[x].q = <<>>,
           \A x \in Path : On(x)' /\ x \notin Trie' /\ reader'[x].pc # "done" => App'
    PROVE  PassedInv'
<1> DEFINE B == {c \in Path : c # <<>> /\ Front(c) \in Trie /\ Barred(c)}
<1>1. Closed(Trie)
    BY TrieClosed
<1>2. \A c \in Trie : c # <<>> => c \in B
    BY FrontFacts DEF TrieInv
<1>3. (Trie' \ Trie) \cap B = {}
    OBVIOUS
<1>4. ASSUME NEW y \in Path, On(y)', y \notin Trie'
      PROVE  \E n \in Path : StopsAt(y, n)' /\ Barred(ChildAt(y, n))'
    <2>1. y \notin Trie => \E n \in Path : StopsIn(Trie, y, n) /\ ChildAt(y, n) \in B
        <3> SUFFICES ASSUME y \notin Trie PROVE \E n \in Path : StopsIn(Trie, y, n) /\ ChildAt(y, n) \in B
            OBVIOUS
        <3>1. PICK n \in Path : StopsAt(y, n) /\ Barred(ChildAt(y, n))
            BY <1>4 DEF PassedInv
        <3>2. n \in Trie /\ n \in Prefixes(y) /\ n # y /\ StopsIn(Trie, y, n)
            BY <3>1 DEF StopsAt, StopsIn
        <3>3. ChildAt(y, n) \in Path /\ ChildAt(y, n) # <<>> /\ Front(ChildAt(y, n)) = n
            BY <3>2, ChildFacts
        <3> QED BY <3>1, <3>2, <3>3
    <2>2. \A c \in B : c \in Path /\ c # <<>> /\ Front(c) \in Trie /\ Barred(c)
        OBVIOUS
    <2> HIDE DEF B
    <2>3. PICK D, E : D = Trie /\ E = Trie'
        OBVIOUS
    <2>4. /\ Closed(D) /\ Closed(E) /\ y \notin E /\ \A c \in D : c # <<>> => c \in B
          /\ (E \ D) \cap B = {}
          /\ y \notin D => \E n \in Path : StopsIn(D, y, n) /\ ChildAt(y, n) \in B
        BY <1>1, <1>2, <1>3, <1>4, <2>1, <2>3
    <2>5. PICK n \in Path : /\ StopsIn(E, y, n) /\ ChildAt(y, n) \in B /\ Front(ChildAt(y, n)) = n
                            /\ n \in E /\ ChildAt(y, n) # <<>>
        BY <2>4, StaysBarred
    <2>6. Barred(ChildAt(y, n))'
        BY <2>2, <2>3, <2>5
    <2>7. StopsAt(y, n)'
        BY <2>3, <2>5 DEF StopsIn, StopsAt
    <2> QED BY <2>6, <2>7
<1> QED BY <1>4 DEF PassedInv

\* The children N of the node p are declared, and their data is taken.
Grows(p, N, taken) ==
    /\ MuxRec(mux') /\ mux'.aborted = FALSE /\ mux'.inbound = mux.inbound
    /\ mux'.pend \in [Path -> PendType] /\ mux'.chan = [x \in Path |-> mux'.chan[x]]
    /\ \A x \in Path :
        /\ mux'.pend[x].in <=> mux.pend[x].in /\ x \notin N
        /\ mux'.pend[x].closed = mux.pend[x].closed
        /\ mux'.pend[x].in => \/ mux'.pend[x].at \in N /\ mux'.pend[x].at \in Prefixes(x)
                              \/ /\ mux'.pend[x].at = mux.pend[x].at /\ Prefixes(x) \cap N = {}
                                 /\ ~Barred(ChildAt(x, mux.pend[x].at))'
    /\ Trie' = Trie \cup N
    /\ mux'.trie = [x \in DOMAIN mux'.trie |-> mux'.trie[x]] /\ Node(p)' \in NodeType
    /\ Node(p)'.closed = Node(p).closed
    /\ \A e \in N : NodeIs(mux, e, taken, Node(e)')
    /\ \A x \in Trie : x # p => Node(x)' = Node(x)
    /\ \A c \in Path : c # <<>> /\ Front(c) = p /\ (Barred(c) \/ c \in N) => Barred(c)'
    /\ \A e \in N : mux'.chan[e] = NextOf(ChanOf(mux, e, taken))
    /\ \A x \in Path : x # p /\ x \notin N => mux'.chan[x] = mux.chan[x]
GrowsReaders(p, N) ==
    /\ reader' = [x \in Path |-> reader'[x]] /\ decoded' = [x \in Path |-> decoded'[x]]
    /\ \A e \in N : reader'[e] = [reader[e] EXCEPT !.pc = "next"]
    /\ \A x \in Path : x # p /\ x \notin N => reader'[x] = reader[x]
    /\ \A x \in Path : x # p => decoded'[x] = decoded[x]
    /\ StreamInv(p, mux'.chan[p], reader'[p], decoded'[p], sent[p], App)
    /\ Tidy(mux.chan[p], reader[p]) => Tidy(mux'.chan[p], reader'[p])
    /\ On(p)' /\ ~mux'.chan[p].cancelled
    /\ Node(p)'.done <=> reader'[p].pc = "done"
    /\ Node(p)'.sealed <=> Node(p)'.done \/ (p # <<>> /\ ~Nested(p))
    /\ Node(p)'.decided = reader'[p].base
    /\ ~Node(p)'.done => ~Node(p).done /\ mux'.chan[p].end = mux.chan[p].end
Fresh(p, N, taken) ==
    /\ p \in Trie /\ N \subseteq Path /\ taken = {x \in N : mux.pend[x].in}
    /\ \A e \in N : e # <<>> /\ Front(e) = p /\ e \notin Trie /\ ~Barred(e)

\* Nobody reads a stream that may yet be declared.
LEMMA FreshOff ==
    ASSUME TrieInv, PassedInv, NEW p, NEW N, NEW taken, Fresh(p, N, taken), NEW e \in N
    PROVE  reader[e].pc = "off"
<1>1. e \in Path /\ e # <<>> /\ Front(e) = p /\ p \in Trie /\ e \notin Trie /\ ~Barred(e)
    BY DEF Fresh
<1>2. p \in Prefixes(e) /\ e # p /\ ChildAt(e, p) = e
    BY <1>1, FrontFacts, ChildIsSelf
<1>3. StopsAt(e, p)
    BY <1>1, <1>2 DEF StopsAt
<1>4. SUFFICES ASSUME On(e) PROVE FALSE
    BY DEF On
<1>5. PICK n \in Path : StopsAt(e, n) /\ Barred(ChildAt(e, n))
    BY <1>1, <1>4 DEF PassedInv
<1>6. n = p
    BY <1>1, <1>3, <1>5, TrieClosed, StopsUnique, StopsSame DEF Trie
<1> QED BY <1>1, <1>2, <1>5, <1>6

\* The channel that a declared stream gets
LEMMA ChanOfKept ==
    ASSUME NEW app \in BOOLEAN, NEW p, NEW c, NEW r, NEW d, NEW s, StreamInv(p, c, r, d, s, app),
           r.pc = "off", p # <<>>, NEW t, t = [r EXCEPT !.pc = "next"], NEW b \in BOOLEAN, NEW in \in BOOLEAN,
           b \/ c.q = <<>>, b => ~c.cancelled,
           NEW k, k = IF b THEN c ELSE NewChan, NEW l, l = IF in THEN k ELSE Close(k, "eof")
    PROVE  /\ StreamInv(p, NextOf(l), t, d, s, app) /\ ~NextOf(l).cancelled
           /\ Tidy(c, r) => Tidy(NextOf(l), t)
           /\ in /\ (b => c.end = "open") => NextOf(l).end = "open"
<1>1. /\ StreamInv(p, k, r, d, s, app) /\ (Tidy(c, r) => Tidy(k, r)) /\ ~k.cancelled
      /\ (b => c.end = "open") => k.end = "open"
    <2>1. CASE b
        BY <2>1
    <2>2. CASE ~b
        <3>1. StreamInv(p, NewChan, r, d, s, app) /\ ~NewChan.cancelled /\ NewChan.end = "open" /\ Tidy(NewChan, r)
            BY <2>2, StreamNew
        <3> QED BY <2>2, <3>1
    <2> QED BY <2>1, <2>2
<1>2. /\ StreamInv(p, l, r, d, s, app) /\ (Tidy(c, r) => Tidy(l, r)) /\ ~l.cancelled
      /\ in /\ (b => c.end = "open") => l.end = "open"
    <2>1. CASE in
        BY <1>1, <2>1
    <2>2. CASE ~in
        <3>1. /\ StreamInv(p, Close(k, "eof"), r, d, s, app) /\ Close(k, "eof").cancelled = k.cancelled
              /\ Tidy(k, r) => Tidy(Close(k, "eof"), r)
            BY <1>1, StreamClose
        <3> QED BY <1>1, <2>2, <3>1
    <2> QED BY <2>1, <2>2
<1>3. /\ StreamInv(p, NextOf(l), t, d, s, app)
      /\ NextOf(l).end = l.end /\ NextOf(l).cancelled = l.cancelled
      /\ Tidy(l, r) => Tidy(NextOf(l), t)
    BY <1>2, StreamNext
<1> QED BY <1>2, <1>3

\* The streams that are declared, and those before.
LEMMA GrowStreams ==
    ASSUME AliveInv, NEW p, NEW N, NEW taken, Fresh(p, N, taken), Grows(p, N, taken), GrowsReaders(p, N),
           sent' = sent, blame' = blame
    PROVE  /\ Streams'
           /\ \A e \in N : /\ ~mux'.chan[e].cancelled
                           /\ Tidy(mux.chan[e], reader[e]) => Tidy(mux'.chan[e], reader'[e])
                           /\ mux.inbound = "open" /\ (mux.pend[e].in => mux.chan[e].end = "open") =>
                                mux'.chan[e].end = "open"
                           /\ reader'[e].pc = "next" /\ reader'[e].base = 0
<1> USE DEF AliveInv
<1>1. App' = App /\ App \in BOOLEAN
    BY DEF App
<1>2. ASSUME NEW e \in N
      PROVE  /\ StreamInv(e, mux'.chan[e], reader'[e], decoded'[e], sent'[e], App')
             /\ ~mux'.chan[e].cancelled
             /\ Tidy(mux.chan[e], reader[e]) => Tidy(mux'.chan[e], reader'[e])
             /\ mux.inbound = "open" /\ (mux.pend[e].in => mux.chan[e].end = "open") =>
                    mux'.chan[e].end = "open"
             /\ reader'[e].pc = "next" /\ reader'[e].base = 0
    <2>1. e \in Path /\ e # <<>> /\ e \notin Trie /\ e # p
        BY <1>2 DEF Fresh
    <2>2. reader[e].pc = "off"
        BY <1>2, FreshOff
    <2> DEFINE c == mux.chan[e]
               r == reader[e]
               d == decoded[e]
               s == sent[e]
               t == [r EXCEPT !.pc = "next"]
               b == mux.pend[e].in
               in == mux.inbound = "open"
               k == IF b THEN c ELSE NewChan
               l == IF in THEN k ELSE Close(k, "eof")
    <2>3. StreamInv(e, c, r, d, s, App) /\ r.pc = "off" /\ b \in BOOLEAN /\ in \in BOOLEAN
        BY <2>1, <2>2 DEF Streams, TypeInv, PendType
    <2>4. (b \/ c.q = <<>>) /\ (b => ~c.cancelled)
        BY <2>1 DEF PendInv
    <2>5. ChanOf(mux, e, taken) = l
        <3>1. e \in taken <=> b
            BY <1>2 DEF Fresh
        <3>2. ~in => mux.inbound = "eof"
            BY DEF TypeInv
        <3>3. in <=> mux.inbound = "open"
            OBVIOUS
        <3> QED BY <3>1, <3>2, <3>3 DEF ChanOf
    <2>6. mux'.chan[e] = NextOf(l) /\ reader'[e] = t /\ decoded'[e] = d /\ sent'[e] = s
        <3>1. mux'.chan[e] = NextOf(ChanOf(mux, e, taken))
            BY <1>2 DEF Grows
        <3>2. reader'[e] = t /\ decoded'[e] = d /\ sent'[e] = s
            BY <1>2, <2>1 DEF GrowsReaders
        <3> HIDE DEF l, t, d, s
        <3> QED BY <2>5, <3>1, <3>2
    <2>7. r \in ReaderType /\ r.base = 0
        BY <2>1, <2>3 DEF StreamInv, FlowInv
    <2>8. t.pc = "next" /\ t.base = 0
        BY <2>7 DEF ReaderType
    <2>9. in <=> mux.inbound = "open"
        OBVIOUS
    <2>10. t = [r EXCEPT !.pc = "next"] /\ k = (IF b THEN c ELSE NewChan) /\ l = (IF in THEN k ELSE Close(k, "eof"))
        OBVIOUS
    <2> HIDE DEF c, r, d, s, t, b, in, k, l
    <2>11. /\ StreamInv(e, NextOf(l), t, d, s, App) /\ ~NextOf(l).cancelled
           /\ Tidy(c, r) => Tidy(NextOf(l), t)
           /\ in /\ (b => c.end = "open") => NextOf(l).end = "open"
        BY <1>1, <2>1, <2>3, <2>4, <2>10, ChanOfKept
    <2>12. /\ Tidy(mux.chan[e], reader[e]) => Tidy(mux'.chan[e], reader'[e])
           /\ mux.inbound = "open" /\ (mux.pend[e].in => mux.chan[e].end = "open") =>
                  mux'.chan[e].end = "open"
        BY <2>6, <2>9, <2>11 DEF c, r, b
    <2> QED BY <1>1, <2>6, <2>8, <2>11, <2>12
<1>3. Streams'
    <2> SUFFICES ASSUME NEW x \in Path
                 PROVE  StreamInv(x, mux'.chan[x], reader'[x], decoded'[x], sent'[x], App')
        BY DEF Streams
    <2>1. CASE x \in N
        BY <1>2, <2>1
    <2>2. CASE x = p
        BY <1>1, <2>2 DEF GrowsReaders
    <2>3. CASE x # p /\ x \notin N
        BY <1>1, <2>3 DEF Streams, Grows, GrowsReaders
    <2> QED BY <2>1, <2>2, <2>3
<1> QED BY <1>2, <1>3

\* The trie grows by children that were not barred.
LEMMA GrowTrie ==
    ASSUME AliveInv, NEW p, NEW N, NEW taken, Fresh(p, N, taken), Grows(p, N, taken), GrowsReaders(p, N),
           sent' = sent, blame' = blame
    PROVE  TrieInv' /\ Closed(Trie') /\ (\A x \in Trie' : Node(x)' \in NodeType)
           /\ \A c \in Path : c # <<>> /\ Front(c) \in Trie /\ Barred(c) => Barred(c)'
<1> USE DEF AliveInv
<1>1. Trie' = Trie \cup N /\ p \in Trie /\ Trie \subseteq Path /\ N \subseteq Path /\ Closed(Trie)
    BY TrieClosed DEF Grows, Fresh, TrieInv
<1>2. \A e \in N : e # <<>> /\ Front(e) = p /\ e \notin Trie /\ e # p
    BY DEF Fresh
<1>3. Closed(Trie')
    <2>1. ASSUME NEW e \in N, NEW x \in Prefixes(e) PROVE x \in Trie'
        <3>1. CASE x = e
            BY <1>1, <3>1
        <3>2. CASE x # e
            <4>1. x \in Prefixes(p)
                BY <1>1, <1>2, <2>1, <3>2, FrontFacts
            <4> QED BY <1>1, <4>1 DEF Closed
        <3> QED BY <3>1, <3>2
    <2> QED BY <1>1, <2>1 DEF Closed
<1>4. \A c \in Path : c # <<>> /\ Front(c) \in Trie /\ Barred(c) => Barred(c)'
    <2> SUFFICES ASSUME NEW c \in Path, c # <<>>, Front(c) \in Trie, Barred(c) PROVE Barred(c)'
        OBVIOUS
    <2>1. CASE Front(c) = p
        BY <2>1 DEF Grows
    <2>2. CASE Front(c) # p
        BY <2>2 DEF Grows, Barred
    <2> QED BY <2>1, <2>2
<1>5. \A x \in Trie' \ {<<>>} : Barred(x)'
    <2> SUFFICES ASSUME NEW x \in Trie', x # <<>> PROVE Barred(x)'
        OBVIOUS
    <2>1. CASE x \in Trie
        BY <1>1, <1>4, <2>1, FrontFacts DEF TrieInv
    <2>2. CASE x \in N
        BY <1>1, <1>2, <2>2 DEF Grows
    <2> QED BY <1>1, <2>1, <2>2
<1>6. ASSUME NEW x \in Trie'
      PROVE  /\ On(x)' /\ (Node(x)'.done <=> reader'[x].pc = "done")
             /\ Node(x)'.sealed <=> Node(x)'.done \/ (x # <<>> /\ ~Nested(x))
             /\ Node(x)'.decided = reader'[x].base
             /\ ~mux'.chan[x].cancelled
             /\ Node(x)' \in NodeType
    <2>1. CASE x = p
        BY <2>1 DEF GrowsReaders, Grows
    <2>2. CASE x \in N
        <3>1. NodeIs(mux, x, taken, Node(x)')
            BY <2>2 DEF Grows
        <3>2. ~mux'.chan[x].cancelled /\ reader'[x].pc = "next" /\ reader'[x].base = 0
            BY <2>2, GrowStreams
        <3> QED BY <1>2, <2>2, <3>1, <3>2 DEF NodeIs, On
    <2>3. CASE x # p /\ x \notin N
        <3>1. x \in Trie /\ x \in Path /\ Node(x)' = Node(x) /\ reader'[x] = reader[x] /\ mux'.chan[x] = mux.chan[x]
            BY <1>1, <2>3 DEF Grows, GrowsReaders
        <3>2. /\ On(x) /\ (Node(x).done <=> reader[x].pc = "done")
              /\ Node(x).sealed <=> Node(x).done \/ (x # <<>> /\ ~Nested(x))
              /\ Node(x).decided = reader[x].base
              /\ ~mux.chan[x].cancelled
            BY <3>1 DEF TrieInv
        <3>3. Node(x) \in NodeType
            BY <3>1 DEF TypeInv, Node
        <3> QED BY <3>1, <3>2, <3>3 DEF On
    <2> QED BY <2>1, <2>2, <2>3
<1>7. TrieInv'
    BY <1>3, <1>5, <1>6 DEF TrieInv, Closed
<1> QED BY <1>3, <1>4, <1>6, <1>7

\* What is buffered below a declared stream moves there.
LEMMA GrowPend ==
    ASSUME AliveInv, NEW p, NEW N, NEW taken, Fresh(p, N, taken), Grows(p, N, taken), GrowsReaders(p, N),
           sent' = sent, blame' = blame
    PROVE  PendInv'
<1> USE DEF AliveInv
<1>1. Trie' = Trie \cup N /\ p \in Trie /\ Trie \subseteq Path /\ N \subseteq Path /\ Closed(Trie)
    BY TrieClosed DEF Grows, Fresh, TrieInv
<1>2. \A e \in N : e # <<>> /\ Front(e) = p /\ e \notin Trie /\ e # p
    BY DEF Fresh
<1>3. ASSUME NEW x \in Path, mux'.pend[x].in, NEW n, n = mux'.pend[x].at
      PROVE  /\ StopsAt(x, n)' /\ ~Barred(ChildAt(x, n))' /\ (n = <<>> => x[1] \in Params)
             /\ ~mux'.chan[x].cancelled
    <2>1. /\ mux.pend[x].in /\ x \notin N
          /\ \/ n \in N /\ n \in Prefixes(x)
             \/ n = mux.pend[x].at /\ Prefixes(x) \cap N = {} /\ ~Barred(ChildAt(x, mux.pend[x].at))'
        BY <1>3 DEF Grows
    <2>2. /\ StopsAt(x, mux.pend[x].at) /\ (mux.pend[x].at = <<>> => x[1] \in Params)
          /\ ~mux.chan[x].cancelled
        BY <2>1 DEF PendInv
    <2>3. x \notin Trie
        BY <1>1, <2>2, ChildFacts DEF StopsAt, Closed
    <2>4. mux'.chan[x] = mux.chan[x]
        BY <1>1, <2>1, <2>3 DEF Grows
    <2>5. CASE n \in N /\ n \in Prefixes(x)
        <3>1. n # x /\ n \in Path /\ n # <<>> /\ n \notin Trie
            BY <1>1, <1>2, <2>1, <2>5
        <3>2. /\ ChildAt(x, n) \in Path /\ Front(ChildAt(x, n)) = n /\ n \in Prefixes(ChildAt(x, n))
              /\ n # ChildAt(x, n) /\ ChildAt(x, n) # <<>>
            BY <2>5, <3>1, ChildFacts
        <3>3. ChildAt(x, n) \notin Trie'
            <4>1. ChildAt(x, n) \notin Trie
                BY <1>1, <3>1, <3>2 DEF Closed
            <4>2. ChildAt(x, n) \notin N
                <5>1. SUFFICES ASSUME ChildAt(x, n) \in N PROVE FALSE
                    OBVIOUS
                <5>2. Front(ChildAt(x, n)) = p
                    BY <1>2, <5>1
                <5> QED BY <1>2, <2>5, <3>2, <5>2
            <4> QED BY <1>1, <4>1, <4>2
        <3>4. StopsAt(x, n)'
            BY <1>1, <2>5, <3>1, <3>3 DEF StopsAt
        <3>5. ~Barred(ChildAt(x, n))'
            <4>1. Nested(n) /\ Last(ChildAt(x, n)) \in Nat
                BY <2>5, <3>1, <3>2, ChildAppend, FrontFacts
            <4>2. NodeIs(mux, n, taken, Node(n)')
                BY <2>5 DEF Grows
            <4>3. Node(n)'.sealed = FALSE /\ Node(n)'.decided = 0
                BY <4>1, <4>2 DEF NodeIs
            <4> QED BY <3>2, <4>1, <4>3 DEF Barred
        <3> QED BY <2>2, <2>4, <3>1, <3>4, <3>5
    <2>6. CASE n = mux.pend[x].at /\ Prefixes(x) \cap N = {} /\ ~Barred(ChildAt(x, mux.pend[x].at))'
        <3>1. n \in Trie /\ n \in Prefixes(x) /\ n # x /\ ChildAt(x, n) \notin Trie
            BY <2>2, <2>6 DEF StopsAt
        <3>2. ChildAt(x, n) \notin N
            BY <2>6, <3>1, ChildFacts
        <3>3. StopsAt(x, n)'
            BY <1>1, <3>1, <3>2 DEF StopsAt
        <3>4. ~Barred(ChildAt(x, n))'
            BY <1>3, <2>6 DEF Barred, Node
        <3> QED BY <2>2, <2>4, <2>6, <3>3, <3>4
    <2> QED BY <2>1, <2>5, <2>6
<1>4. ASSUME NEW x \in Path, x \notin Trie', ~mux'.pend[x].in PROVE mux'.chan[x].q = <<>>
    <2>1. x \notin Trie /\ x \notin N /\ x # p
        BY <1>1, <1>4
    <2>2. ~mux.pend[x].in /\ mux'.chan[x] = mux.chan[x]
        BY <1>4, <2>1 DEF Grows
    <2> QED BY <2>1, <2>2 DEF PendInv
<1>5. \A x \in Path : mux'.pend[x].in =>
        /\ StopsAt(x, mux.pend[x].at)' /\ ~Barred(ChildAt(x, mux.pend[x].at))'
        /\ mux'.pend[x].at = <<>> => x[1] \in Params
        /\ ~mux'.chan[x].cancelled
    <2> SUFFICES ASSUME NEW x \in Path, mux'.pend[x].in
                 PROVE  /\ StopsAt(x, mux.pend[x].at)' /\ ~Barred(ChildAt(x, mux.pend[x].at))'
                        /\ mux'.pend[x].at = <<>> => x[1] \in Params
                        /\ ~mux'.chan[x].cancelled
        OBVIOUS
    <2>1. PICK n : n = mux'.pend[x].at
        OBVIOUS
    <2>2. /\ StopsAt(x, n)' /\ ~Barred(ChildAt(x, n))' /\ (n = <<>> => x[1] \in Params)
          /\ ~mux'.chan[x].cancelled
        BY <1>3, <2>1
    <2> QED BY <2>1, <2>2 DEF StopsAt, Barred, Node, Trie
<1> QED BY <1>4, <1>5 DEF PendInv, StopsAt, Barred, Trie, Node

\* What holds while nobody is to blame, when streams are declared that the peer
\* declared.
LEMMA GrowCalm ==
    ASSUME AliveInv, NEW p, NEW N, NEW taken, Fresh(p, N, taken), Grows(p, N, taken), GrowsReaders(p, N),
           sent' = sent, blame' = blame, ingress' = ingress, queue' = queue,
           blame = {}, \A e \in N : Declared(e)
    PROVE  CalmInv'
<1> USE DEF AliveInv
<1>1. Trie' = Trie \cup N /\ p \in Trie /\ Trie \subseteq Path /\ N \subseteq Path /\ CalmInv
    BY DEF Grows, Fresh, TrieInv
<1>2. \A e \in N : e # <<>> /\ Front(e) = p /\ e \notin Trie /\ e # p
    BY DEF Fresh
<1>3. /\ \A x : Declared(x)' <=> Declared(x)
      /\ \A x : AllDeclared(x)' <=> AllDeclared(x)
      /\ \A x : Open(x)' <=> Open(x)
      /\ Complete' <=> Complete
    BY DEF Declared, AllDeclared, Open, Complete
<1>4. \A e \in N : /\ Tidy(mux.chan[e], reader[e]) => Tidy(mux'.chan[e], reader'[e])
                   /\ mux.inbound = "open" /\ (mux.pend[e].in => mux.chan[e].end = "open") =>
                        mux'.chan[e].end = "open"
    BY GrowStreams
<1>5. ASSUME NEW x \in Path PROVE ~queue'[x].cancelled /\ ~mux'.pend[x].closed /\ Tidy(mux'.chan[x], reader'[x])
    <2>1. ~queue[x].cancelled /\ ~mux.pend[x].closed /\ Tidy(mux.chan[x], reader[x])
        BY <1>1 DEF CalmInv
    <2>2. ~mux'.pend[x].closed
        BY <2>1 DEF Grows
    <2>3. Tidy(mux'.chan[x], reader'[x])
        <3>1. CASE x \in N
            BY <1>4, <2>1, <3>1
        <3>2. CASE x = p
            BY <2>1, <3>2 DEF GrowsReaders
        <3>3. CASE x # p /\ x \notin N
            BY <2>1, <3>3 DEF Grows, GrowsReaders
        <3> QED BY <3>1, <3>2, <3>3
    <2> QED BY <2>1, <2>2, <2>3
<1>6. ASSUME NEW x \in Trie' PROVE ~Node(x)'.closed
    <2>1. CASE x = p
        BY <1>1, <2>1 DEF Grows, CalmInv
    <2>2. CASE x \in N
        <3>1. NodeIs(mux, x, taken, Node(x)')
            BY <2>2 DEF Grows
        <3>2. ~mux.pend[x].closed
            BY <1>1, <2>2 DEF CalmInv
        <3> QED BY <3>1, <3>2 DEF NodeIs
    <2>3. CASE x # p /\ x \notin N
        BY <1>1, <2>3 DEF Grows, CalmInv
    <2> QED BY <2>1, <2>2, <2>3
<1>7. \A x \in Path : x \notin N => (On(x)' => On(x))
    <2> SUFFICES ASSUME NEW x \in Path, x \notin N, On(x)' PROVE On(x)
        OBVIOUS
    <2>1. CASE x = p
        BY <1>1, <2>1 DEF TrieInv
    <2>2. CASE x # p
        BY <2>2 DEF GrowsReaders, On
    <2> QED BY <2>1, <2>2
<1>8. ASSUME NEW x \in Path, sent'[x].n > 0 \/ mux'.pend[x].in \/ On(x)' PROVE AllDeclared(x)'
    <2>1. CASE x \in N
        <3>1. AllDeclared(x)
            BY <1>1, <2>1, DeclaredAll
        <3> QED BY <1>3, <3>1
    <2>2. CASE x \notin N
        <3>1. sent[x].n > 0 \/ mux.pend[x].in \/ On(x)
            BY <1>7, <1>8, <2>2 DEF Grows
        <3> QED BY <1>1, <1>3, <3>1 DEF CalmInv
    <2> QED BY <2>1, <2>2
<1>9. \A x \in Path : x \in Trie \/ mux.pend[x].in => x \in Trie' \/ mux'.pend[x].in
    BY <1>1 DEF Grows
<1>10. CalmIngress'
    <2>1. CalmIngress /\ ingress.path \in Path
        BY <1>1 DEF CalmInv, TypeInv
    <2>2. Open(ingress.path)' <=> Open(ingress.path)
        BY DEF Open
    <2>3. AllDeclared(ingress.path)' <=> AllDeclared(ingress.path)
        BY DEF AllDeclared, Declared
    <2> QED BY <1>9, <2>1, <2>2, <2>3 DEF CalmIngress
<1>11. ASSUME NEW x \in Path, mux'.inbound = "open", (x \in Trie' /\ ~Node(x)'.done) \/ mux'.pend[x].in
       PROVE  mux'.chan[x].end = "open"
    <2>1. mux.inbound = "open"
        BY <1>11 DEF Grows
    <2>2. mux.pend[x].in => mux.chan[x].end = "open"
        BY <1>1, <2>1 DEF CalmInv
    <2>3. CASE x \in N
        BY <1>4, <2>1, <2>2, <2>3
    <2>4. CASE x \notin N
        <3>1. (x \in Trie /\ ~Node(x)'.done) \/ mux.pend[x].in
            BY <1>1, <1>11, <2>4 DEF Grows
        <3>2. CASE x = p
            <4>1. ~mux.pend[x].in
                <5>1. SUFFICES ASSUME mux.pend[x].in PROVE FALSE
                    OBVIOUS
                <5>2. StopsAt(x, mux.pend[x].at)
                    BY <5>1 DEF PendInv
                <5> QED BY <1>1, <3>2, <5>2, TrieClosed, ChildFacts DEF StopsAt, Closed
            <4>2. ~Node(p).done /\ mux'.chan[p].end = mux.chan[p].end
                BY <3>1, <3>2, <4>1 DEF GrowsReaders
            <4> QED BY <1>1, <2>1, <3>2, <4>2 DEF CalmInv
        <3>3. CASE x # p
            <4>1. mux'.chan[x] = mux.chan[x] /\ (x \in Trie => Node(x)' = Node(x))
                BY <2>4, <3>3 DEF Grows
            <4> QED BY <1>1, <2>1, <3>1, <4>1 DEF CalmInv
        <3> QED BY <3>2, <3>3
    <2> QED BY <2>3, <2>4
<1>12. \A x \in Path : On(x)' /\ x \notin Trie' =>
        \A y \in Path : x \in Prefixes(y) /\ Declared(y)' => sent'[y].over
    BY <1>1, <1>3, <1>7 DEF CalmInv
<1>13. sent'[<<>>].n <= 1 /\ (mux'.inbound # "open" => Complete')
    BY <1>1, <1>3 DEF CalmInv, Grows
<1> QED BY <1>5, <1>6, <1>8, <1>10, <1>11, <1>12, <1>13 DEF CalmInv

\* Streams are declared.
LEMMA GrowKept ==
    ASSUME AliveInv, NEW p, NEW N, NEW taken, Fresh(p, N, taken), Grows(p, N, taken), GrowsReaders(p, N),
           sent' = sent, blame' = blame, ingress' = ingress, queue' = queue, StartedInv',
           blame = {} => \A e \in N : Declared(e)
    PROVE  AliveInv'
<1> USE DEF AliveInv
<1>1. Trie' = Trie \cup N /\ p \in Trie /\ Trie \subseteq Path /\ N \subseteq Path
    BY DEF Grows, Fresh, TrieInv
<1>2. /\ TrieInv' /\ Closed(Trie') /\ \A x \in Trie' : Node(x)' \in NodeType
      /\ \A c \in Path : c # <<>> /\ Front(c) \in Trie /\ Barred(c) => Barred(c)'
    BY GrowTrie
<1>3. Streams'
    BY GrowStreams
<1>4. TypeInv'
    <2>1. mux.inbound \in {"open", "eof"}
        BY DEF TypeInv
    <2>2. \A x \in DOMAIN mux'.trie : mux'.trie[x] \in NodeType
        BY <1>2 DEF Trie, Node
    <2>3. MuxType(mux')
        BY <2>1, <2>2 DEF MuxType, Grows
    <2>4. mux'.chan = [x \in Path |-> mux'.chan[x]]
        BY DEF Grows
    <2>5. reader' = [x \in Path |-> reader'[x]] /\ decoded' = [x \in Path |-> decoded'[x]]
        BY DEF GrowsReaders
    <2>6. sent' = [x \in Path |-> sent'[x]] /\ queue' \in QueueType /\ IngressType(ingress')
        BY TypeIs
    <2> QED BY <1>3, <2>3, <2>4, <2>5, <2>6, TypeNext
<1>5. PendInv'
    BY GrowPend
<1>6. PassedInv'
    <2>1. \A c \in Trie' : c \notin Trie => ~Barred(c)
        BY <1>1 DEF Fresh
    <2>2. ASSUME NEW x \in Path, On(x)', x \notin Trie'
          PROVE  /\ On(x) /\ mux'.chan[x].end # "open" /\ mux'.chan[x].q = <<>>
                 /\ reader'[x].pc # "done" => App'
        <3>1. x # p /\ x \notin N /\ x \notin Trie
            BY <1>1, <2>2
        <3>2. mux'.chan[x] = mux.chan[x] /\ reader'[x] = reader[x]
            BY <3>1 DEF Grows, GrowsReaders
        <3>3. On(x)
            BY <2>2, <3>2 DEF On
        <3>4. mux.chan[x].end # "open" /\ mux.chan[x].q = <<>> /\ (reader[x].pc # "done" => App)
            BY <3>1, <3>3 DEF PassedInv
        <3>5. App' = App
            BY DEF App
        <3> QED BY <3>2, <3>3, <3>4, <3>5
    <2> QED BY <1>2, <2>1, <2>2, PassedKept
<1>7. IngressInv'
    <2>1. ingress.path \in Path /\ mux'.inbound = mux.inbound
        BY DEF TypeInv, Grows
    <2>2. \A x \in Path : \/ x \in Trie' \/ mux'.pend[x].in
                          \/ ~(x \in Trie \/ mux.pend[x].in) /\ mux'.chan[x] = mux.chan[x]
        BY <1>1 DEF Grows
    <2> QED BY <2>1, <2>2 DEF IngressInv
<1>8. ASSUME blame' = {} PROVE CalmInv'
    BY <1>8, GrowCalm
<1> QED BY <1>2, <1>3, <1>4, <1>5, <1>6, <1>7, <1>8

\* The element of a stream, which is a stream itself
LEMMA NestedElementKept ==
    ASSUME AliveInv, NEW p \in Path, ReadElement(p), Nested(p), p \in Trie
    PROVE  Kept
<1> USE DEF AliveInv
<1>1. /\ reader[p].pc = "decode" /\ decoded' = [decoded EXCEPT ![p] = @ + 1]
      /\ UNCHANGED <<queue, ingress, tx, finished, frames, sent, blame>>
    BY DEF ReadElement, Counted
<1>2. p # <<>> /\ On(p)
    BY <1>1, RootReader DEF On
<1>3. PICK i : i = reader[p].base
    OBVIOUS
<1>4. PICK e : e = Append(p, i)
    OBVIOUS
<1>5. i \in Index /\ i \in Nat /\ i < sent[p].elems
    BY <1>1, <1>2, <1>3, NextElement
<1>6. /\ e \in Path /\ e # <<>> /\ Front(e) = p /\ Last(e) = i /\ e # p /\ p \in Prefixes(e)
      /\ Len(e) = Len(p) + 1
    BY <1>4, <1>5, AppendFacts
<1>7. /\ Node(p) \in NodeType /\ ~Node(p).done /\ ~Node(p).sealed /\ Node(p).decided = i
      /\ ~mux.chan[p].cancelled
    BY <1>1, <1>3 DEF TrieInv, TypeInv, Node
<1>8. ~Barred(e) /\ e \notin Trie
    <2>1. ~Barred(e)
        BY <1>5, <1>6, <1>7 DEF Barred
    <2> QED BY <1>6, <2>1 DEF TrieInv
<1>9. PICK taken : taken = {x \in {e} : mux.pend[x].in}
    OBVIOUS
<1>10. PICK m : m = SealElement(mux, e)
    OBVIOUS
<1>11. IsGrown(m, mux, p, e, taken)
    <2>1. MuxOk(mux)
        BY MuxIsOk
    <2>2. mux.trie[p].decided = Last(e) /\ ~mux.trie[p].sealed /\ p \in DOMAIN mux.trie /\ e \notin DOMAIN mux.trie
        BY <1>6, <1>7, <1>8 DEF Node, Trie
    <2> QED BY <1>6, <1>9, <1>10, <2>1, <2>2, ElementOk
<1>12. Has(m, e)
    BY <1>11 DEF IsGrown, Has
<1>13. /\ mux' = [m EXCEPT !.chan[e] = NextOf(@)]
       /\ reader' = [reader EXCEPT ![p] = [pc |-> "send", base |-> @.base + 1], ![e].pc = "next"]
    BY <1>3, <1>4, <1>10, <1>12 DEF ReadElement, Await
<1>14. /\ MuxRec(mux') /\ mux'.trie = m.trie /\ mux'.pend = m.pend /\ mux'.inbound = m.inbound
       /\ mux'.aborted = m.aborted /\ mux'.chan = [m.chan EXCEPT ![e] = NextOf(@)]
    <2>1. MuxRec(m)
        BY <1>11 DEF IsGrown
    <2> DEFINE g == [m.chan EXCEPT ![e] = NextOf(@)]
    <2>2. mux' = [m EXCEPT !.chan = g]
        BY <1>13, <2>1 DEF MuxRec
    <2> HIDE DEF g
    <2>3. /\ MuxRec(mux') /\ mux'.trie = m.trie /\ mux'.pend = m.pend /\ mux'.inbound = m.inbound
          /\ mux'.aborted = m.aborted /\ mux'.chan = g
        BY <2>1, <2>2 DEF MuxRec
    <2> QED BY <2>3 DEF g
<1>15. PICK o : o = mux.trie[p]
    OBVIOUS
<1>16. Node(p)' = [o EXCEPT !.decided = i + 1] /\ o = Node(p)
    BY <1>6, <1>11, <1>14, <1>15 DEF IsGrown, Node
<1>17. /\ Node(p)' \in NodeType /\ Node(p)'.sealed = FALSE /\ Node(p)'.done = FALSE /\ Node(p)'.decided = i + 1
       /\ Node(p)'.closed = Node(p).closed
    <2>1. PICK w, v : w = Node(p)' /\ v = i + 1
        OBVIOUS
    <2>2. w = [o EXCEPT !.decided = v] /\ o \in NodeType /\ v \in Nat /\ ~o.done /\ ~o.sealed
        BY <1>5, <1>7, <1>16, <2>1
    <2>3. /\ w \in NodeType /\ w.sealed = o.sealed /\ w.done = o.done /\ w.decided = v /\ w.closed = o.closed
          /\ o.sealed \in BOOLEAN /\ o.done \in BOOLEAN
        BY <2>2 DEF NodeType
    <2> QED BY <1>16, <2>1, <2>2, <2>3
<1>18. Trie' = Trie \cup {e} /\ (\A x \in Trie : x # p => Node(x)' = Node(x))
    BY <1>11, <1>14 DEF IsGrown, Trie, Node
<1>19. Fresh(p, {e}, taken)
    BY <1>6, <1>8, <1>9 DEF Fresh
<1>20. ASSUME NEW x \in Path, NEW n \in Prefixes(x), n # x, n = p, Last(ChildAt(x, n)) = i PROVE ChildAt(x, n) = e
    BY <1>4, <1>20, ChildFacts, ChildAppend
<1>21. Grows(p, {e}, taken)
    <2>1. ASSUME NEW x \in Path, mux'.pend[x].in
          PROVE  \/ mux'.pend[x].at \in {e} /\ mux'.pend[x].at \in Prefixes(x)
                 \/ /\ mux'.pend[x].at = mux.pend[x].at /\ Prefixes(x) \cap {e} = {}
                    /\ ~Barred(ChildAt(x, mux.pend[x].at))'
        <3>1. /\ mux.pend[x].in /\ mux'.pend[x].at = IF e \in Prefixes(x) THEN e ELSE mux.pend[x].at
            BY <1>11, <1>14, <2>1 DEF IsGrown
        <3>2. CASE e \in Prefixes(x)
            BY <3>1, <3>2
        <3>3. CASE e \notin Prefixes(x)
            <4>1. PICK n : n = mux.pend[x].at
                OBVIOUS
            <4>2. n = mux'.pend[x].at /\ StopsAt(x, n) /\ ~Barred(ChildAt(x, n))
                BY <3>1, <3>3, <4>1 DEF PendInv
            <4>3. n \in Trie /\ n \in Prefixes(x) /\ n # x
                BY <4>2 DEF StopsAt
            <4>4. /\ ChildAt(x, n) \in Prefixes(x) /\ ChildAt(x, n) \in Path /\ ChildAt(x, n) # <<>>
                  /\ Front(ChildAt(x, n)) = n /\ Last(ChildAt(x, n)) \in Nat
                BY <4>3, ChildFacts, FrontFacts
            <4>5. ~Barred(ChildAt(x, n))'
                <5>1. CASE n # p
                    BY <1>18, <4>2, <4>3, <4>4, <5>1 DEF Barred
                <5>2. CASE n = p
                    <6>1. ~(Last(ChildAt(x, n)) < i)
                        BY <1>7, <4>2, <4>4, <5>2 DEF Barred
                    <6>2. Last(ChildAt(x, n)) # i
                        BY <1>20, <3>3, <4>3, <4>4, <5>2
                    <6>3. ~(Last(ChildAt(x, n)) < i + 1)
                        BY <1>5, <4>4, <6>1, <6>2
                    <6> QED BY <1>17, <4>4, <5>2, <6>3 DEF Barred
                <5> QED BY <5>1, <5>2
            <4>6. ~Barred(ChildAt(x, mux.pend[x].at))'
                BY <4>2, <4>5 DEF Barred, Node
            <4> QED BY <3>1, <3>3, <4>6
        <3> QED BY <3>2, <3>3
    <2>2. ASSUME NEW c \in Path, c # <<>>, Front(c) = p, Barred(c) \/ c \in {e} PROVE Barred(c)'
        <3>1. Last(c) \in Nat
            BY <2>2, FrontFacts
        <3>2. Last(c) < i + 1
            BY <1>5, <1>6, <1>7, <2>2, <3>1 DEF Barred
        <3> QED BY <1>17, <2>2, <3>2 DEF Barred
    <2>3. /\ mux'.chan = [x \in Path |-> mux'.chan[x]]
          /\ mux'.chan[e] = NextOf(ChanOf(mux, e, taken))
          /\ \A x \in Path : x # p /\ x \notin {e} => mux'.chan[x] = mux.chan[x]
        BY <1>6, <1>11, <1>14 DEF IsGrown
    <2>4. /\ MuxRec(mux') /\ mux'.aborted = FALSE /\ mux'.inbound = mux.inbound
          /\ mux'.pend \in [Path -> PendType]
          /\ \A x \in Path : /\ mux'.pend[x].in <=> mux.pend[x].in /\ x \notin {e}
                             /\ mux'.pend[x].closed = mux.pend[x].closed
          /\ mux'.trie = [x \in DOMAIN mux'.trie |-> mux'.trie[x]]
          /\ NodeIs(mux, e, taken, Node(e)')
        BY <1>11, <1>14 DEF IsGrown, Node
    <2> QED BY <1>17, <1>18, <2>1, <2>2, <2>3, <2>4 DEF Grows
<1>22. PICK t : t = [pc |-> "send", base |-> i + 1]
    OBVIOUS
<1>23. /\ reader' = [x \in Path |-> reader'[x]] /\ reader'[p] = t
       /\ reader'[e] = [reader[e] EXCEPT !.pc = "next"]
       /\ \A x \in Path : x # p /\ x # e => reader'[x] = reader[x]
    BY <1>3, <1>6, <1>13, <1>22 DEF TypeInv
<1>24. /\ decoded' = [x \in Path |-> decoded'[x]] /\ decoded'[p] = decoded[p] + 1
       /\ \A x \in Path : x # p => decoded'[x] = decoded[x]
    BY <1>1 DEF TypeInv
<1>25. mux'.chan[p] = mux.chan[p]
    BY <1>6, <1>11, <1>14 DEF IsGrown
<1>26. /\ StreamInv(p, mux'.chan[p], reader'[p], decoded'[p], sent[p], App)
       /\ Tidy(mux.chan[p], reader[p]) => Tidy(mux'.chan[p], reader'[p])
    <2> DEFINE c == mux.chan[p]
               r == reader[p]
               d == decoded[p]
    <2>1. StreamInv(p, c, r, d, sent[p], App) /\ App \in BOOLEAN /\ r.pc = "decode" /\ r.base = i
        BY <1>1, <1>3 DEF Streams, App
    <2> HIDE DEF c, r, d
    <2>2. t = [pc |-> "send", base |-> IF Nested(p) THEN r.base + 1 ELSE r.base]
        BY <1>22, <2>1
    <2>3. StreamInv(p, c, t, d + 1, sent[p], App) /\ (Tidy(c, r) => Tidy(c, t))
        BY <2>1, <2>2, StreamElement
    <2> QED BY <1>23, <1>24, <1>25, <2>3 DEF c, r, d
<1>27. GrowsReaders(p, {e})
    <2>1. reader'[p].pc = "send" /\ reader'[p].base = i + 1 /\ On(p)'
        BY <1>22, <1>23 DEF On
    <2> QED BY <1>7, <1>17, <1>23, <1>24, <1>25, <1>26, <2>1 DEF GrowsReaders
<1>28. StartedInv'
    <2>1. reader[e].pc = "off" /\ reader[e] \in ReaderType
        BY <1>6, <1>19, FreshOff DEF TypeInv
    <2>2. reader'[e].pc = "next" /\ reader'[e].base = reader[e].base
        BY <1>23, <2>1 DEF ReaderType
    <2>3. App' = App /\ sent' = sent
        BY <1>1 DEF App
    <2>4. ASSUME NEW x \in Path, On(x) PROVE On(x)'
        <3>1. x = p => reader'[x].pc = "send"
            BY <1>22, <1>23
        <3>2. x # e
            BY <2>1, <2>4 DEF On
        <3>3. x # p => reader'[x] = reader[x]
            BY <1>23, <3>2
        <3> QED BY <2>4, <3>1, <3>3 DEF On
    <2>5. reader'[<<>>].pc = "done" => \A j \in Params : On(<<j>>)'
        <3>1. reader'[<<>>] = reader[<<>>]
            BY <1>2, <1>6, <1>23, RootPath
        <3>2. \A j \in Params : <<j>> \in Path
            BY ParamFacts
        <3> QED BY <2>4, <3>1, <3>2 DEF StartedInv
    <2>6. ASSUME NEW x \in Path, Len(x) > 1, Last(x) < reader'[Front(x)].base PROVE On(x)' \/ App'
        <3>1. x # <<>>
            BY <2>6, RootPath
        <3>2. Front(x) \in Path /\ Last(x) \in Nat /\ Front(x) \in Prefixes(x) /\ Front(x) # x
            BY <3>1, FrontFacts
        <3>3. CASE Front(x) = p /\ Last(x) = i
            <4>1. ChildAt(x, Front(x)) = x
                BY <3>1, ChildIsSelf
            <4>2. x = e
                BY <1>20, <3>2, <3>3, <4>1
            <4> QED BY <2>2, <4>2 DEF On
        <3>4. CASE ~(Front(x) = p /\ Last(x) = i)
            <4>1. Last(x) < reader[Front(x)].base
                <5>1. CASE Front(x) = p
                    BY <1>3, <1>5, <1>22, <1>23, <2>6, <3>2, <3>4, <5>1
                <5>2. CASE Front(x) = e
                    BY <2>2, <2>6, <5>2
                <5>3. CASE Front(x) # p /\ Front(x) # e
                    BY <1>23, <2>6, <3>2, <5>3
                <5> QED BY <5>1, <5>2, <5>3
            <4> QED BY <2>3, <2>4, <2>6, <4>1 DEF StartedInv
        <3> QED BY <3>3, <3>4
    <2> QED BY <2>3, <2>5, <2>6 DEF StartedInv
<1>29. blame = {} => \A x \in {e} : Declared(x)
    <2>1. Len(e) > 1 /\ Len(e) # 1
        BY <1>2, <1>6, FrontFacts
    <2> QED BY <1>5, <1>6, <2>1 DEF Declared
<1> QED BY <1>1, <1>19, <1>21, <1>27, <1>28, <1>29, GrowKept DEF Kept

\* The element of a stream
LEMMA ElementKept ==
    ASSUME AliveInv, NEW p \in Path, ReadElement(p)
    PROVE  Kept
BY PlainElementKept, NestedElementKept

-----------------------------------------------------------------------------
\* u is m with the tuple received, unless the invocation failed.
IsTupled(u, m, taken) ==
    /\ MuxRec(u) /\ u.aborted \in BOOLEAN /\ (u.aborted <=> m.chan[<<>>].q # <<>>)
    /\ ~u.aborted =>
        /\ u.inbound = m.inbound /\ u.pend \in [Path -> PendType]
        /\ \A x \in Path :
            /\ u.pend[x].in <=> m.pend[x].in /\ x \notin Tops
            /\ u.pend[x].closed = m.pend[x].closed
            /\ u.pend[x].in => u.pend[x].at = <<x[1]>> /\ <<x[1]>> \in Tops /\ x # <<x[1]>>
        /\ u.trie = [p \in DOMAIN u.trie |-> u.trie[p]] /\ DOMAIN u.trie = {<<>>} \cup Tops
        /\ u.trie[<<>>] \in NodeType /\ u.trie[<<>>].sealed = TRUE /\ u.trie[<<>>].done = TRUE
        /\ u.trie[<<>>].decided = m.trie[<<>>].decided /\ u.trie[<<>>].closed = m.trie[<<>>].closed
        /\ \A p \in Tops : NodeIs(m, p, taken, u.trie[p])
        /\ u.chan = [p \in Path |-> u.chan[p]] /\ u.chan[<<>>] = Close(m.chan[<<>>], "eof")
        /\ \A p \in Tops : u.chan[p] = ChanOf(m, p, taken)
        /\ \A p \in Path : p # <<>> /\ p \notin Tops => u.chan[p] = m.chan[p]

\* The nodes of the tuple and its streams have their parents.
LEMMA TopsClosed == Closed({<<>>} \cup Tops) /\ <<>> \notin Tops
<1>1. <<>> \notin Tops /\ Tops \subseteq Path
    BY TopFacts
<1>2. Prefixes(<<>>) \subseteq {<<>>}
    <2>1. \A x \in Prefixes(<<>>) : x = <<>>
        BY RootPath, PrefixFacts
    <2> QED BY <2>1
<1>3. \A p \in Tops : Prefixes(p) \subseteq {<<>>} \cup Tops
    BY TopFacts
<1> QED BY <1>1, <1>2, <1>3, RootPath DEF Closed

\* The nodes of the streams of the tuple miss what is nested in these.
LEMMA TopStops ==
    ASSUME NEW x \in Path, NEW n, n = <<x[1]>>, n \in Tops, x # n, x # <<>>
    PROVE  StopsIn({<<>>} \cup Tops, x, n) /\ n # <<>>
<1>1. PICK c : c = ChildAt(x, <<>>)
    OBVIOUS
<1>2. c = n /\ c \in Prefixes(x)
    BY <1>1, LengthOne, PrefixSelf, ChildFacts, RootPath
<1>3. Len(ChildAt(x, n)) = 2 /\ n # <<>>
    <2>1. Len(n) = 1 /\ n # <<>>
        BY TopFacts
    <2>2. Len(ChildAt(x, n)) = Len(n) + 1
        BY <1>2, ChildFacts
    <2> QED BY <2>1, <2>2
<1>4. ChildAt(x, n) \notin {<<>>} \cup Tops
    BY <1>3, TopsShort
<1> QED BY <1>2, <1>3, <1>4 DEF StopsIn

\* The methods can rely on what `seal` of the tuple leaves.
LEMMA SealedOk ==
    ASSUME NEW m, MuxOk(m), DOMAIN m.trie = {<<>>}, NEW taken, NEW s, IsSealed(s, m, taken),
           \A x \in Path : m.pend[x].in => x # <<>>
    PROVE  /\ MuxOk(s) /\ s.trie[<<>>].decided = m.trie[<<>>].decided
           /\ s.trie[<<>>].closed = m.trie[<<>>].closed
<1>1. PICK o, w : o = m.trie[<<>>] /\ w = s.trie[<<>>]
    OBVIOUS
<1>2. o \in NodeType /\ w = [o EXCEPT !.sealed = TRUE]
    BY <1>1 DEF MuxOk, IsSealed
<1>3. w \in NodeType /\ w.decided = o.decided /\ w.closed = o.closed
    BY <1>2 DEF NodeType
<1>4. \A x \in DOMAIN s.trie : s.trie[x] \in NodeType
    <2>1. \A x \in Tops : s.trie[x] \in NodeType
        BY DEF IsSealed, NodeIs
    <2> QED BY <1>1, <1>3, <2>1 DEF IsSealed
<1>5. ASSUME NEW x \in Path, s.pend[x].in PROVE StopsIn(DOMAIN s.trie, x, s.pend[x].at)
    <2>1. m.pend[x].in /\ s.pend[x].at = <<x[1]>> /\ <<x[1]>> \in Tops /\ x # <<x[1]>>
        BY <1>5 DEF IsSealed
    <2>2. PICK n : n = <<x[1]>>
        OBVIOUS
    <2>3. StopsIn({<<>>} \cup Tops, x, n)
        BY <2>1, <2>2, TopStops
    <2>4. DOMAIN s.trie = {<<>>} \cup Tops
        BY DEF IsSealed
    <2> QED BY <2>1, <2>2, <2>3, <2>4
<1>6. Closed(DOMAIN s.trie)
    BY TopsClosed DEF IsSealed
<1>7. /\ MuxRec(s) /\ s.aborted = FALSE /\ s.inbound \in {"open", "eof"}
      /\ s.pend \in [Path -> PendType] /\ s.chan \in [Path -> ChanType]
      /\ s.trie = [x \in DOMAIN s.trie |-> s.trie[x]]
    BY DEF IsSealed, MuxOk
<1> QED BY <1>1, <1>3, <1>4, <1>5, <1>6, <1>7 DEF MuxOk

\* `seal` of the tuple and the end of its channel, in turn.
LEMMA TupleIs ==
    ASSUME NEW m, MuxOk(m), DOMAIN m.trie = {<<>>},
           \A x \in Path : m.pend[x].in => m.pend[x].at = <<>> /\ x # <<>> /\ x[1] \in Params
    PROVE  IsTupled(Finish(SealTuple(m), <<>>), m, {p \in Tops : m.pend[p].in})
<1>1. PICK taken, s : taken = {p \in Tops : m.pend[p].in} /\ s = SealTuple(m)
    OBVIOUS
<1>2. IsSealed(s, m, taken)
    BY <1>1, SealTupleIs DEF MuxOk
<1>3. /\ MuxOk(s) /\ s.trie[<<>>].decided = m.trie[<<>>].decided
      /\ s.trie[<<>>].closed = m.trie[<<>>].closed
    BY <1>2, SealedOk
<1>4. DOMAIN s.trie = {<<>>} \cup Tops /\ <<>> \in Path /\ <<>> \notin Tops
    BY <1>2, TopsClosed, RootPath DEF IsSealed
<1>5. PICK u : u = Finish(s, <<>>)
    OBVIOUS
<1>6. IsFinished(u, s, <<>>)
    BY <1>3, <1>4, <1>5, FinishOk
<1>7. \A x \in Path : s.pend[x].in => s.pend[x].at # <<>>
    <2>1. \A x \in Path : s.pend[x].in => s.pend[x].at = <<x[1]>> /\ <<x[1]>> \in Tops
        BY <1>2 DEF IsSealed
    <2> QED BY <1>4, <2>1
<1>8. MuxRec(u) /\ u.aborted \in BOOLEAN /\ (u.aborted <=> m.chan[<<>>].q # <<>>)
    <2>1. s.chan[<<>>] = m.chan[<<>>]
        BY <1>2, <1>4 DEF IsSealed
    <2> QED BY <1>6, <1>7, <2>1 DEF IsFinished
<1>9. ASSUME ~u.aborted
      PROVE  /\ u.inbound = m.inbound /\ u.pend \in [Path -> PendType]
             /\ \A x \in Path :
                 /\ u.pend[x].in <=> m.pend[x].in /\ x \notin Tops
                 /\ u.pend[x].closed = m.pend[x].closed
                 /\ u.pend[x].in => u.pend[x].at = <<x[1]>> /\ <<x[1]>> \in Tops /\ x # <<x[1]>>
             /\ u.trie = [p \in DOMAIN u.trie |-> u.trie[p]] /\ DOMAIN u.trie = {<<>>} \cup Tops
             /\ u.trie[<<>>] \in NodeType /\ u.trie[<<>>].sealed = TRUE /\ u.trie[<<>>].done = TRUE
             /\ u.trie[<<>>].decided = m.trie[<<>>].decided /\ u.trie[<<>>].closed = m.trie[<<>>].closed
             /\ \A p \in Tops : NodeIs(m, p, taken, u.trie[p])
             /\ u.chan = [p \in Path |-> u.chan[p]] /\ u.chan[<<>>] = Close(m.chan[<<>>], "eof")
             /\ \A p \in Tops : u.chan[p] = ChanOf(m, p, taken)
             /\ \A p \in Path : p # <<>> /\ p \notin Tops => u.chan[p] = m.chan[p]
    <2>1. /\ u.inbound = s.inbound /\ PendLike(u, s) /\ \A x \in Path : u.pend[x].in = s.pend[x].in
          /\ u.chan = [s.chan EXCEPT ![<<>>] = Close(@, "eof")]
          /\ u.trie = [x \in DOMAIN s.trie \ GoneIn(EndedIn(s.trie, <<>>), <<>>) |-> EndedIn(s.trie, <<>>)[x]]
        BY <1>6, <1>9 DEF IsFinished
    <2>2. GoneIn(EndedIn(s.trie, <<>>), <<>>) = {}
        <3>1. \A x \in Prefixes(<<>>) : x = <<>>
            BY RootPath, PrefixFacts
        <3> QED BY <3>1 DEF GoneIn
    <2>3. u.trie = [x \in DOMAIN s.trie |-> IF x = <<>> THEN Ended(s.trie[x]) ELSE s.trie[x]]
        BY <2>1, <2>2 DEF EndedIn
    <2>4. /\ u.trie = [p \in DOMAIN u.trie |-> u.trie[p]] /\ DOMAIN u.trie = {<<>>} \cup Tops
          /\ u.trie[<<>>] = Ended(s.trie[<<>>]) /\ \A p \in Tops : u.trie[p] = s.trie[p]
        BY <1>4, <2>3
    <2>5. /\ u.trie[<<>>] \in NodeType /\ u.trie[<<>>].sealed = TRUE /\ u.trie[<<>>].done = TRUE
          /\ u.trie[<<>>].decided = m.trie[<<>>].decided /\ u.trie[<<>>].closed = m.trie[<<>>].closed
        <3>1. PICK o : o = s.trie[<<>>]
            OBVIOUS
        <3>2. o \in NodeType /\ u.trie[<<>>] = Ended(o)
            BY <1>3, <1>4, <2>4, <3>1 DEF MuxOk
        <3> QED BY <1>3, <3>1, <3>2, EndedIs
    <2>6. \A p \in Tops : NodeIs(m, p, taken, u.trie[p])
        BY <1>2, <2>4 DEF IsSealed
    <2>7. /\ u.chan = [p \in Path |-> u.chan[p]] /\ u.chan[<<>>] = Close(m.chan[<<>>], "eof")
          /\ \A p \in Tops : u.chan[p] = ChanOf(m, p, taken)
          /\ \A p \in Path : p # <<>> /\ p \notin Tops => u.chan[p] = m.chan[p]
        <3>1. \A p \in Path : s.chan[p] = IF p \in Tops THEN ChanOf(m, p, taken) ELSE m.chan[p]
            BY <1>2 DEF IsSealed
        <3>2. s.chan \in [Path -> ChanType]
            BY <1>2 DEF IsSealed
        <3>3. /\ u.chan = [p \in Path |-> u.chan[p]] /\ u.chan[<<>>] = Close(s.chan[<<>>], "eof")
              /\ \A p \in Path : p # <<>> => u.chan[p] = s.chan[p]
            BY <1>4, <2>1, <3>2
        <3>4. Tops \subseteq Path
            BY TopFacts
        <3> QED BY <1>4, <3>1, <3>3, <3>4
    <2>8. /\ u.pend \in [Path -> PendType]
          /\ \A x \in Path :
              /\ u.pend[x].in <=> m.pend[x].in /\ x \notin Tops
              /\ u.pend[x].closed = m.pend[x].closed
              /\ u.pend[x].in => u.pend[x].at = <<x[1]>> /\ <<x[1]>> \in Tops /\ x # <<x[1]>>
        BY <1>2, <2>1 DEF IsSealed, PendLike
    <2> QED BY <1>2, <2>1, <2>4, <2>5, <2>6, <2>7, <2>8 DEF IsSealed
<1>10. IsTupled(u, m, taken)
    BY <1>8, <1>9 DEF IsTupled
<1> QED BY <1>1, <1>5, <1>10

\* The tuple is received once.
LEMMA RootAlone ==
    ASSUME AliveInv, reader[<<>>].pc = "next"
    PROVE  /\ Trie = {<<>>} /\ <<>> \in Path
           /\ Node(<<>>) \in NodeType /\ ~Node(<<>>).sealed /\ Node(<<>>).decided = 0
           /\ ~mux.chan[<<>>].cancelled
           /\ \A x \in Path : mux.pend[x].in => mux.pend[x].at = <<>> /\ x # <<>> /\ x[1] \in Params
<1> USE DEF AliveInv
<1>1. <<>> \in Trie /\ <<>> \in Path
    BY RootPath DEF TrieInv
<1>2. reader[<<>>].base = 0
    BY RootReader
<1>3. /\ Node(<<>>) \in NodeType /\ ~Node(<<>>).sealed /\ Node(<<>>).decided = 0
      /\ ~mux.chan[<<>>].cancelled
    BY <1>1, <1>2 DEF TrieInv, TypeInv, Node
<1>4. ASSUME NEW x \in Path, x # <<>> PROVE /\ ~Barred(ChildAt(x, <<>>)) /\ ChildAt(x, <<>>) \notin Trie
                                            /\ ChildAt(x, <<>>) \in Prefixes(x)
    <2>1. PICK c : c = ChildAt(x, <<>>)
        OBVIOUS
    <2>2. c \in Path /\ c # <<>> /\ Front(c) = <<>> /\ c \in Prefixes(x)
        BY <1>4, <2>1, PrefixSelf, ChildFacts
    <2>3. Last(c) \in Nat
        BY <2>2, FrontFacts
    <2>4. ~Barred(c)
        BY <1>3, <2>2, <2>3 DEF Barred
    <2>5. c \notin Trie
        BY <2>2, <2>4 DEF TrieInv
    <2> QED BY <2>1, <2>2, <2>4, <2>5
<1>5. Trie = {<<>>}
    <2>1. \A x \in Trie : x \in Path /\ Prefixes(x) \subseteq Trie
        BY DEF TrieInv
    <2> QED BY <1>1, <1>4, <2>1
<1>6. ASSUME NEW x \in Path, mux.pend[x].in PROVE mux.pend[x].at = <<>> /\ x # <<>> /\ x[1] \in Params
    <2>1. StopsAt(x, mux.pend[x].at) /\ (mux.pend[x].at = <<>> => x[1] \in Params)
        BY <1>6 DEF PendInv
    <2> QED BY <1>5, <2>1 DEF StopsAt
<1> QED BY <1>1, <1>3, <1>5, <1>6

\* The tuple is received.
LEMMA TupleKept ==
    ASSUME AliveInv, ReadTuple
    PROVE  Kept
<1> USE DEF AliveInv
<1>1. PICK m : m = Finish(SealTuple(mux), <<>>)
    OBVIOUS
<1>2. /\ reader[<<>>].pc = "next" /\ mux.chan[<<>>].got \in Value
      /\ decoded' = [decoded EXCEPT ![<<>>] = @ + 1]
      /\ UNCHANGED <<queue, ingress, tx, finished, frames, sent, blame>>
      /\ mux' = [m EXCEPT !.chan = [p \in Path |-> IF p \in Tops THEN NextOf(@[p]) ELSE @[p]]]
      /\ reader' = [p \in Path |-> IF p \in Tops THEN [reader[p] EXCEPT !.pc = "next"]
                                   ELSE IF p = <<>> THEN [reader[p] EXCEPT !.pc = "done"] ELSE reader[p]]
    BY <1>1 DEF ReadTuple, Counted, Got, Value, Tops
<1>3. /\ Trie = {<<>>} /\ <<>> \in Path
      /\ Node(<<>>) \in NodeType /\ ~Node(<<>>).sealed /\ Node(<<>>).decided = 0
      /\ ~mux.chan[<<>>].cancelled
      /\ \A x \in Path : mux.pend[x].in => mux.pend[x].at = <<>> /\ x # <<>> /\ x[1] \in Params
    BY <1>2, RootAlone
<1>4. PICK taken : taken = {p \in Tops : mux.pend[p].in}
    OBVIOUS
<1>5. IsTupled(m, mux, taken)
    <2>1. MuxOk(mux) /\ DOMAIN mux.trie = {<<>>}
        BY <1>3, MuxIsOk DEF Trie
    <2> QED BY <1>1, <1>3, <1>4, <2>1, TupleIs
<1>6. /\ MuxRec(mux') /\ mux'.trie = m.trie /\ mux'.pend = m.pend /\ mux'.inbound = m.inbound
      /\ mux'.aborted = m.aborted
      /\ mux'.chan = [p \in Path |-> IF p \in Tops THEN NextOf(m.chan[p]) ELSE m.chan[p]]
    <2>1. MuxRec(m)
        BY <1>5 DEF IsTupled
    <2> DEFINE g == [p \in Path |-> IF p \in Tops THEN NextOf(m.chan[p]) ELSE m.chan[p]]
    <2>2. mux' = [m EXCEPT !.chan = g]
        BY <1>2, <2>1 DEF MuxRec
    <2> HIDE DEF g
    <2>3. /\ MuxRec(mux') /\ mux'.trie = m.trie /\ mux'.pend = m.pend /\ mux'.inbound = m.inbound
          /\ mux'.aborted = m.aborted /\ mux'.chan = g
        BY <2>1, <2>2 DEF MuxRec
    <2> QED BY <2>3 DEF g
<1>7. CASE m.aborted
    <2>1. mux.chan[<<>>].q # <<>> /\ mux'.aborted = TRUE
        BY <1>5, <1>6, <1>7 DEF IsTupled
    <2>2. blame # {}
        <3> SUFFICES ASSUME blame = {} PROVE FALSE
            OBVIOUS
        <3>1. CalmInv /\ sent[<<>>].n <= 1
            BY DEF CalmInv
        <3>2. PICK c, r, d, s : c = mux.chan[<<>>] /\ r = reader[<<>>] /\ d = decoded[<<>>] /\ s = sent[<<>>]
            OBVIOUS
        <3>3. StreamInv(<<>>, c, r, d, s, App) /\ r.pc = "next" /\ c.got \in Value /\ c.q # <<>> /\ s.n <= 1
            BY <1>2, <1>3, <2>1, <3>1, <3>2 DEF Streams
        <3>4. c.q \in Seq(Value) /\ d \in Nat /\ s.n = d + Len(c.q) + 1
            BY <3>3 DEF StreamInv, FlowInv, Holding, OneIf, ChanType
        <3>5. Len(c.q) \in Nat /\ Len(c.q) # 0
            BY <3>3, <3>4, EmptySeq
        <3> QED BY <3>3, <3>4, <3>5
    <2> QED BY <1>2, <2>1, <2>2 DEF Kept
<1>8. CASE ~m.aborted
    <2>1. /\ m.inbound = mux.inbound /\ m.pend \in [Path -> PendType] /\ mux.chan[<<>>].q = <<>>
          /\ \A x \in Path :
              /\ m.pend[x].in <=> mux.pend[x].in /\ x \notin Tops
              /\ m.pend[x].closed = mux.pend[x].closed
              /\ m.pend[x].in => m.pend[x].at = <<x[1]>> /\ <<x[1]>> \in Tops /\ x # <<x[1]>>
          /\ m.trie = [p \in DOMAIN m.trie |-> m.trie[p]] /\ DOMAIN m.trie = {<<>>} \cup Tops
          /\ m.trie[<<>>] \in NodeType /\ m.trie[<<>>].sealed = TRUE /\ m.trie[<<>>].done = TRUE
          /\ m.trie[<<>>].decided = mux.trie[<<>>].decided /\ m.trie[<<>>].closed = mux.trie[<<>>].closed
          /\ \A p \in Tops : NodeIs(mux, p, taken, m.trie[p])
          /\ m.chan = [p \in Path |-> m.chan[p]] /\ m.chan[<<>>] = Close(mux.chan[<<>>], "eof")
          /\ \A p \in Tops : m.chan[p] = ChanOf(mux, p, taken)
          /\ \A p \in Path : p # <<>> /\ p \notin Tops => m.chan[p] = mux.chan[p]
        BY <1>5, <1>8 DEF IsTupled
    <2>2. \A e \in Tops : e \in Path /\ e # <<>> /\ Front(e) = <<>> /\ Len(e) = 1 /\ Last(e) \in Params /\ Last(e) \in Nat
        <3>1. \A e \in Tops : e \in Path /\ e # <<>> /\ Front(e) = <<>> /\ Len(e) = 1 /\ Last(e) \in Params
            BY TopFacts
        <3> QED BY <3>1, FrontFacts
    <2>3. Fresh(<<>>, Tops, taken)
        <3>1. \A e \in Tops : ~Barred(e) /\ e \notin Trie
            BY <1>3, <2>2 DEF Barred
        <3> QED BY <1>3, <1>4, <2>2, <3>1 DEF Fresh
    <2>4. Grows(<<>>, Tops, taken)
        <3>1. ASSUME NEW x \in Path, mux'.pend[x].in PROVE mux'.pend[x].at \in Tops /\ mux'.pend[x].at \in Prefixes(x)
            <4>1. mux'.pend[x].at = <<x[1]>> /\ <<x[1]>> \in Tops /\ x # <<x[1]>> /\ x # <<>>
                BY <1>3, <1>6, <2>1, <3>1
            <4>2. PICK n : n = <<x[1]>>
                OBVIOUS
            <4>3. StopsIn({<<>>} \cup Tops, x, n)
                BY <4>1, <4>2, TopStops
            <4> QED BY <4>1, <4>2, <4>3 DEF StopsIn
        <3>2. \A c \in Path : c # <<>> /\ Front(c) = <<>> => Barred(c)'
            BY <1>6, <2>1 DEF Barred, Node
        <3>3. /\ \A e \in Tops : mux'.chan[e] = NextOf(ChanOf(mux, e, taken))
              /\ \A x \in Path : x # <<>> /\ x \notin Tops => mux'.chan[x] = mux.chan[x]
              /\ mux'.chan = [x \in Path |-> mux'.chan[x]]
            <4>1. PICK g, h : g = m.chan /\ h = mux'.chan
                OBVIOUS
            <4>2. /\ h = [p \in Path |-> IF p \in Tops THEN NextOf(g[p]) ELSE g[p]]
                  /\ \A p \in Tops : g[p] = ChanOf(mux, p, taken)
                  /\ \A p \in Path : p # <<>> /\ p \notin Tops => g[p] = mux.chan[p]
                BY <1>6, <2>1, <4>1
            <4>3. /\ \A e \in Tops : h[e] = NextOf(g[e])
                  /\ \A x \in Path : x \notin Tops => h[x] = g[x]
                  /\ h = [x \in Path |-> h[x]]
                BY <2>2, <4>2
            <4> QED BY <4>1, <4>2, <4>3
        <3>4. /\ MuxRec(mux') /\ mux'.aborted = FALSE /\ mux'.inbound = mux.inbound
              /\ mux'.pend \in [Path -> PendType]
              /\ \A x \in Path : /\ mux'.pend[x].in <=> mux.pend[x].in /\ x \notin Tops
                                 /\ mux'.pend[x].closed = mux.pend[x].closed
              /\ mux'.trie = [x \in DOMAIN mux'.trie |-> mux'.trie[x]]
            <4>1. m.aborted = FALSE
                BY <1>5, <1>8 DEF IsTupled
            <4>2. mux'.trie = [x \in DOMAIN mux'.trie |-> mux'.trie[x]]
                BY <1>6, <2>1
            <4>3. \A x \in Path : /\ mux'.pend[x].in <=> mux.pend[x].in /\ x \notin Tops
                                  /\ mux'.pend[x].closed = mux.pend[x].closed
                <5>1. PICK g : g = m.pend
                    OBVIOUS
                <5>2. mux'.pend = g
                    BY <1>6, <5>1
                <5>3. \A x \in Path : (g[x].in <=> mux.pend[x].in /\ x \notin Tops) /\ g[x].closed = mux.pend[x].closed
                    BY <2>1, <5>1, Zenon
                <5> QED BY <5>2, <5>3, Zenon
            <4>4. MuxRec(mux') /\ mux'.inbound = mux.inbound /\ mux'.pend \in [Path -> PendType]
                BY <1>6, <2>1
            <4> QED BY <1>6, <4>1, <4>2, <4>3, <4>4
        <3>5. /\ Trie' = Trie \cup Tops /\ Node(<<>>)' \in NodeType /\ Node(<<>>)'.closed = Node(<<>>).closed
              /\ \A e \in Tops : NodeIs(mux, e, taken, Node(e)')
              /\ \A x \in Trie : x # <<>> => Node(x)' = Node(x)
            BY <1>3, <1>6, <2>1 DEF Trie, Node
        <3> QED BY <3>1, <3>2, <3>3, <3>4, <3>5 DEF Grows
    <2>5. /\ reader' = [x \in Path |-> reader'[x]] /\ reader'[<<>>] = [reader[<<>>] EXCEPT !.pc = "done"]
          /\ \A e \in Tops : reader'[e] = [reader[e] EXCEPT !.pc = "next"]
          /\ \A x \in Path : x # <<>> /\ x \notin Tops => reader'[x] = reader[x]
        BY <1>2, <1>3, <2>2
    <2>6. /\ decoded' = [x \in Path |-> decoded'[x]] /\ decoded'[<<>>] = decoded[<<>>] + 1
          /\ \A x \in Path : x # <<>> => decoded'[x] = decoded[x]
        BY <1>2, <1>3 DEF TypeInv
    <2>7. mux'.chan[<<>>] = Close(mux.chan[<<>>], "eof")
        BY <1>3, <1>6, <2>1, <2>2
    <2>8. /\ StreamInv(<<>>, mux'.chan[<<>>], reader'[<<>>], decoded'[<<>>], sent[<<>>], App)
          /\ Tidy(mux'.chan[<<>>], reader'[<<>>]) /\ ~mux'.chan[<<>>].cancelled
          /\ reader'[<<>>].pc = "done" /\ reader'[<<>>].base = 0
        <3>1. PICK c, r, d, s : c = mux.chan[<<>>] /\ r = reader[<<>>] /\ d = decoded[<<>>] /\ s = sent[<<>>]
            OBVIOUS
        <3>2. /\ StreamInv(<<>>, c, r, d, s, App) /\ r.pc = "next" /\ c.got \in Value /\ c.q = <<>>
              /\ App \in BOOLEAN /\ ~c.cancelled /\ r.base = 0
            BY <1>2, <1>3, <2>1, <3>1, RootReader DEF Streams, App
        <3>3. PICK k, t : k = Close(c, "eof") /\ t = [r EXCEPT !.pc = "done"]
            OBVIOUS
        <3>4. StreamInv(<<>>, k, r, d, s, App) /\ k.q = <<>> /\ k.end # "open" /\ k.cancelled = c.cancelled
            BY <3>2, <3>3, StreamClose
        <3>5. k.got \in Value
            <4>1. c.got # "none" => ~c.waiting
                BY <3>2 DEF StreamInv, ChanInv
            <4>2. c \in ChanType /\ c.got # "none"
                BY <3>2 DEF StreamInv, Value
            <4> QED BY <3>2, <3>3, <4>1, <4>2 DEF Close, ChanType
        <3>6. StreamInv(<<>>, k, t, d + 1, s, App) /\ Tidy(k, t)
            BY <3>2, <3>3, <3>4, <3>5, StreamEnd
        <3>7. r \in ReaderType
            BY <3>2 DEF StreamInv
        <3>8. t.pc = "done" /\ t.base = 0
            BY <3>2, <3>3, <3>7 DEF ReaderType
        <3> QED BY <2>5, <2>6, <2>7, <3>1, <3>2, <3>3, <3>4, <3>6, <3>8
    <2>9. GrowsReaders(<<>>, Tops)
        <3>1. /\ Node(<<>>)'.done = TRUE /\ Node(<<>>)'.sealed = TRUE
              /\ Node(<<>>)'.decided = 0 /\ On(<<>>)'
            BY <1>3, <1>6, <2>1, <2>8 DEF Node, On
        <3> QED BY <2>5, <2>6, <2>8, <3>1 DEF GrowsReaders
    <2>10. StartedInv'
        <3>1. \A x \in Path : reader[x] \in ReaderType
            BY DEF TypeInv
        <3>2. ASSUME NEW e \in Tops PROVE reader'[e].pc = "next" /\ reader'[e].base = reader[e].base
            <4>1. PICK r, t : r = reader[e] /\ t = reader'[e]
                OBVIOUS
            <4>2. r \in ReaderType /\ t = [r EXCEPT !.pc = "next"]
                BY <2>2, <2>5, <3>1, <4>1
            <4>3. t.pc = "next" /\ t.base = r.base
                BY <4>2 DEF ReaderType
            <4> QED BY <4>1, <4>3
        <3>3. \A x \in Path : x # <<>> => reader'[x].base = reader[x].base
            BY <2>5, <3>2
        <3>4. \A x \in Path : reader'[x].base = reader[x].base
            BY <2>8, <3>3, RootReader
        <3>5. ASSUME NEW x \in Path, On(x) PROVE On(x)'
            <4>1. x \in Tops => reader'[x].pc = "next"
                BY <3>2
            <4> QED BY <2>5, <2>8, <3>5, <4>1 DEF On
        <3>6. \A j \in Params : On(<<j>>)'
            BY <3>2 DEF On, Tops
        <3>7. \A x \in Path : Len(x) > 1 => Front(x) \in Path
            BY FrontFacts, RootPath
        <3>8. App' = App /\ sent' = sent
            BY <1>2 DEF App
        <3> QED BY <3>4, <3>5, <3>6, <3>7, <3>8 DEF StartedInv
    <2>11. \A e \in Tops : Declared(e)
        <3>1. sent[<<>>].n > 0
            <4>1. PICK c, r, d, s : c = mux.chan[<<>>] /\ r = reader[<<>>] /\ d = decoded[<<>>] /\ s = sent[<<>>]
                OBVIOUS
            <4>2. StreamInv(<<>>, c, r, d, s, App) /\ r.pc = "next" /\ c.got \in Value
                BY <1>2, <1>3, <4>1 DEF Streams
            <4>3. c.q \in Seq(Value) /\ d \in Nat /\ s.n = d + Len(c.q) + 1
                BY <4>2 DEF StreamInv, FlowInv, Holding, OneIf, ChanType
            <4>4. Len(c.q) \in Nat
                BY <4>3
            <4> QED BY <4>1, <4>3, <4>4
        <3>2. \A e \in Tops : ~(Len(e) > 1)
            BY TopsShort, <2>2
        <3> QED BY <2>2, <3>1, <3>2 DEF Declared
    <2> QED BY <1>2, <2>3, <2>4, <2>9, <2>10, <2>11, GrowKept DEF Kept
<1> QED BY <1>7, <1>8

\* Nodes are forgotten, and children of the others at most barred.
LEMMA ShrinkKept ==
    ASSUME TrieInv, PassedInv, PendInv, Closed(Trie'), Trie' \subseteq Trie,
           \A c \in Path : c # <<>> /\ Front(c) \in Trie' /\ Barred(c) => Barred(c)',
           \A x \in Trie' : /\ On(x)' /\ (Node(x)'.done <=> reader'[x].pc = "done")
                            /\ Node(x)'.sealed <=> Node(x)'.done \/ (x # <<>> /\ ~Nested(x))
                            /\ Node(x)'.decided = reader'[x].base
                            /\ ~mux'.chan[x].cancelled,
           \A x \in Path : mux'.pend[x].in =>
                /\ mux.pend[x].in /\ mux'.pend[x].at = mux.pend[x].at /\ mux.pend[x].at \in Trie'
                /\ Node(mux.pend[x].at) = mux'.trie[mux.pend[x].at] /\ ~mux'.chan[x].cancelled,
           \A x \in Path : x \notin Trie' /\ ~mux'.pend[x].in => mux'.chan[x].q = <<>>,
           \A x \in Path : On(x)' /\ x \notin Trie' =>
                /\ On(x) /\ mux'.chan[x].end # "open" /\ mux'.chan[x].q = <<>>
                /\ reader'[x].pc # "done" => App'
    PROVE  TrieInv' /\ PassedInv' /\ PendInv'
<1>1. <<>> \in Trie' /\ Trie' \subseteq Path /\ \A x \in Trie' : Prefixes(x) \subseteq Trie'
    BY DEF Closed
<1>2. \A x \in Trie' \ {<<>>} : Barred(x)'
    <2>1. ASSUME NEW x \in Trie', x # <<>> PROVE Barred(x)'
        <3>1. x \in Path /\ Front(x) \in Trie'
            BY <1>1, <2>1, FrontFacts
        <3>2. Barred(x)
            BY <2>1 DEF TrieInv
        <3> QED BY <2>1, <3>1, <3>2
    <2> QED BY <2>1
<1>3. TrieInv'
    BY <1>1, <1>2 DEF TrieInv
<1>4. PassedInv'
    <2>1. \A c \in Path : c # <<>> /\ Front(c) \in Trie /\ Front(c) \in Trie' /\ Barred(c) => Barred(c)'
        OBVIOUS
    <2>2. \A c \in Trie' : c \notin Trie => ~Barred(c)
        OBVIOUS
    <2>3. \A x \in Path : On(x)' /\ x \notin Trie' => On(x) /\ mux'.chan[x].end # "open" /\ mux'.chan[x].q = <<>>
        OBVIOUS
    <2>4. \A x \in Path : On(x)' /\ x \notin Trie' /\ reader'[x].pc # "done" => App'
        OBVIOUS
    <2> QED BY <2>1, <2>2, <2>3, <2>4, PassedKept
<1>5. ASSUME NEW x \in Path, mux'.pend[x].in
      PROVE  /\ StopsAt(x, mux.pend[x].at)' /\ ~Barred(ChildAt(x, mux.pend[x].at))'
             /\ mux'.pend[x].at = <<>> => x[1] \in Params
             /\ ~mux'.chan[x].cancelled
    <2>1. PICK n : n = mux.pend[x].at
        OBVIOUS
    <2>2. /\ mux.pend[x].in /\ mux'.pend[x].at = n /\ n \in Trie' /\ Node(n) = mux'.trie[n]
          /\ ~mux'.chan[x].cancelled
        BY <1>5, <2>1
    <2>3. StopsAt(x, n) /\ ~Barred(ChildAt(x, n)) /\ (n = <<>> => x[1] \in Params)
        BY <2>1, <2>2 DEF PendInv
    <2>4. StopsAt(x, n)' /\ n \in Prefixes(x) /\ n # x
        BY <2>2, <2>3 DEF StopsAt
    <2>5. Front(ChildAt(x, n)) = n
        BY <2>4, ChildFacts
    <2>6. ~Barred(ChildAt(x, n))'
        BY <2>2, <2>3, <2>5 DEF Barred, Node
    <2>7. mux'.pend[x].at = n
        BY <2>2
    <2> QED BY <2>1, <2>2, <2>3, <2>4, <2>6, <2>7
<1>6. PendInv'
    BY <1>5 DEF PendInv
<1> QED BY <1>3, <1>4, <1>6

\* What the peer sent of a stream whose end is decoded
LEMMA EndElems ==
    ASSUME AliveInv, NEW p \in Path, p # <<>>, reader[p].pc = "next", mux.chan[p].got = "end"
    PROVE  /\ sent[p].over
           /\ blame = {} => mux.chan[p].q = <<>>
           /\ blame = {} /\ Nested(p) => sent[p].elems = reader[p].base
<1>1. PICK c, r, d, s : c = mux.chan[p] /\ r = reader[p] /\ d = decoded[p] /\ s = sent[p]
    OBVIOUS
<1>2. StreamInv(p, c, r, d, s, App) /\ HoldingEnd(c, r) /\ Holding(c, r)
    BY <1>1 DEF AliveInv, Streams, HoldingEnd, Holding, Value
<1>3. s.over /\ (Tidy(c, r) => s.n = s.elems + 1 /\ c.q = <<>>)
    BY <1>2 DEF StreamInv, EndInv, Tidy
<1>4. ASSUME blame = {} PROVE Tidy(c, r)
    BY <1>1, <1>4 DEF AliveInv, CalmInv
<1>5. ASSUME c.q = <<>>, s.n = s.elems + 1, Nested(p) PROVE s.elems = r.base
    <2>1. s.n = d + 0 + 1 /\ r.base = d /\ d \in Nat /\ s.elems \in Nat
        BY <1>2, <1>5 DEF StreamInv, FlowInv, OneIf, SentType, HoldingEnd
    <2> QED BY <1>5, <2>1
<1> QED BY <1>1, <1>3, <1>4, <1>5

\* A forgotten stream is read to its end.
LEMMA ForgottenEndKept ==
    ASSUME AliveInv, NEW p \in Path, ReadEnd(p), p \notin Trie
    PROVE  Kept
<1> USE DEF AliveInv
<1>1. /\ p # <<>> /\ reader[p].pc = "next" /\ mux.chan[p].got = "end"
      /\ decoded' = [decoded EXCEPT ![p] = @ + 1] /\ mux' = Finish(mux, p)
      /\ reader' = [reader EXCEPT ![p].pc = "done"] /\ queue' = [queue EXCEPT ![p].closed = TRUE]
      /\ UNCHANGED <<ingress, tx, finished, frames, sent, blame>>
    BY DEF ReadEnd, Counted, Got
<1>2. mux.chan[p].end # "open" /\ mux.chan[p].q = <<>>
    BY <1>1 DEF PassedInv, On
<1>3. mux' = mux
    <2>1. ~(mux.chan[p].q # <<>>) /\ ~Has(mux, p)
        BY <1>2 DEF Has, Trie
    <2>2. AbortIf(mux.chan[p].q # <<>>, mux) = mux
        BY <2>1 DEF AbortIf
    <2>3. Finish(mux, p) = mux
        <3> DEFINE E(x) == LET read == AbortIf(x.chan[p].q # <<>>, x)
                               ended == [read EXCEPT !.trie[p].sealed = TRUE, !.trie[p].done = TRUE,
                                                     !.chan[p] = Close(@, "eof")]
                           IN  IF Has(x, p) THEN Wake(Prune(Settle(ended, {Append(p, i) : i \in Index}), p)) ELSE read
        <3>1. E(mux) = mux
            BY <2>1, <2>2
        <3>2. Finish(mux, p) = One({E(x) : x \in {mux}})
            BY DEF Finish
        <3> HIDE DEF E
        <3>3. \A y : y \in {E(x) : x \in {mux}} <=> y = mux
            BY <3>1
        <3> QED BY <3>2, <3>3, OneOf
    <2> QED BY <1>1, <2>3
<1>4. MuxRec(mux') /\ mux'.aborted = FALSE /\ SamePending /\ mux'.chan = [x \in Path |-> mux'.chan[x]]
    <2>1. MuxRec(mux) /\ mux.aborted = FALSE
        BY MuxIs
    <2> QED BY <1>3, <2>1 DEF SamePending, TypeInv
<1>5. PICK c, r, d, s, t : c = mux.chan[p] /\ r = reader[p] /\ d = decoded[p] /\ s = sent[p] /\ t = [r EXCEPT !.pc = "done"]
    OBVIOUS
<1>6. /\ reader' = [x \in Path |-> reader'[x]] /\ reader'[p] = t
      /\ \A x \in Path : x # p => reader'[x] = reader[x]
    BY <1>1, <1>5 DEF TypeInv
<1>7. /\ decoded' = [x \in Path |-> decoded'[x]] /\ decoded'[p] = d + 1
      /\ \A x \in Path : x # p => decoded'[x] = decoded[x]
    BY <1>1, <1>5 DEF TypeInv
<1>8. queue' \in QueueType /\ \A x \in Path : queue'[x].cancelled = queue[x].cancelled
    BY <1>1 DEF TypeInv, QueueType
<1>9. StreamInv(p, c, t, d + 1, s, App) /\ Tidy(c, t) /\ t.pc = "done"
    <2>1. StreamInv(p, c, r, d, s, App) /\ App \in BOOLEAN /\ r \in ReaderType
        BY <1>5 DEF Streams, App, TypeInv
    <2>2. r.pc = "next" /\ c.got \in Value /\ c.got = "end" /\ c.q = <<>> /\ c.end # "open"
        BY <1>1, <1>2, <1>5 DEF Value
    <2>3. t.pc = "done"
        BY <1>5, <2>1 DEF ReaderType
    <2> QED BY <1>5, <2>1, <2>2, <2>3, StreamEnd
<1>10. AliveInv'
    <2>1. /\ StreamInv(p, mux'.chan[p], reader'[p], decoded'[p], sent[p], App)
          /\ Tidy(mux.chan[p], reader[p]) => Tidy(mux'.chan[p], reader'[p])
          /\ reader'[p].pc # "off" /\ reader[p].pc \notin {"off", "done"}
        BY <1>1, <1>3, <1>5, <1>6, <1>7, <1>9
    <2> QED BY <1>1, <1>3, <1>4, <1>6, <1>7, <1>8, <2>1, ReaderKept
<1> QED BY <1>10 DEF Kept

\* The stream p ended, and the nodes G were pruned.
Ends(p, G) ==
    /\ p # <<>> /\ p \in Trie /\ reader[p].pc = "next" /\ mux.chan[p].got = "end" /\ mux.chan[p].q = <<>>
    /\ \A x \in Path : mux.pend[x].in => mux.pend[x].at # p
    /\ MuxRec(mux') /\ mux'.aborted = FALSE /\ mux'.inbound = mux.inbound /\ SamePending
    /\ mux'.chan = [mux.chan EXCEPT ![p] = Close(@, "eof")]
    /\ G = GoneIn(EndedIn(mux.trie, p), p) /\ Trie' = Trie \ G
    /\ mux'.trie = [x \in DOMAIN mux'.trie |-> mux'.trie[x]]
    /\ \A x \in Trie : x # p /\ x \notin G => Node(x)' = Node(x)
    /\ p \notin G => Node(p)' = Ended(Node(p))
    /\ decoded' = [decoded EXCEPT ![p] = @ + 1]
    /\ reader' = [reader EXCEPT ![p].pc = "done"] /\ queue' = [queue EXCEPT ![p].closed = TRUE]
    /\ UNCHANGED <<ingress, sent, blame>>

\* The stream that ended, and the others.
LEMMA EndStreams ==
    ASSUME AliveInv, NEW p \in Path, NEW G, Ends(p, G)
    PROVE  /\ Streams' /\ Tidy(mux'.chan[p], reader'[p])
           /\ mux'.chan = [x \in Path |-> mux'.chan[x]] /\ reader' = [x \in Path |-> reader'[x]]
           /\ decoded' = [x \in Path |-> decoded'[x]]
           /\ \A x \in Path : x # p => mux'.chan[x] = mux.chan[x] /\ reader'[x] = reader[x]
           /\ reader'[p].pc = "done" /\ reader'[p].base = reader[p].base
           /\ mux'.chan[p].cancelled = mux.chan[p].cancelled
<1> USE DEF AliveInv
<1>1. PICK c, r, d, s, k, t : /\ c = mux.chan[p] /\ r = reader[p] /\ d = decoded[p] /\ s = sent[p]
                              /\ k = Close(c, "eof") /\ t = [r EXCEPT !.pc = "done"]
    OBVIOUS
<1>2. mux'.chan = [x \in Path |-> mux'.chan[x]] /\ mux'.chan[p] = k /\ \A x \in Path : x # p => mux'.chan[x] = mux.chan[x]
    <2>1. mux.chan \in [Path -> ChanType] /\ mux'.chan = [mux.chan EXCEPT ![p] = k]
        BY <1>1 DEF Ends, TypeInv
    <2> QED BY <2>1
<1>3. reader' = [x \in Path |-> reader'[x]] /\ reader'[p] = t /\ \A x \in Path : x # p => reader'[x] = reader[x]
    BY <1>1 DEF Ends, TypeInv
<1>4. decoded' = [x \in Path |-> decoded'[x]] /\ decoded'[p] = d + 1 /\ \A x \in Path : x # p => decoded'[x] = decoded[x]
    BY <1>1 DEF Ends, TypeInv
<1>5. App' = App /\ sent' = sent /\ App \in BOOLEAN
    BY DEF App, Ends
<1>6. /\ StreamInv(p, c, r, d, s, App) /\ r.pc = "next" /\ c.got = "end" /\ c.q = <<>>
      /\ c \in ChanType /\ r \in ReaderType
    BY <1>1 DEF Streams, Ends, TypeInv
<1>7. StreamInv(p, k, r, d, s, App) /\ k.q = <<>> /\ k.end # "open" /\ k.cancelled = c.cancelled
    BY <1>1, <1>5, <1>6, StreamClose
<1>8. k.got = "end"
    <2>1. ~c.waiting
        BY <1>6 DEF StreamInv, ChanInv
    <2> QED BY <1>1, <1>6, <2>1 DEF Close, ChanType
<1>9. StreamInv(p, k, t, d + 1, s, App) /\ Tidy(k, t)
    BY <1>1, <1>5, <1>6, <1>7, <1>8, StreamEnd DEF Value
<1>10. t.pc = "done" /\ t.base = r.base
    BY <1>1, <1>6 DEF ReaderType
<1>11. Streams'
    <2>1. ASSUME NEW x \in Path, x # p
          PROVE  StreamInv(x, mux'.chan[x], reader'[x], decoded'[x], sent'[x], App')
        BY <1>2, <1>3, <1>4, <1>5, <2>1 DEF Streams
    <2>2. StreamInv(p, mux'.chan[p], reader'[p], decoded'[p], sent'[p], App')
        BY <1>1, <1>2, <1>3, <1>4, <1>5, <1>9
    <2> QED BY <2>1, <2>2 DEF Streams
<1> QED BY <1>1, <1>2, <1>3, <1>4, <1>7, <1>9, <1>10, <1>11

\* What is pruned was read to its end.
LEMMA EndGone ==
    ASSUME AliveInv, NEW p \in Path, NEW G, Ends(p, G)
    PROVE  /\ \A x \in G : /\ x \in Path /\ x # <<>> /\ x \in Trie /\ x \in Prefixes(p)
                           /\ x # p => Node(x).done /\ Node(x).sealed /\ reader[x].pc = "done"
                           /\ reader'[x].pc = "done" /\ mux'.chan[x].end # "open" /\ mux'.chan[x].q = <<>>
           /\ Closed(Trie')
<1> USE DEF AliveInv
<1>1. PICK t : t = EndedIn(mux.trie, p)
    OBVIOUS
<1>2. DOMAIN t = Trie /\ G = GoneIn(t, p) /\ \A x \in Trie : x # p => t[x] = Node(x)
    BY <1>1 DEF EndedIn, Ends, Trie, Node
<1>3. Closed(Trie)
    BY TrieClosed
<1>4. Closed(Trie')
    BY <1>2, <1>3, GoneClosed DEF Ends
<1>5. /\ Streams' /\ reader'[p].pc = "done" /\ \A x \in Path : x # p => reader'[x] = reader[x]
    BY EndStreams
<1>6. ASSUME NEW x \in G
      PROVE  /\ x \in Path /\ x # <<>> /\ x \in Trie /\ x \in Prefixes(p)
             /\ x # p => Node(x).done /\ Node(x).sealed /\ reader[x].pc = "done"
             /\ reader'[x].pc = "done" /\ mux'.chan[x].end # "open" /\ mux'.chan[x].q = <<>>
    <2>1. x \in Prefixes(p) /\ x \in Path /\ x # <<>> /\ x \in DOMAIN t /\ (~t[x].chan \/ t[x].done)
        BY <1>2, GoneFacts
    <2>2. x # p => Node(x).done /\ Node(x).sealed /\ reader[x].pc = "done"
        <3> SUFFICES ASSUME x # p PROVE Node(x).done /\ Node(x).sealed /\ reader[x].pc = "done"
            OBVIOUS
        <3>1. Node(x) \in NodeType /\ (~Node(x).chan \/ Node(x).done) /\ x \in Trie
            BY <1>2, <2>1 DEF TypeInv, Node, Trie
        <3>2. Node(x).done
            BY <3>1 DEF NodeType
        <3> QED BY <3>1, <3>2 DEF TrieInv
    <2>3. reader'[x].pc = "done"
        BY <1>5, <2>1, <2>2
    <2>4. mux'.chan[x].end # "open" /\ mux'.chan[x].q = <<>>
        BY <1>5, <2>1, <2>3 DEF Streams, StreamInv, ChanInv
    <2> QED BY <1>2, <2>1, <2>2, <2>3, <2>4
<1> QED BY <1>4, <1>6

\* The trie without what is over.
LEMMA EndTrie ==
    ASSUME AliveInv, NEW p \in Path, NEW G, Ends(p, G)
    PROVE  TrieInv' /\ PassedInv' /\ PendInv' /\ IngressInv' /\ StartedInv' /\ TypeInv'
<1> USE DEF AliveInv
<1>1. /\ Streams' /\ mux'.chan = [x \in Path |-> mux'.chan[x]] /\ reader' = [x \in Path |-> reader'[x]]
      /\ decoded' = [x \in Path |-> decoded'[x]]
      /\ \A x \in Path : x # p => mux'.chan[x] = mux.chan[x] /\ reader'[x] = reader[x]
      /\ reader'[p].pc = "done" /\ reader'[p].base = reader[p].base
      /\ mux'.chan[p].cancelled = mux.chan[p].cancelled
    BY EndStreams
<1>2. /\ \A x \in G : /\ x \in Path /\ x # <<>> /\ x \in Trie /\ x \in Prefixes(p)
                      /\ x # p => Node(x).done /\ Node(x).sealed /\ reader[x].pc = "done"
                      /\ reader'[x].pc = "done" /\ mux'.chan[x].end # "open" /\ mux'.chan[x].q = <<>>
      /\ Closed(Trie')
    BY EndGone
<1>3. /\ p # <<>> /\ p \in Trie /\ reader[p].pc = "next" /\ mux.chan[p].q = <<>>
      /\ MuxRec(mux') /\ mux'.aborted = FALSE /\ mux'.inbound = mux.inbound /\ SamePending
      /\ Trie' = Trie \ G /\ mux'.trie = [x \in DOMAIN mux'.trie |-> mux'.trie[x]]
      /\ \A x \in Trie' : x # p => Node(x)' = Node(x)
      /\ ingress' = ingress /\ sent' = sent /\ blame' = blame
      /\ \A x \in Path : mux.pend[x].in => mux.pend[x].at # p
    BY DEF Ends
<1>4. /\ p \in Trie' => /\ Node(p)' \in NodeType /\ Node(p)'.sealed = TRUE /\ Node(p)'.done = TRUE
                        /\ Node(p)'.decided = Node(p).decided /\ Node(p)'.closed = Node(p).closed
    <2> SUFFICES ASSUME p \in Trie'
                 PROVE  /\ Node(p)' \in NodeType /\ Node(p)'.sealed = TRUE /\ Node(p)'.done = TRUE
                        /\ Node(p)'.decided = Node(p).decided /\ Node(p)'.closed = Node(p).closed
        OBVIOUS
    <2>1. PICK o : o = Node(p)
        OBVIOUS
    <2>2. Node(p)' = Ended(o) /\ o \in NodeType
        BY <1>3, <2>1 DEF Ends, TypeInv, Node
    <2> QED BY <2>1, <2>2, EndedIs
<1>5. \A x \in Trie' : Node(x)' \in NodeType
    BY <1>3, <1>4 DEF TypeInv, Node
<1>6. \A c \in Path : c # <<>> /\ Front(c) \in Trie' /\ Barred(c) => Barred(c)'
    BY <1>3, <1>4 DEF Barred
<1>7. ASSUME NEW x \in Trie'
      PROVE  /\ On(x)' /\ (Node(x)'.done <=> reader'[x].pc = "done")
             /\ Node(x)'.sealed <=> Node(x)'.done \/ (x # <<>> /\ ~Nested(x))
             /\ Node(x)'.decided = reader'[x].base
             /\ ~mux'.chan[x].cancelled
    <2>1. x \in Trie /\ x \in Path
        BY <1>3 DEF TrieInv
    <2>2. CASE x = p
        BY <1>1, <1>3, <1>4, <2>1, <2>2 DEF TrieInv, On
    <2>3. CASE x # p
        <3>1. Node(x)' = Node(x) /\ reader'[x] = reader[x] /\ mux'.chan[x] = mux.chan[x]
            BY <1>1, <1>3, <2>1, <2>3
        <3> QED BY <2>1, <3>1 DEF TrieInv, On
    <2> QED BY <2>2, <2>3
<1>8. ASSUME NEW x \in Path, mux'.pend[x].in
      PROVE  /\ mux.pend[x].in /\ mux'.pend[x].at = mux.pend[x].at /\ mux.pend[x].at \in Trie'
             /\ Node(mux.pend[x].at) = mux'.trie[mux.pend[x].at] /\ ~mux'.chan[x].cancelled
    <2>1. PICK n : n = mux.pend[x].at
        OBVIOUS
    <2>2. mux.pend[x].in /\ mux'.pend[x].at = n /\ n # p
        BY <1>3, <1>8, <2>1 DEF SamePending
    <2>3. StopsAt(x, n) /\ ~Barred(ChildAt(x, n)) /\ ~mux.chan[x].cancelled
        BY <2>1, <2>2 DEF PendInv
    <2>4. n \in Trie /\ n \in Prefixes(x) /\ n # x
        BY <2>3 DEF StopsAt
    <2>5. Front(ChildAt(x, n)) = n
        BY <2>4, ChildFacts
    <2>6. n \notin G
        <3>1. ~Node(n).sealed
            BY <2>3, <2>5 DEF Barred
        <3> QED BY <1>2, <2>2, <3>1
    <2>7. Node(n) = mux'.trie[n] /\ n \in Trie'
        BY <1>3, <2>2, <2>4, <2>6 DEF Node
    <2>8. ~mux'.chan[x].cancelled
        BY <1>1, <2>3
    <2> QED BY <2>1, <2>2, <2>7, <2>8
<1>9. ASSUME NEW x \in Path, x \notin Trie', ~mux'.pend[x].in PROVE mux'.chan[x].q = <<>>
    <2>1. CASE x \in G
        BY <1>2, <2>1
    <2>2. CASE x \notin G
        <3>1. x \notin Trie /\ x # p /\ ~mux.pend[x].in
            BY <1>3, <1>9, <2>2 DEF SamePending
        <3>2. mux.chan[x].q = <<>>
            BY <3>1 DEF PendInv
        <3> QED BY <1>1, <3>1, <3>2
    <2> QED BY <2>1, <2>2
<1>10. ASSUME NEW x \in Path, On(x)', x \notin Trie'
       PROVE  /\ On(x) /\ mux'.chan[x].end # "open" /\ mux'.chan[x].q = <<>>
              /\ reader'[x].pc # "done" => App'
    <2>1. CASE x \in G
        <3>1. On(x)
            BY <1>2, <2>1 DEF TrieInv
        <3> QED BY <1>2, <2>1, <3>1
    <2>2. CASE x \notin G
        <3>1. x \notin Trie /\ x # p
            BY <1>3, <1>10, <2>2
        <3>2. reader'[x] = reader[x] /\ mux'.chan[x] = mux.chan[x] /\ App' = App
            BY <1>1, <1>3, <3>1 DEF App
        <3>3. On(x)
            BY <1>10, <3>2 DEF On
        <3> QED BY <3>1, <3>2, <3>3 DEF PassedInv
    <2> QED BY <2>1, <2>2
<1>11. TrieInv' /\ PassedInv' /\ PendInv'
    <2>1. Trie' \subseteq Trie
        BY <1>3
    <2> QED BY <1>2, <1>6, <1>7, <1>8, <1>9, <1>10, <2>1, ShrinkKept
<1>12. IngressInv'
    <2>1. ASSUME ingress.pc = "send"
          PROVE  /\ ingress.path \in Trie' \/ mux'.pend[ingress.path].in \/ mux'.chan[ingress.path].end # "open"
        <3>1. PICK x : x = ingress.path
            OBVIOUS
        <3>2. x \in Path /\ (x \in Trie \/ mux.pend[x].in \/ mux.chan[x].end # "open")
            BY <2>1, <3>1 DEF IngressInv, TypeInv
        <3>3. mux.pend[x].in => mux'.pend[x].in
            BY <1>3, <3>2 DEF SamePending
        <3>4. x # p => mux'.chan[x] = mux.chan[x]
            BY <1>1, <3>2
        <3> QED BY <1>2, <1>3, <3>1, <3>2, <3>3, <3>4
    <2> QED BY <1>3, <2>1 DEF IngressInv
<1>13. StartedInv'
    <2>1. \A x \in Path : reader'[x].base = reader[x].base /\ (On(x) => On(x)')
        BY <1>1 DEF On
    <2>2. \A x \in Path : Len(x) > 1 => Front(x) \in Path
        BY FrontFacts, RootPath
    <2>3. App' = App /\ sent' = sent
        BY <1>3 DEF App
    <2>4. reader'[<<>>] = reader[<<>>]
        BY <1>1, <1>3, RootPath
    <2>5. \A j \in Params : <<j>> \in Path
        BY ParamFacts
    <2> QED BY <2>1, <2>2, <2>3, <2>4, <2>5 DEF StartedInv
<1>14. TypeInv'
    <2>1. queue' \in QueueType
        BY DEF Ends, TypeInv, QueueType
    <2>2. IngressType(ingress') /\ sent' = [x \in Path |-> sent'[x]]
        BY <1>3, TypeIs DEF TypeInv
    <2>3. MuxType(mux')
        <3>1. mux'.inbound \in {"open", "eof"} /\ mux'.pend \in [Path -> PendType]
            BY <1>3 DEF TypeInv, SamePending
        <3> QED BY <1>3, <1>5, <3>1 DEF MuxType, Trie, Node
    <2> QED BY <1>1, <2>1, <2>2, <2>3, TypeNext
<1> QED BY <1>11, <1>12, <1>13, <1>14

\* What a pruned stream holds was read to its end too.
LEMMA EndOver ==
    ASSUME AliveInv, NEW p \in Path, NEW G, Ends(p, G), blame = {},
           NEW x \in G, NEW z \in Path, x \in Prefixes(z), Declared(z)
    PROVE  sent[z].over
<1> USE DEF AliveInv
<1>1. CalmInv /\ ~App
    BY DEF App
<1>2. /\ \A y \in G : /\ y \in Path /\ y # <<>> /\ y \in Trie
                      /\ y # p => reader[y].pc = "done"
    BY EndGone
<1>3. /\ p # <<>> /\ p \in Trie /\ reader[p].pc = "next" /\ mux.chan[p].got = "end"
    BY DEF Ends
<1>4. PICK t : t = EndedIn(mux.trie, p)
    OBVIOUS
<1>5. DOMAIN t = Trie /\ G = GoneIn(t, p)
    BY <1>4 DEF EndedIn, Ends, Trie
<1>6. z \in G \/ \E w \in G : StopsIn(DOMAIN t, z, w)
    BY <1>5, GoneBeyond
<1>7. CASE z \in G
    <2>1. CASE z = p
        BY <1>3, <2>1, EndElems
    <2>2. CASE z # p
        <3>1. reader[z].pc = "done" /\ z # <<>>
            BY <1>2, <1>7, <2>2
        <3>2. StreamInv(z, mux.chan[z], reader[z], decoded[z], sent[z], App)
            BY DEF Streams
        <3> QED BY <1>1, <3>1, <3>2 DEF StreamInv, EndInv
    <2> QED BY <2>1, <2>2
<1>8. CASE \E w \in G : StopsIn(DOMAIN t, z, w)
    <2>1. PICK w \in G : StopsIn(DOMAIN t, z, w)
        BY <1>8
    <2>2. StopsAt(z, w) /\ w \in Prefixes(z) /\ w # z /\ w \in Path /\ w # <<>> /\ w \in Trie
        BY <1>2, <1>5, <2>1 DEF StopsIn, StopsAt
    <2>3. PICK c : c = ChildAt(z, w)
        OBVIOUS
    <2>4. c \in Path /\ c \in Prefixes(z) /\ c # <<>> /\ Front(c) = w /\ Len(c) = Len(w) + 1
        BY <2>2, <2>3, ChildFacts
    <2>5. Len(c) > 1
        BY <2>2, <2>4, FrontFacts
    <2>6. AllDeclared(z)
        BY <1>1, DeclaredAll
    <2>7. Last(c) < sent[w].elems
        BY <2>4, <2>5, <2>6 DEF AllDeclared, Declared
    <2>8. Nested(w)
        BY <2>4, FrontFacts
    <2>9. sent[w].elems = reader[w].base
        <3>1. CASE w = p
            BY <1>3, <2>8, <3>1, EndElems
        <3>2. CASE w # p
            <4>1. reader[w].pc = "done"
                BY <1>2, <3>2
            <4> QED BY <1>1, <2>2, <2>8, <4>1, DoneElems
        <3> QED BY <3>1, <3>2
    <2>10. Node(w).decided = reader[w].base
        BY <2>2 DEF TrieInv
    <2>11. Barred(ChildAt(z, w))
        BY <2>3, <2>4, <2>7, <2>9, <2>10 DEF Barred
    <2> QED BY <1>1, <2>2, <2>11, BarredOver
<1> QED BY <1>6, <1>7, <1>8

\* What holds while nobody is to blame, when a stream ended.
LEMMA EndCalm ==
    ASSUME AliveInv, NEW p \in Path, NEW G, Ends(p, G), blame = {}
    PROVE  CalmInv'
<1> USE DEF AliveInv
<1>1. /\ Tidy(mux'.chan[p], reader'[p])
      /\ \A x \in Path : x # p => mux'.chan[x] = mux.chan[x] /\ reader'[x] = reader[x]
      /\ reader'[p].pc = "done"
    BY EndStreams
<1>2. \A x \in G : x \in Path /\ x \in Trie /\ (x # p => Node(x).done /\ reader[x].pc = "done")
    BY EndGone
<1>3. /\ p # <<>> /\ p \in Trie /\ reader[p].pc = "next" /\ mux.chan[p].got = "end"
      /\ mux'.inbound = mux.inbound /\ SamePending
      /\ Trie' = Trie \ G /\ \A x \in Trie' : x # p => Node(x)' = Node(x)
      /\ ingress' = ingress /\ sent' = sent /\ blame' = blame
    BY DEF Ends
<1>4. p \in Trie' => Node(p)'.done = TRUE /\ Node(p)'.closed = Node(p).closed
    <2>1. PICK o : o = Node(p)
        OBVIOUS
    <2>2. o \in NodeType
        BY <1>3, <2>1 DEF TypeInv, Node
    <2>3. p \in Trie' => Node(p)' = Ended(o)
        BY <1>3, <2>1 DEF Ends
    <2> QED BY <2>1, <2>2, <2>3, EndedIs
<1>5. CalmInv /\ ~App
    BY DEF App
<1>6. \A x \in Path : On(x)' <=> On(x)
    BY <1>1, <1>3 DEF On
<1>7. \A x \in Path : ~queue'[x].cancelled /\ ~mux'.pend[x].closed /\ Tidy(mux'.chan[x], reader'[x])
    <2>1. \A x \in Path : queue'[x].cancelled = queue[x].cancelled
        BY DEF Ends, TypeInv
    <2>2. \A x \in Path : Tidy(mux'.chan[x], reader'[x])
        BY <1>1, <1>5 DEF CalmInv
    <2> QED BY <1>3, <1>5, <2>1, <2>2 DEF CalmInv, SamePending
<1>8. \A x \in Trie' : ~Node(x)'.closed
    <2>1. \A x \in Trie : ~Node(x).closed
        BY <1>5 DEF CalmInv
    <2> QED BY <1>3, <1>4, <2>1
<1>9. /\ \A x : Declared(x)' <=> Declared(x)
      /\ \A x : AllDeclared(x)' <=> AllDeclared(x)
      /\ \A x : Open(x)' <=> Open(x)
    BY <1>3 DEF Declared, AllDeclared, Open
<1>10. \A x \in Path : sent'[x].n > 0 \/ mux'.pend[x].in \/ On(x)' => AllDeclared(x)'
    BY <1>3, <1>5, <1>6, <1>9 DEF CalmInv, SamePending
<1>11. CalmIngress'
    <2>1. ASSUME ingress.pc = "send", Open(ingress.path)
          PROVE  ingress.path \in Trie' \/ mux'.pend[ingress.path].in
        <3>1. PICK x : x = ingress.path
            OBVIOUS
        <3>2. x \in Path /\ Open(x) /\ (x \in Trie \/ mux.pend[x].in)
            BY <1>5, <2>1, <3>1 DEF CalmInv, CalmIngress, TypeInv
        <3>3. reader[x].pc # "done" /\ ~sent[x].over
            BY <1>5, <3>2, OpenNotDone, OpenDeclared
        <3>4. x # p
            BY <1>3, <3>3, EndElems
        <3>5. x \notin G
            BY <1>2, <3>3, <3>4
        <3> QED BY <1>3, <3>1, <3>2, <3>5 DEF SamePending
    <2> QED BY <1>3, <1>5, <1>9, <2>1 DEF CalmInv, CalmIngress
<1>12. ASSUME NEW x \in Path, mux'.inbound = "open", (x \in Trie' /\ ~Node(x)'.done) \/ mux'.pend[x].in
       PROVE  mux'.chan[x].end = "open"
    <2>1. x # p
        <3>1. ~mux.pend[p].in
            <4>1. \A n : StopsAt(p, n) => FALSE
                <5> SUFFICES ASSUME NEW n, StopsAt(p, n) PROVE FALSE
                    OBVIOUS
                <5>1. ChildAt(p, n) \in Prefixes(p)
                    BY ChildFacts DEF StopsAt
                <5> QED BY <1>3, <5>1 DEF TrieInv, StopsAt
            <4> QED BY <4>1 DEF PendInv
        <3> QED BY <1>3, <1>4, <1>12, <3>1 DEF SamePending
    <2>2. (x \in Trie /\ ~Node(x).done) \/ mux.pend[x].in
        BY <1>3, <1>12, <2>1 DEF SamePending
    <2> QED BY <1>1, <1>3, <1>5, <1>12, <2>1, <2>2 DEF CalmInv
<1>13. ASSUME NEW x \in Path, On(x)', x \notin Trie', NEW z \in Path, x \in Prefixes(z), Declared(z)'
       PROVE  sent'[z].over
    <2>1. CASE x \in G
        BY <1>3, <1>9, <1>13, <2>1, EndOver
    <2>2. CASE x \notin G
        BY <1>3, <1>5, <1>6, <1>9, <1>13, <2>2 DEF CalmInv
    <2> QED BY <2>1, <2>2
<1>14. mux'.inbound # "open" => Complete'
    BY <1>3, <1>5, <1>9 DEF CalmInv, Complete
<1>15. sent'[<<>>].n <= 1
    BY <1>3, <1>5 DEF CalmInv
<1> QED BY <1>7, <1>8, <1>10, <1>11, <1>12, <1>13, <1>14, <1>15 DEF CalmInv

\* What a stream leaves when it ends is unexpected.
LEMMA EndBlame ==
    ASSUME AliveInv, NEW p \in Path, p # <<>>, p \in Trie, reader[p].pc = "next", mux.chan[p].got = "end",
           mux.chan[p].q # <<>> \/ \E x \in Path : mux.pend[x].in /\ mux.pend[x].at = p
    PROVE  blame # {}
<1> USE DEF AliveInv
<1> SUFFICES ASSUME blame = {} PROVE FALSE
    OBVIOUS
<1>1. CalmInv /\ mux.chan[p].q = <<>>
    BY EndElems
<1>2. PICK x \in Path : mux.pend[x].in /\ mux.pend[x].at = p
    BY <1>1
<1>3. StopsAt(x, p) /\ ~Barred(ChildAt(x, p))
    BY <1>2 DEF PendInv
<1>4. PICK c : c = ChildAt(x, p)
    OBVIOUS
<1>5. c \in Path /\ c \in Prefixes(x) /\ c # <<>> /\ Front(c) = p /\ Len(c) = Len(p) + 1
    BY <1>3, <1>4, ChildFacts DEF StopsAt
<1>6. Len(c) > 1 /\ Nested(p)
    BY <1>5, FrontFacts
<1>7. AllDeclared(x)
    BY <1>1, <1>2 DEF CalmInv
<1>8. Last(c) < sent[p].elems
    BY <1>5, <1>6, <1>7 DEF AllDeclared, Declared
<1>9. sent[p].elems = Node(p).decided
    BY <1>6, EndElems DEF TrieInv
<1> QED BY <1>3, <1>4, <1>5, <1>8, <1>9 DEF Barred

\* A stream is read to its end.
LEMMA EndStreamKept ==
    ASSUME AliveInv, NEW p \in Path, ReadEnd(p)
    PROVE  Kept
<1> USE DEF AliveInv
<1>1. CASE p \notin Trie
    BY <1>1, ForgottenEndKept
<1>2. CASE p \in Trie
    <2>1. /\ p # <<>> /\ reader[p].pc = "next" /\ mux.chan[p].got = "end"
          /\ decoded' = [decoded EXCEPT ![p] = @ + 1] /\ mux' = Finish(mux, p)
          /\ reader' = [reader EXCEPT ![p].pc = "done"] /\ queue' = [queue EXCEPT ![p].closed = TRUE]
          /\ UNCHANGED <<ingress, sent, blame>>
        BY DEF ReadEnd, Counted, Got
    <2>2. IsFinished(mux', mux, p)
        <3>1. MuxOk(mux) /\ p \in DOMAIN mux.trie
            BY <1>2, MuxIsOk DEF Trie
        <3> QED BY <2>1, <3>1, FinishOk
    <2>3. CASE mux'.aborted
        <3>1. blame # {} /\ mux'.aborted = TRUE
            BY <1>2, <2>1, <2>2, <2>3, EndBlame DEF IsFinished
        <3> QED BY <2>1, <3>1 DEF Kept
    <2>4. CASE ~mux'.aborted
        <3>1. PICK t, G : t = EndedIn(mux.trie, p) /\ G = GoneIn(t, p)
            OBVIOUS
        <3>2. /\ mux'.inbound = mux.inbound /\ PendLike(mux', mux) /\ \A x \in Path : mux'.pend[x].in = mux.pend[x].in
              /\ mux'.chan = [mux.chan EXCEPT ![p] = Close(@, "eof")]
              /\ mux'.trie = [x \in DOMAIN mux.trie \ G |-> t[x]]
              /\ mux'.aborted = FALSE /\ MuxRec(mux') /\ mux.chan[p].q = <<>>
              /\ \A x \in Path : mux.pend[x].in => mux.pend[x].at # p
            BY <2>2, <2>4, <3>1 DEF IsFinished
        <3>3. \A x \in Trie : t[x] = IF x = p THEN Ended(Node(x)) ELSE Node(x)
            BY <3>1 DEF EndedIn, Trie, Node
        <3>4. /\ Trie' = Trie \ G /\ mux'.trie = [x \in DOMAIN mux'.trie |-> mux'.trie[x]]
              /\ \A x \in Trie : x \notin G => Node(x)' = t[x]
            BY <3>2 DEF Trie, Node
        <3>5. SamePending
            BY <3>2 DEF PendLike, SamePending
        <3>6. Ends(p, G)
            <4>1. \A x \in Trie : x # p /\ x \notin G => Node(x)' = Node(x)
                BY <3>3, <3>4
            <4>2. p \notin G => Node(p)' = Ended(Node(p))
                BY <1>2, <3>3, <3>4
            <4> QED BY <1>2, <2>1, <3>1, <3>2, <3>4, <3>5, <4>1, <4>2 DEF Ends
        <3>7. AliveInv'
            <4>1. blame' = {} => CalmInv'
                BY <2>1, <3>6, EndCalm
            <4> QED BY <3>6, <4>1, EndTrie, EndStreams
        <3> QED BY <3>7 DEF Kept
    <2> QED BY <2>3, <2>4
<1> QED BY <1>1, <1>2

-----------------------------------------------------------------------------
(* The application stops reading a stream                                  *)

\* Nodes are forgotten, of streams that are discarded or were read to their
\* end, and what was buffered below them is dropped.
Leaves ==
    /\ MuxRec(mux') /\ mux'.aborted = FALSE /\ mux'.inbound = mux.inbound /\ PendLike(mux', mux)
    /\ Trie' \subseteq Trie /\ Closed(Trie') /\ mux'.trie = [x \in DOMAIN mux'.trie |-> mux'.trie[x]]
    /\ \A x \in Trie' : mux'.trie[x] = mux.trie[x]
    /\ \A x \in Path : mux'.pend[x].in => mux.pend[x].in /\ mux.pend[x].at \in Trie'
    /\ mux'.chan = [x \in Path |-> mux'.chan[x]]
    /\ \A x \in Path : /\ \/ mux'.chan[x] = mux.chan[x]
                          \/ mux'.chan[x] = Cancel(mux.chan[x]) /\ mux.chan[x].q = <<>>
                       /\ x \in Trie' \/ mux'.pend[x].in => mux'.chan[x] = mux.chan[x]
                       /\ (x \in Trie /\ x \notin Trie') \/ (mux.pend[x].in /\ ~mux'.pend[x].in) =>
                            reader[x].pc = "done" \/ (mux'.chan[x] = Cancel(mux.chan[x]) /\ mux.chan[x].q = <<>>)

\* Whatever is forgotten when the application stops reading.
LEMMA LeavesKept ==
    ASSUME AliveInv, Leaves, UNCHANGED <<reader, ingress, sent, decoded>>, queue' \in QueueType, App'
    PROVE  AliveInv'
<1> USE DEF AliveInv
<1>1. App' = TRUE /\ App \in BOOLEAN
    BY DEF App
<1>2. ASSUME NEW x \in Path
      PROVE  /\ StreamInv(x, mux'.chan[x], reader'[x], decoded'[x], sent'[x], App')
             /\ mux.chan[x].q = <<>> => mux'.chan[x].q = <<>>
             /\ mux.chan[x].end # "open" => mux'.chan[x].end # "open"
             /\ (x \in Trie /\ x \notin Trie') \/ (mux.pend[x].in /\ ~mux'.pend[x].in) =>
                    mux'.chan[x].end # "open" /\ mux'.chan[x].q = <<>>
    <2>1. PICK c, r, d, s, k : c = mux.chan[x] /\ r = reader[x] /\ d = decoded[x] /\ s = sent[x] /\ k = mux'.chan[x]
        OBVIOUS
    <2>2. StreamInv(x, c, r, d, s, App)
        BY <2>1 DEF Streams
    <2>3. StreamInv(x, c, r, d, s, TRUE)
        BY <1>1, <2>2, StreamApp
    <2>4. c.q = <<>> => StreamInv(x, Cancel(c), r, d, s, TRUE) /\ Cancel(c).q = <<>> /\ Cancel(c).end # "open"
        BY <2>3, StreamCancel
    <2>5. /\ k = c \/ (k = Cancel(c) /\ c.q = <<>>)
          /\ (x \in Trie /\ x \notin Trie') \/ (mux.pend[x].in /\ ~mux'.pend[x].in) =>
                r.pc = "done" \/ (k = Cancel(c) /\ c.q = <<>>)
        BY <2>1 DEF Leaves
    <2>6. StreamInv(x, k, r, d, s, TRUE) /\ (c.q = <<>> => k.q = <<>>) /\ (c.end # "open" => k.end # "open")
        BY <2>3, <2>4, <2>5
    <2>7. r.pc = "done" => k.q = <<>> /\ k.end # "open"
        BY <2>6 DEF StreamInv, ChanInv
    <2> QED BY <1>1, <2>1, <2>4, <2>5, <2>6, <2>7
<1>3. Streams'
    BY <1>2 DEF Streams
<1>4. Trie' \subseteq Trie /\ Trie \subseteq Path /\ \A x \in Trie' : Node(x)' = Node(x) /\ mux'.chan[x] = mux.chan[x]
    <2>1. Trie' \subseteq Trie /\ Trie \subseteq Path
        BY DEF Leaves, TrieInv
    <2> QED BY <2>1 DEF Leaves, Node
<1>5. \A c \in Path : c # <<>> /\ Front(c) \in Trie' /\ Barred(c) => Barred(c)'
    BY <1>4 DEF Barred
<1>6. ASSUME NEW x \in Trie'
      PROVE  /\ On(x)' /\ (Node(x)'.done <=> reader'[x].pc = "done")
             /\ Node(x)'.sealed <=> Node(x)'.done \/ (x # <<>> /\ ~Nested(x))
             /\ Node(x)'.decided = reader'[x].base
             /\ ~mux'.chan[x].cancelled
    <2>1. x \in Trie /\ Node(x)' = Node(x) /\ reader'[x] = reader[x] /\ mux'.chan[x] = mux.chan[x]
        BY <1>4
    <2> QED BY <2>1 DEF TrieInv, On
<1>7. ASSUME NEW x \in Path, mux'.pend[x].in
      PROVE  /\ mux.pend[x].in /\ mux'.pend[x].at = mux.pend[x].at /\ mux.pend[x].at \in Trie'
             /\ Node(mux.pend[x].at) = mux'.trie[mux.pend[x].at] /\ ~mux'.chan[x].cancelled
    <2>1. PICK n : n = mux.pend[x].at
        OBVIOUS
    <2>2. mux.pend[x].in /\ mux'.pend[x].at = n /\ n \in Trie' /\ mux'.chan[x] = mux.chan[x]
        BY <1>7, <2>1 DEF Leaves, PendLike
    <2>3. Node(n) = mux'.trie[n]
        BY <1>4, <2>2 DEF Node
    <2>4. ~mux.chan[x].cancelled
        BY <2>2 DEF PendInv
    <2> QED BY <2>1, <2>2, <2>3, <2>4
<1>8. ASSUME NEW x \in Path, x \notin Trie', ~mux'.pend[x].in PROVE mux'.chan[x].q = <<>>
    <2>1. x \notin Trie /\ ~mux.pend[x].in => mux.chan[x].q = <<>>
        BY DEF PendInv
    <2> QED BY <1>2, <1>8, <2>1
<1>9. ASSUME NEW x \in Path, On(x)', x \notin Trie'
      PROVE  /\ On(x) /\ mux'.chan[x].end # "open" /\ mux'.chan[x].q = <<>>
             /\ reader'[x].pc # "done" => App'
    <2>1. On(x)
        BY <1>9 DEF On
    <2>2. x \notin Trie => mux.chan[x].end # "open" /\ mux.chan[x].q = <<>>
        BY <2>1 DEF PassedInv
    <2> QED BY <1>1, <1>2, <1>9, <2>1, <2>2
<1>10. TrieInv' /\ PassedInv' /\ PendInv'
    <2>1. Closed(Trie')
        BY DEF Leaves
    <2> QED BY <1>4, <1>5, <1>6, <1>7, <1>8, <1>9, <2>1, ShrinkKept
<1>11. IngressInv'
    <2>1. ASSUME ingress.pc = "send"
          PROVE  /\ ingress.path \in Trie' \/ mux'.pend[ingress.path].in \/ mux'.chan[ingress.path].end # "open"
        <3>1. PICK x : x = ingress.path
            OBVIOUS
        <3>2. x \in Path /\ (x \in Trie \/ mux.pend[x].in \/ mux.chan[x].end # "open")
            BY <2>1, <3>1 DEF IngressInv, TypeInv
        <3> QED BY <1>2, <3>1, <3>2
    <2> QED BY <2>1 DEF IngressInv, Leaves
<1>12. StartedInv'
    <2>1. \A x : On(x)' <=> On(x)
        BY DEF On
    <2> QED BY <1>1, <2>1 DEF StartedInv
<1>13. TypeInv'
    <2>1. IngressType(ingress') /\ sent' = [x \in Path |-> sent'[x]]
        BY TypeIs DEF TypeInv
    <2>2. reader' = [x \in Path |-> reader'[x]] /\ decoded' = [x \in Path |-> decoded'[x]]
        BY DEF TypeInv
    <2>3. MuxType(mux')
        <3>1. mux'.inbound \in {"open", "eof"} /\ mux'.pend \in [Path -> PendType]
            BY DEF Leaves, TypeInv, PendLike
        <3>2. \A x \in DOMAIN mux'.trie : mux'.trie[x] \in NodeType
            BY <1>4 DEF Trie, Node, TypeInv
        <3> QED BY <3>1, <3>2 DEF MuxType, Leaves
    <2>4. mux'.chan = [x \in Path |-> mux'.chan[x]]
        BY DEF Leaves
    <2> QED BY <1>3, <2>1, <2>2, <2>3, <2>4, TypeNext
<1>14. blame' # {}
    BY DEF App
<1> QED BY <1>3, <1>10, <1>11, <1>12, <1>13, <1>14

\* Below a node that is forgotten, all are.
LEMMA LostClosed ==
    ASSUME Closed(Trie), NEW p \in Path, NEW from, NEW to, NEW gone, gone = LostIn(mux, p, from, to)
    PROVE  Closed(Trie \ gone) /\ gone \subseteq Trie
<1> DEFINE lost == {c \in Children(mux, p) : from <= Last(c) /\ Last(c) < to}
<1>1. \A x : x \in gone <=> x \in Trie /\ Prefixes(x) \cap lost # {}
    BY DEF LostIn, Trie
<1>2. <<>> \notin lost
    <2>1. Len(p) \in Nat /\ Len(<<>>) = 0
        BY PathSeq, RootPath
    <2>2. Len(<<>>) # Len(p) + 1
        BY <2>1
    <2> QED BY <2>2 DEF Children
<1> HIDE DEF lost
<1>3. <<>> \notin gone
    <2>1. \A x \in Prefixes(<<>>) : x = <<>>
        BY RootPath, PrefixFacts
    <2> QED BY <1>1, <1>2, <2>1
<1>4. ASSUME NEW x \in Trie, x \notin gone, NEW y \in Prefixes(x) PROVE y \in Trie /\ y \notin gone
    <2>1. x \in Path /\ y \in Trie
        BY DEF Closed
    <2>2. \A z \in Prefixes(y) : z \in Prefixes(x)
        BY <2>1, PrefixTrans
    <2>3. Prefixes(x) \cap lost = {}
        BY <1>1, <1>4
    <2> QED BY <1>1, <2>1, <2>2, <2>3
<1> QED BY <1>1, <1>3, <1>4 DEF Closed

\* `discard` forgets no more than that.
LEMMA DiscardLeaves ==
    ASSUME AliveInv, NEW p \in Path, p \in Trie, NEW from, NEW to, mux' = Discard(mux, p, from, to), ~mux'.aborted
    PROVE  Leaves
<1> USE DEF AliveInv
<1>1. PICK gone, t, G : gone = LostIn(mux, p, from, to) /\ t = LeftIn(mux, gone) /\ G = GoneIn(t, p)
    OBVIOUS
<1>2. IsDiscarded(mux', mux, p, gone)
    <2>1. MuxOk(mux) /\ p \in DOMAIN mux.trie
        BY MuxIsOk DEF Trie
    <2> QED BY <1>1, <2>1, DiscardOk
<1>3. /\ MuxRec(mux') /\ mux'.aborted = FALSE /\ mux'.inbound = mux.inbound /\ PendLike(mux', mux)
      /\ \A x \in Path : mux'.pend[x].in <=> mux.pend[x].in /\ mux.pend[x].at \notin gone
      /\ mux'.chan = [x \in Path |-> mux'.chan[x]]
      /\ \A x \in Path :
          IF x \in HeldIn(mux, gone) \cup gone THEN mux'.chan[x] = Cancel(mux.chan[x]) /\ mux.chan[x].q = <<>>
          ELSE mux'.chan[x] = mux.chan[x]
      /\ mux'.trie = [x \in DOMAIN mux'.trie |-> mux'.trie[x]]
      /\ Trie' = (Trie \ gone) \ G
      /\ \A x \in Trie' : mux'.trie[x] = mux.trie[x]
    BY <1>1, <1>2 DEF IsDiscarded, Trie
<1>4. Closed(Trie \ gone) /\ gone \subseteq Trie /\ Trie \subseteq Path
    BY <1>1, TrieClosed, LostClosed DEF Closed
<1>5. DOMAIN t = Trie \ gone /\ \A x \in Trie \ gone : t[x] = Node(x)
    BY <1>1 DEF LeftIn, Trie, Node
<1>6. Closed(Trie') /\ Trie' \subseteq Trie
    BY <1>1, <1>3, <1>4, <1>5, GoneClosed
<1>7. ASSUME NEW x \in G PROVE x \in Trie /\ Node(x).sealed /\ reader[x].pc = "done"
    <2>1. x \in DOMAIN t /\ (~t[x].chan \/ t[x].done)
        BY <1>1, <1>7, GoneFacts
    <2>2. x \in Trie /\ Node(x) \in NodeType /\ (~Node(x).chan \/ Node(x).done)
        BY <1>5, <2>1 DEF TypeInv, Node
    <2>3. Node(x).done
        BY <2>2 DEF NodeType
    <2> QED BY <2>2, <2>3 DEF TrieInv
<1>8. ASSUME NEW x \in Path, mux.pend[x].in PROVE x \notin Trie /\ mux.pend[x].at \in Trie /\ mux.pend[x].at \notin G
    <2>1. PICK n : n = mux.pend[x].at
        OBVIOUS
    <2>2. StopsAt(x, n) /\ ~Barred(ChildAt(x, n))
        BY <1>8, <2>1 DEF PendInv
    <2>3. n \in Trie /\ Front(ChildAt(x, n)) = n /\ ChildAt(x, n) \in Prefixes(x) /\ ChildAt(x, n) \notin Trie
        BY <2>2, ChildFacts DEF StopsAt
    <2>4. ~Node(n).sealed
        BY <2>2, <2>3 DEF Barred
    <2>5. x \notin Trie
        BY <2>3 DEF TrieInv
    <2> QED BY <1>7, <2>1, <2>3, <2>4, <2>5
<1>9. \A x \in Path : mux'.pend[x].in => mux.pend[x].in /\ mux.pend[x].at \in Trie'
    BY <1>3, <1>8
<1>10. \A x : x \in HeldIn(mux, gone) <=> x \in Path /\ mux.pend[x].in /\ mux.pend[x].at \in gone
    BY DEF HeldIn
<1>11. ASSUME NEW x \in Path
       PROVE  /\ \/ mux'.chan[x] = mux.chan[x]
                 \/ mux'.chan[x] = Cancel(mux.chan[x]) /\ mux.chan[x].q = <<>>
              /\ x \in Trie' \/ mux'.pend[x].in => mux'.chan[x] = mux.chan[x]
              /\ (x \in Trie /\ x \notin Trie') \/ (mux.pend[x].in /\ ~mux'.pend[x].in) =>
                   reader[x].pc = "done" \/ (mux'.chan[x] = Cancel(mux.chan[x]) /\ mux.chan[x].q = <<>>)
    <2>1. x \in Trie' => x \notin HeldIn(mux, gone) \cup gone
        BY <1>3, <1>8, <1>10
    <2>2. mux'.pend[x].in => x \notin HeldIn(mux, gone) \cup gone
        BY <1>3, <1>4, <1>8, <1>10
    <2>3. (x \in Trie /\ x \notin Trie') => x \in G \/ x \in HeldIn(mux, gone) \cup gone
        BY <1>3
    <2>4. (mux.pend[x].in /\ ~mux'.pend[x].in) => x \in HeldIn(mux, gone) \cup gone
        BY <1>3, <1>10
    <2> QED BY <1>3, <1>7, <2>1, <2>2, <2>3, <2>4
<1> QED BY <1>3, <1>6, <1>9, <1>11 DEF Leaves

\* The application stops reading a stream, and what is nested in it is
\* discarded.
LEMMA LeaveKept ==
    ASSUME AliveInv, NEW p \in Path, CancelQueue(p)
    PROVE  Kept
<1> USE DEF AliveInv
<1>1. PICK from, to : from = queue[p].taken /\ to = queue[p].taken + queue[p].n
    OBVIOUS
<1>2. /\ queue' = [queue EXCEPT ![p].cancelled = TRUE, ![p].n = 0]
      /\ mux' = mux \/ mux' = Discard(mux, p, from, to)
      /\ blame' = blame \cup {"app"} /\ UNCHANGED <<reader, ingress, sent, decoded>>
    BY <1>1 DEF CancelQueue
<1>3. queue' \in QueueType /\ App' /\ blame' # {}
    BY <1>2 DEF TypeInv, QueueType, App
<1>4. CASE mux' = mux
    <2>1. MuxRec(mux) /\ mux.aborted = FALSE /\ Closed(Trie)
        BY MuxIs, TrieClosed
    <2>2. Trie' = Trie /\ mux.trie = [x \in DOMAIN mux.trie |-> mux.trie[x]] /\ mux.chan = [x \in Path |-> mux.chan[x]]
        BY <1>4 DEF Trie, TypeInv
    <2>3. PendLike(mux', mux)
        BY <1>4 DEF PendLike, TypeInv
    <2>4. \A x \in Path : mux.pend[x].in => mux.pend[x].at \in Trie
        BY DEF PendInv, StopsAt
    <2>5. Leaves
        BY <1>4, <2>1, <2>2, <2>3, <2>4 DEF Leaves
    <2> QED BY <1>2, <1>3, <2>5, LeavesKept DEF Kept
<1>5. CASE mux' # mux
    <2>1. p \in Trie /\ mux' = Discard(mux, p, from, to)
        <3>1. ~Has(mux, p) => Discard(mux, p, from, to) = mux
            BY DEF Discard
        <3> QED BY <1>2, <1>5, <3>1 DEF Has, Trie
    <2>2. mux'.aborted \in BOOLEAN
        <3>1. MuxOk(mux) /\ p \in DOMAIN mux.trie
            BY <2>1, MuxIsOk DEF Trie
        <3> QED BY <2>1, <3>1, DiscardOk DEF IsDiscarded
    <2>3. CASE mux'.aborted
        BY <1>3, <2>2, <2>3 DEF Kept
    <2>4. CASE ~mux'.aborted
        <3>1. Leaves
            BY <2>1, <2>4, DiscardLeaves
        <3> QED BY <1>2, <1>3, <3>1, LeavesKept DEF Kept
    <2> QED BY <2>3, <2>4
<1> QED BY <1>4, <1>5

-----------------------------------------------------------------------------
(* The theorems                                                            *)

\* At first the tuple is awaited, and nothing was sent.
LEMMA InitStreams ==
    ASSUME Init
    PROVE  Streams
<1>1. PICK r, c, w, k, s : /\ r = [pc |-> "next", base |-> 0] /\ c = NextOf(NewChan)
                           /\ w = [pc |-> "off", base |-> 0] /\ k = NewChan
                           /\ s = [n |-> 0, elems |-> 0, over |-> FALSE]
    OBVIOUS
<1>2. /\ k = [q |-> <<>>, end |-> "open", cancelled |-> FALSE, waiting |-> FALSE, got |-> "none"]
      /\ c = [q |-> <<>>, end |-> "open", cancelled |-> FALSE, waiting |-> TRUE, got |-> "none"]
    BY <1>1 DEF NewChan, NextOf
<1>3. \A x \in Path : StreamInv(x, k, w, 0, s, FALSE) \/ x = <<>>
    <2> SUFFICES ASSUME NEW x \in Path, x # <<>> PROVE StreamInv(x, k, w, 0, s, FALSE)
        OBVIOUS
    <2>1. k \in ChanType /\ w \in ReaderType /\ s \in SentType /\ k.q = <<>> /\ Len(k.q) = 0
        BY <1>1, <1>2 DEF ChanType, ReaderType, SentType
    <2>2. ChanInv(k, w, FALSE)
        BY <1>1, <1>2 DEF ChanInv
    <2>3. FlowInv(x, k, w, 0, s, FALSE)
        BY <1>1, <1>2 DEF FlowInv, Holding, OneIf
    <2>4. EndInv(x, k, w, s, FALSE)
        BY <1>1, <1>2, <2>1 DEF EndInv, HoldingEnd, HoldingSome, HasEnd, OneIf
    <2> QED BY <2>1, <2>2, <2>3, <2>4 DEF StreamInv
<1>4. StreamInv(<<>>, c, r, 0, s, FALSE)
    <2>1. c \in ChanType /\ r \in ReaderType /\ s \in SentType /\ c.q = <<>> /\ Len(c.q) = 0
        <3>1. /\ c.q = <<>> /\ c.got = "none" /\ c.end = "open" /\ c.cancelled = FALSE /\ c.waiting = TRUE
              /\ c = [q |-> c.q, end |-> c.end, cancelled |-> c.cancelled, waiting |-> c.waiting, got |-> c.got]
            BY <1>2
        <3>2. c.q \in Seq(Value) /\ Len(c.q) = 0
            BY <3>1
        <3>3. c \in ChanType
            BY <3>1, <3>2 DEF ChanType
        <3>4. r \in ReaderType /\ s \in SentType
            BY <1>1 DEF ReaderType, SentType
        <3> QED BY <3>1, <3>2, <3>3, <3>4
    <2>2. ChanInv(c, r, FALSE)
        BY <1>1, <1>2 DEF ChanInv
    <2>3. FlowInv(<<>>, c, r, 0, s, FALSE)
        <3>1. r.pc = "next" /\ r.base = 0 /\ c.got = "none" /\ s.n = 0 /\ s.elems = 0 /\ Len(c.q) = 0
            BY <1>1, <1>2, <2>1
        <3>2. ~Holding(c, r)
            BY <3>1 DEF Holding, Value
        <3>3. OneIf(Holding(c, r)) = 0 /\ OneIf(r.pc = "done") = 0
            BY <3>1, <3>2 DEF OneIf
        <3> QED BY <3>1, <3>3 DEF FlowInv
    <2>4. EndInv(<<>>, c, r, s, FALSE)
        BY <1>1, <1>2, <2>1 DEF EndInv, HoldingEnd, HoldingSome, HasEnd, OneIf
    <2> QED BY <2>1, <2>2, <2>3, <2>4 DEF StreamInv
<1>5. App = FALSE
    BY DEF Init, App
<1>6. \A x \in Path : /\ mux.chan[x] = IF x = <<>> THEN c ELSE k
                      /\ reader[x] = IF x = <<>> THEN r ELSE w
                      /\ decoded[x] = 0 /\ sent[x] = s
    BY <1>1 DEF Init
<1> QED BY <1>3, <1>4, <1>5, <1>6 DEF Streams

\* The invocation begins well.
LEMMA InitAlive ==
    ASSUME Init
    PROVE  AliveInv
<1>1. Streams
    BY InitStreams
<1>2. /\ Trie = {<<>>} /\ mux.trie = [x \in {<<>>} |-> mux.trie[x]]
      /\ mux.trie[<<>>] = [chan |-> TRUE, sealed |-> FALSE, decided |-> 0, done |-> FALSE, closed |-> FALSE]
      /\ MuxRec(mux) /\ mux.inbound = "open" /\ mux.aborted = FALSE
    BY DEF Init, Trie, MuxRec, NewNode
<1>3. mux.trie[<<>>] \in NodeType
    <2>1. PICK o : o = mux.trie[<<>>]
        OBVIOUS
    <2>2. o = [chan |-> TRUE, sealed |-> FALSE, decided |-> 0, done |-> FALSE, closed |-> FALSE]
        BY <1>2, <2>1
    <2>3. o \in NodeType
        BY <2>2 DEF NodeType
    <2> QED BY <2>1, <2>3
<1>4. mux.pend \in [Path -> PendType] /\ \A x \in Path : mux.pend[x].in = FALSE /\ mux.pend[x].closed = FALSE
    <2>1. NoPending \in PendType /\ NoPending.in = FALSE /\ NoPending.closed = FALSE
        BY RootPath DEF NoPending, PendType
    <2>2. mux.pend = [x \in Path |-> NoPending]
        BY DEF Init
    <2> QED BY <2>1, <2>2
<1>5. \A x \in Path : /\ mux.chan[x].q = <<>> /\ mux.chan[x].end = "open" /\ mux.chan[x].cancelled = FALSE
    BY DEF Init, NextOf, NewChan
<1>6. /\ \A x \in Path : (On(x) <=> x = <<>>) /\ reader[x].base = 0
      /\ reader[<<>>].pc = "next"
    BY RootPath DEF Init, On
<1>7. \A x \in Path : sent[x].n = 0 /\ sent[x].elems = 0
    BY DEF Init
<1>8. \A x \in Prefixes(<<>>) : x = <<>>
    BY RootPath, PrefixFacts
<1>9. TypeInv
    <2>1. MuxType(mux)
        BY <1>2, <1>3, <1>4 DEF MuxType, Trie
    <2>2. mux.chan \in [Path -> ChanType]
        <3>1. mux.chan = [x \in Path |-> mux.chan[x]]
            BY DEF Init
        <3>2. \A x \in Path : mux.chan[x] \in ChanType
            BY <1>1 DEF Streams, StreamInv
        <3> QED BY <3>1, <3>2
    <2>3. reader \in [Path -> ReaderType] /\ decoded \in [Path -> Nat] /\ sent \in [Path -> SentType]
        BY DEF Init, ReaderType, SentType
    <2>4. queue \in QueueType /\ IngressType(ingress)
        BY RootPath DEF Init, QueueType, IngressType
    <2> QED BY <2>1, <2>2, <2>3, <2>4, TypeIs
<1>10. TrieInv
    BY <1>2, <1>5, <1>6, <1>8, RootPath DEF TrieInv, Node
<1>11. PendInv /\ PassedInv
    BY <1>2, <1>4, <1>5, <1>6 DEF PendInv, PassedInv
<1>12. IngressInv
    BY <1>2 DEF IngressInv, Init
<1>13. StartedInv
    <2>1. \A x \in Path : Len(x) > 1 => Front(x) \in Path /\ Last(x) \in Nat
        BY FrontFacts, RootPath
    <2> QED BY <1>6, <1>7, <2>1 DEF StartedInv
<1>14. CalmInv
    <2>1. AllDeclared(<<>>)
        BY <1>8, RootPath DEF AllDeclared, Declared
    <2>2. \A x \in Path : ~queue[x].cancelled
        BY DEF Init
    <2>3. \A x \in Path : Tidy(mux.chan[x], reader[x])
        BY <1>5 DEF Tidy
    <2>4. ingress.pc = "loop"
        BY DEF Init
    <2> QED BY <1>2, <1>4, <1>5, <1>6, <1>7, <2>1, <2>2, <2>3, <2>4, RootPath DEF CalmInv, CalmIngress, Node
<1> QED BY <1>1, <1>9, <1>10, <1>11, <1>12, <1>13, <1>14 DEF AliveInv

\* The invariant holds at first, ...
LEMMA JsMuxInit == Init => JsMuxInv
<1> SUFFICES ASSUME Init PROVE JsMuxInv
    OBVIOUS
<1>1. AliveInv
    BY InitAlive
<1>2. mux.aborted = FALSE /\ finished = FALSE
    BY DEF Init
<1> QED BY <1>1, <1>2 DEF JsMuxInv, OkMeansDecoded, NoBlame, DoneInv

\* Every step, unless the invocation had failed
LEMMA StepKept ==
    ASSUME AliveInv, Next
    PROVE  Kept
<1>1. CASE IngressStep
    BY <1>1, FrameKept, RoomKept, RouteKept, ChunkKept, EndKept, TxKept DEF IngressStep, Value
<1>2. CASE \E p \in Path : ReaderStep(p) \/ Consume(p) \/ Leave(p)
    <2>1. PICK p \in Path : ReaderStep(p) \/ Consume(p) \/ Leave(p)
        BY <1>2
    <2>2. CASE ReaderStep(p)
        BY <2>2, TupleKept, LengthKept, ElementKept, SendKept, EndStreamKept, DiscardedKept, FailKept DEF ReaderStep
    <2>3. CASE Consume(p) \/ Leave(p)
        BY <2>3, TakeKept, LeaveKept DEF Consume, Leave
    <2> QED BY <2>1, <2>2, <2>3
<1>3. CASE TxStep \/ Resolve
    BY <1>3, TxKept DEF TxStep
<1> QED BY <1>1, <1>2, <1>3 DEF Next

\* When `finished` resolves, all was decoded.
LEMMA ResolveDecoded ==
    ASSUME AliveInv, Resolve
    PROVE  OkMeansDecoded'
<1> USE DEF AliveInv
<1>1. /\ ingress.pc = "end" /\ \A p \in Path : reader[p].pc \in {"off", "done"}
      /\ UNCHANGED <<sent, decoded, blame>>
    BY DEF Resolve
<1>2. ASSUME NEW p \in Path PROVE mux.chan[p].q = <<>>
    <2>1. reader[p].pc = "done" => mux.chan[p].q = <<>>
        BY DEF Streams, StreamInv, ChanInv
    <2>2. ASSUME mux.pend[p].in PROVE FALSE
        <3>1. PICK n : n = mux.pend[p].at
            OBVIOUS
        <3>2. StopsAt(p, n) /\ ~Barred(ChildAt(p, n))
            BY <2>2, <3>1 DEF PendInv
        <3>3. n \in Trie /\ n \in Path /\ Front(ChildAt(p, n)) = n
            BY <3>2, ChildFacts DEF StopsAt, TrieInv
        <3>4. reader[n].pc = "done"
            BY <1>1, <3>3 DEF TrieInv, On
        <3>5. Node(n).sealed
            BY <3>3, <3>4 DEF TrieInv
        <3> QED BY <3>2, <3>3, <3>5 DEF Barred
    <2>3. p \in Trie => reader[p].pc = "done"
        BY <1>1 DEF TrieInv, On
    <2> QED BY <2>1, <2>2, <2>3 DEF PendInv
<1>3. ASSUME NEW p \in Path
      PROVE  /\ decoded[p] = sent[p].n
             /\ ~App /\ p # <<>> /\ Nested(p) => sent[p].elems = reader[p].base
    <2>1. PICK c, r, d, s : c = mux.chan[p] /\ r = reader[p] /\ d = decoded[p] /\ s = sent[p]
        OBVIOUS
    <2>2. StreamInv(p, c, r, d, s, App) /\ c.q = <<>> /\ (r.pc = "off" \/ r.pc = "done")
        BY <1>1, <1>2, <2>1 DEF Streams
    <2>3. d \in Nat /\ s \in SentType /\ FlowInv(p, c, r, d, s, App) /\ EndInv(p, c, r, s, App) /\ r \in ReaderType
        BY <2>2 DEF StreamInv
    <2>4. ~Holding(c, r) /\ Len(c.q) = 0 /\ Tidy(c, r)
        BY <2>2 DEF Holding, Tidy
    <2>5. s.n \in Nat /\ s.elems \in Nat /\ r.base \in Nat
        BY <2>3 DEF SentType, ReaderType
    <2>6. s.n = d
        BY <2>3, <2>4, <2>5 DEF FlowInv, OneIf
    <2>7. ASSUME ~App, p # <<>>, Nested(p) PROVE s.elems = r.base
        <3>1. CASE r.pc = "off"
            BY <2>3, <2>5, <2>6, <3>1 DEF FlowInv
        <3>2. CASE r.pc = "done"
            <4>1. d = r.base + 1
                BY <2>3, <2>7, <3>2 DEF FlowInv
            <4>2. s.n = s.elems + 1
                BY <2>3, <2>4, <2>7, <3>2 DEF EndInv
            <4> QED BY <2>5, <2>6, <4>1, <4>2
        <3> QED BY <2>2, <3>1, <3>2
    <2> QED BY <2>1, <2>6, <2>7
<1>4. ASSUME ~App, NEW p \in Path, Open(p) PROVE FALSE
    <2>1. ~On(p)
        BY <1>1, <1>4, OpenNotDone DEF On
    <2>2. reader[<<>>].pc = "done" /\ p # <<>>
        BY <1>1, <2>1, RootReader, RootPath DEF On
    <2>3. Declared(p) /\ Len(p) \in Nat \ {0}
        BY <1>4, <2>2, OpenDeclared, FrontFacts
    <2>4. CASE Len(p) = 1
        <3>1. PICK c : c = ChildAt(p, <<>>)
            OBVIOUS
        <3>2. p = <<p[1]>>
            BY <2>2, <2>4, <3>1, LengthOne
        <3>3. p[1] \in Params
            BY <2>3, <2>4 DEF Declared, Last
        <3>4. On(<<p[1]>>)
            BY <2>2, <3>3 DEF StartedInv
        <3> QED BY <2>1, <3>2, <3>4
    <2>5. CASE Len(p) # 1
        <3>1. Len(p) > 1
            <4>1. \A k \in Nat \ {0} : k # 1 => k > 1
                OBVIOUS
            <4> QED BY <2>3, <2>5, <4>1
        <3>2. /\ Front(p) \in Path /\ Nested(Front(p)) /\ Len(Front(p)) = Len(p) - 1
            BY <2>2, FrontFacts
        <3>3. Front(p) # <<>>
            BY <3>1, <3>2, <2>3, RootPath
        <3>4. Last(p) < reader[Front(p)].base
            BY <1>3, <1>4, <2>3, <3>1, <3>2, <3>3 DEF Declared
        <3> QED BY <1>4, <2>1, <3>1, <3>4 DEF StartedInv
    <2> QED BY <2>4, <2>5
<1>5. App \/ Complete
    BY <1>4 DEF Complete
<1>6. App' = App /\ Complete' = Complete
    BY <1>1 DEF App, Complete, Open
<1> QED BY <1>1, <1>3, <1>5, <1>6 DEF OkMeansDecoded, App

\* What `finished` means stays true.
LEMMA FinishedKept ==
    ASSUME AliveInv, OkMeansDecoded, DoneInv, Next
    PROVE  OkMeansDecoded' /\ DoneInv'
<1>1. CASE Resolve
    <2>1. OkMeansDecoded'
        BY <1>1, ResolveDecoded
    <2>2. DoneInv'
        BY <1>1 DEF Resolve, DoneInv
    <2> QED BY <2>1, <2>2
<1>2. CASE ~Resolve
    <2>1. finished' = finished
        <3>1. IngressStep => finished' = finished
            BY DEF IngressStep, IngressFrame, IngressRoom, IngressRoute, IngressChunk, IngressEnd, IngressFail
        <3>2. \A p \in Path : ReaderStep(p) => finished' = finished
            BY DEF ReaderStep, ReadTuple, ReadLength, ReadElement, SendElement, ReadEnd, ReadDiscarded, ReadFail
        <3>3. \A p \in Path : Consume(p) \/ Leave(p) => finished' = finished
            BY DEF Consume, Take, Leave, CancelQueue
        <3>4. TxStep => finished' = finished
            BY DEF TxStep, TxClose, TxFail
        <3> QED BY <1>2, <3>1, <3>2, <3>3, <3>4 DEF Next
    <2>2. CASE ~finished
        BY <2>1, <2>2 DEF OkMeansDecoded, DoneInv
    <2>3. CASE finished
        <3>1. ingress.pc = "end" /\ tx = "closed" /\ \A p \in Path : reader[p].pc \in {"off", "done"}
            BY <2>3 DEF DoneInv
        <3>2. ~IngressStep
            BY <3>1 DEF IngressStep, IngressFrame, IngressRoom, IngressRoute, IngressChunk, IngressEnd, IngressFail
        <3>3. ~\E p \in Path : ReaderStep(p)
            BY <3>1, RootPath
            DEF ReaderStep, ReadTuple, ReadLength, ReadElement, SendElement, ReadEnd, ReadDiscarded, ReadFail
        <3>4. ~TxStep
            BY <3>1 DEF TxStep, TxClose, TxFail
        <3>5. PICK p \in Path : Consume(p) \/ Leave(p)
            BY <1>2, <3>2, <3>3, <3>4 DEF Next
        <3>6. UNCHANGED <<reader, ingress, tx, sent, decoded>> /\ blame \subseteq blame'
            BY <3>5 DEF Consume, Leave, Take, CancelQueue
        <3>7. DoneInv'
            BY <3>1, <3>6 DEF DoneInv
        <3>8. Complete' = Complete
            BY <3>6 DEF Complete, Open
        <3> QED BY <2>3, <3>6, <3>7, <3>8 DEF OkMeansDecoded
    <2> QED BY <2>2, <2>3
<1> QED BY <1>1, <1>2

\* ... and is kept by every step.
LEMMA JsMuxNext == JsMuxInv /\ [Next]_vars => JsMuxInv'
<1> SUFFICES ASSUME JsMuxInv, [Next]_vars PROVE JsMuxInv'
    OBVIOUS
<1>1. CASE Next
    <2>1. ~mux.aborted
        BY <1>1 DEF Next, IngressStep, ReaderStep, Consume, Leave, TxStep, Resolve
    <2>2. AliveInv /\ OkMeansDecoded /\ DoneInv
        BY <2>1 DEF JsMuxInv
    <2>3. Kept
        BY <1>1, <2>2, StepKept
    <2>4. OkMeansDecoded' /\ DoneInv'
        BY <1>1, <2>2, FinishedKept
    <2>5. /\ NoBlame' /\ mux'.aborted \in BOOLEAN /\ (mux'.aborted \/ AliveInv')
        BY <2>3 DEF Kept, NoBlame, AliveInv, TypeInv
    <2> QED BY <2>4, <2>5 DEF JsMuxInv
<1>2. CASE UNCHANGED vars
    <2> USE <1>2 DEF vars
    <2>1. /\ Trie' = Trie /\ App' = App
          /\ \A x : On(x)' = On(x) /\ Node(x)' = Node(x) /\ Open(x)' = Open(x) /\ Declared(x)' = Declared(x)
        BY DEF Trie, App, On, Node, Open, Declared
    <2>2. /\ \A x : Barred(x)' = Barred(x) /\ AllDeclared(x)' = AllDeclared(x)
          /\ \A x, n : StopsAt(x, n)' = StopsAt(x, n)
          /\ Complete' = Complete
        BY <2>1 DEF Barred, AllDeclared, StopsAt, Complete
    <2>3. TypeInv' = TypeInv
        BY <2>1 DEF TypeInv
    <2>4. Streams' = Streams
        BY <2>1 DEF Streams
    <2>5. TrieInv' = TrieInv
        BY <2>1, <2>2 DEF TrieInv
    <2>6. PendInv' = PendInv
        BY <2>1, <2>2 DEF PendInv
    <2>7. PassedInv' = PassedInv
        BY <2>1, <2>2 DEF PassedInv
    <2>8. IngressInv' = IngressInv /\ StartedInv' = StartedInv
        BY <2>1, <2>2 DEF IngressInv, StartedInv
    <2>9. CalmInv' = CalmInv
        <3>1. CalmIngress' = CalmIngress
            BY <2>1, <2>2 DEF CalmIngress
        <3> QED BY <2>1, <2>2, <3>1 DEF CalmInv
    <2>10. AliveInv => AliveInv'
        BY <2>3, <2>4, <2>5, <2>6, <2>7, <2>8, <2>9 DEF AliveInv
    <2> QED BY <2>2, <2>10 DEF JsMuxInv, OkMeansDecoded, NoBlame, DoneInv
<1> QED BY <1>1, <1>2

\* For any peer, application, types and limits, `finished` resolves only once
\* all data the peer sent was decoded and every stream it declared was read to
\* its end, or given up by the application: what is buffered for a stream that
\* is not declared yet, moved, discarded or left over is never lost in silence.
THEOREM JsSuccessMeansDecoded == Spec => []OkMeansDecoded
<1>1. JsMuxInv => OkMeansDecoded
    BY DEF JsMuxInv
<1> QED BY <1>1, JsMuxInit, JsMuxNext, PTL DEF Spec

\* For any types and limits, the multiplexer fails an invocation only if the
\* peer, the application or the transport did what makes it fail: data of a
\* stream is expected from the moment the peer declares it to its end, however
\* late the value that declares it is decoded.
THEOREM JsPeerIsNotBlamed == Spec => []NoBlame
<1>1. JsMuxInv => NoBlame
    BY DEF JsMuxInv
<1> QED BY <1>1, JsMuxInit, JsMuxNext, PTL DEF Spec
=============================================================================
