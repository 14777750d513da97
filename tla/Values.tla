------------------------------- MODULE Values -------------------------------
(***************************************************************************)
(* Component values, their types and what the five value codecs of the     *)
(* repository share: bytes, variable length integers, UTF-8, paths and the *)
(* records encoders and decoders return.                                   *)
(*                                                                         *)
(* A type is a record with a kind k.  A value is an integer (bool, number, *)
(* char, enum), a sequence (string, list, tuple, record, flags, handle,    *)
(* the four bytes of a float), <<>> or <<v>> (option), [c, v] (result and  *)
(* variant: the case and its payload).  A future is [rdy, v] and a stream  *)
(* [rdy, cs]: rdy says whether all of it is at hand when it is encoded, cs *)
(* are the chunks in which its elements come.                              *)
(*                                                                         *)
(* An encoder returns [ok, b, d]: the bytes b of the value itself and the  *)
(* deferred writes d, a sequence of <<path, bytes>>.  A decoder returns    *)
(* [st, v, b, ch]: "ok" with the value, "more" when the input ends inside  *)
(* it, "err" when it is rejected; b is the input left over and ch what is  *)
(* left of the nested paths.  The provers cannot use this module: it is    *)
(* for TLC.                                                                *)
(***************************************************************************)
EXTENDS Integers, Sequences, SequencesExt

(* The kinds of types. *)
TBool      == [k |-> "bool"]
TU8        == [k |-> "u8"]
TS8        == [k |-> "s8"]
TU16       == [k |-> "uint", w |-> 16]
TS16       == [k |-> "sint", w |-> 16]
TF32       == [k |-> "float"]
TChar      == [k |-> "char"]
TString    == [k |-> "string"]
TUnit      == [k |-> "unit"]              \* no payload: `result<_, e>`, a bare `future`
TList(e)   == [k |-> "list", e |-> e]
TArr(e, n) == [k |-> "array", e |-> e, n |-> n]
TOpt(e)    == [k |-> "option", e |-> e]
TRes(o, e) == [k |-> "result", es |-> <<o, e>>]
TTup(es)   == [k |-> "tuple", es |-> es]
TRec(es)   == [k |-> "record", es |-> es]
TVar(es)   == [k |-> "variant", es |-> es]
TEnum(n)   == [k |-> "enum", n |-> n]
TFlags(n)  == [k |-> "flags", n |-> n]
TOwn       == [k |-> "own"]
TBorrow    == [k |-> "borrow"]
(* A resource that a guest of the Wasmtime host implements. *)
TGuest     == [k |-> "own", guest |-> TRUE]
IsGuest(t) == "guest" \in DOMAIN t
TFut(e)    == [k |-> "future", e |-> e]
TStream(e) == [k |-> "stream", e |-> e]
(* A `stream<u8>` that is an AsyncRead in Rust, an input-stream of wasi:io in a component. *)
TInput     == [k |-> "stream", e |-> TU8, io |-> TRUE]
IsInput(t) == "io" \in DOMAIN t

(* The bits of a `u32` length, count or discriminant: a bound of the model.  *)
(* As of 32 bits, four are left for the last byte, here the third.           *)
U32Bits == 18

Pow2(n) == 2 ^ n

Ceil(n, m) == (n + m - 1) \div m

(* Concatenation of a sequence of sequences. *)
Cat(ss) == FoldLeft(LAMBDA a, s : a \o s, <<>>, ss)

-----------------------------------------------------------------------------
(* Encoders and decoders. *)

Enc(b, d)  == [ok |-> TRUE, b |-> b, d |-> d]
EncErr     == [ok |-> FALSE, b |-> <<>>, d |-> <<>>]
NoValue    == <<>>
Done(v, b, ch) == [st |-> "ok", v |-> v, b |-> b, ch |-> ch]
More(b, ch)    == [st |-> "more", v |-> NoValue, b |-> b, ch |-> ch]
Err(b, ch)     == [st |-> "err", v |-> NoValue, b |-> b, ch |-> ch]

(* The bytes written to path p, in the order they were written. *)
Written(d, p) == Cat([i \in 1..Len(d) |-> IF d[i][1] = p THEN d[i][2] ELSE <<>>])

PathsOf(d) == {d[i][1] : i \in 1..Len(d)}

(* What a peer can read of each nested path once all of d is delivered;    *)
(* a path nothing was written to ends without data.                        *)
Chan(d) == [p \in PathsOf(d) |-> Written(d, p)]

ChanGet(ch, p) == IF p \in DOMAIN ch THEN ch[p] ELSE <<>>
ChanSet(ch, p, b) == [q \in DOMAIN ch \cup {p} |-> IF q = p THEN b ELSE ch[q]]

(* Take n bytes from b. *)
TakeN(n, b, ch) ==
  IF Len(b) < n THEN More(b, ch)
  ELSE Done(SubSeq(b, 1, n), SubSeq(b, n + 1, Len(b)), ch)

-----------------------------------------------------------------------------
(* Library codecs: LEB128, UTF-8 (external to the repository). *)

RECURSIVE Uleb(_)
Uleb(n) == IF n < 128 THEN <<n>> ELSE <<128 + (n % 128)>> \o Uleb(n \div 128)

RECURSIVE Sleb(_)
Sleb(n) ==
  LET low == n % 128
      rest == (n - low) \div 128
      last == (rest = 0 /\ low < 64) \/ (rest = -1 /\ low >= 64)
  IN  IF last THEN <<low>> ELSE <<128 + low>> \o Sleb(rest)

(* A continuation byte with the low six bits of x, and those bits back. *)
Cont(x) == 128 + (x % 64)

Utf8(c) ==
  IF c < 128 THEN <<c>>
  ELSE IF c < 2048 THEN <<192 + (c \div 64), Cont(c)>>
  ELSE IF c < 65536 THEN <<224 + (c \div 4096), Cont(c \div 64), Cont(c)>>
  ELSE <<240 + (c \div 262144), Cont(c \div 4096), Cont(c \div 64), Cont(c)>>

(* The code point the bytes b have room for; b is valid iff it encodes it. *)
CodePoint(b) ==
  LET lead == CASE Len(b) = 1 -> b[1] [] Len(b) = 2 -> b[1] % 32
                [] Len(b) = 3 -> b[1] % 16 [] OTHER -> b[1] % 8
  IN  FoldLeft(LAMBDA a, x : (64 * a) + (x % 64), lead, Tail(b))

IsScalar(c) == c \in 0..1114111 /\ c \notin 55296..57343

ValidChar(b) == IsScalar(CodePoint(b)) /\ Utf8(CodePoint(b)) = b

(* The length of the UTF-8 sequence a lead byte starts, 0 if it starts none. *)
LeadLen(x) ==
  CASE x < 128 -> 1 [] x \in 192..223 -> 2 [] x \in 224..239 -> 3 [] x \in 240..247 -> 4
    [] OTHER -> 0

(* A string of bytes as code points: <<TRUE, points>>, or <<FALSE, ...>>. *)
RECURSIVE Utf8Points(_)
Utf8Points(b) ==
  IF b = <<>> THEN <<TRUE, <<>>>>
  ELSE LET n == LeadLen(b[1]) IN
       IF n = 0 \/ n > Len(b) THEN <<FALSE, <<>>>>
       ELSE IF ~ValidChar(SubSeq(b, 1, n)) THEN <<FALSE, <<>>>>
       ELSE LET r == Utf8Points(SubSeq(b, n + 1, Len(b)))
            IN  <<r[1], <<CodePoint(SubSeq(b, 1, n))>> \o r[2]>>

Utf8String(s) == Cat([i \in 1..Len(s) |-> Utf8(s[i])])

(* Flags as bytes, least significant bit first, and back. *)
PackBits(v) ==
  [j \in 1..Ceil(Len(v), 8) |->
     FoldLeft(LAMBDA a, i : IF Ceil(i, 8) = j THEN a + (v[i] * Pow2((i - 1) % 8)) ELSE a,
              0, [i \in 1..Len(v) |-> i])]
BitOf(b, i) == (b[Ceil(i, 8)] \div Pow2((i - 1) % 8)) % 2
UnpackBits(n, b) == [i \in 1..n |-> BitOf(b, i)]

(* An `f32` by its little-endian bytes. *)
IsNaN(f) == f[4] % 128 = 127 /\ f[3] >= 128 /\ (f[1] # 0 \/ f[2] # 0 \/ f[3] # 128)
CanonicalNaN == <<0, 0, 192, 127>>

-----------------------------------------------------------------------------
(* What a value says once its readiness and chunks are forgotten. *)

RECURSIVE Plain(_, _)
Plain(t, v) ==
  CASE t.k \in {"list", "array"} -> [i \in 1..Len(v) |-> Plain(t.e, v[i])]
    [] t.k = "option" -> [i \in 1..Len(v) |-> Plain(t.e, v[i])]
    [] t.k \in {"tuple", "record"} -> [i \in 1..Len(t.es) |-> Plain(t.es[i], v[i])]
    [] t.k \in {"result", "variant"} -> [c |-> v.c, v |-> Plain(t.es[v.c + 1], v.v)]
    [] t.k = "future" -> Plain(t.e, v.v)
    [] t.k = "stream" -> [i \in 1..Len(Cat(v.cs)) |-> Plain(t.e, Cat(v.cs)[i])]
    [] t.k = "float" /\ IsNaN(v) -> CanonicalNaN
    [] OTHER -> v

(* The futures and streams a decoder returns: readiness is not observable. *)
FutureOf(v) == [rdy |-> TRUE, v |-> v]
StreamOf(cs) == [rdy |-> TRUE, cs |-> cs]
=============================================================================
