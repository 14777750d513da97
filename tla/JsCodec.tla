------------------------------- MODULE JsCodec -------------------------------
(***************************************************************************)
(* The value codec of JavaScript programs: js/src/value.js, the readers    *)
(* and writers of js/src/io.js it is built from, and the part of           *)
(* js/src/session.js that sends and receives pending values.               *)
(*                                                                         *)
(* A decoder step that runs out of input rewinds and is retried: "more".   *)
(* rp is the path of the reader, p the path of the value (see GoCodec).    *)
(***************************************************************************)
EXTENDS Values

JsThen(r, F(_)) == IF r.st = "ok" THEN F(r) ELSE r

-----------------------------------------------------------------------------
(* io.js: Writer and Reader *)

RECURSIVE JsVarU(_)
JsVarU(n) == IF n >= 128 THEN <<(n % 128) + 128>> \o JsVarU(n \div 128) ELSE <<n>>

RECURSIVE JsVarS(_)
JsVarS(n) ==
  LET byte == n % 128
      rest == n \div 128
  IN  IF (rest = 0 /\ byte < 64) \/ (rest = -1 /\ byte >= 64) THEN <<byte>>
      ELSE <<byte + 128>> \o JsVarS(rest)

(* `TextEncoder` replaces an unpaired surrogate, so a name is always valid. *)
JsScalar(c) == IF IsScalar(c) THEN c ELSE 65533

JsName(s) ==
  LET utf8 == Utf8String([i \in 1..Len(s) |-> JsScalar(s[i])]) IN JsVarU(Len(utf8)) \o utf8

(* The byte at `shift` of an integer of `bits` bits; the range is checked at the end. *)
RECURSIVE JsLeb(_, _, _, _, _, _)
JsLeb(bits, signed, shift, x, b, ch) ==
  IF shift >= bits THEN Err(b, ch)
  ELSE JsThen(TakeN(1, b, ch),
         LAMBDA r :
           LET byte == r.v[1]
               y    == x + ((byte % 128) * Pow2(shift))
               z    == IF signed /\ byte % 128 >= 64 THEN y - Pow2(shift + 7) ELSE y
               lo   == IF signed THEN -Pow2(bits - 1) ELSE 0
               hi   == IF signed THEN Pow2(bits - 1) ELSE Pow2(bits)
           IN  IF byte >= 128 THEN JsLeb(bits, signed, shift + 7, y, r.b, ch)
               ELSE IF z < lo \/ z >= hi THEN Err(r.b, ch)
               ELSE Done(z, r.b, ch))

JsReadVarInt(bits, signed, b, ch) == JsLeb(bits, signed, 0, 0, b, ch)
JsReadVarU32(b, ch) == JsReadVarInt(U32Bits, FALSE, b, ch)

JsReadName(b, ch) ==
  JsThen(JsReadVarU32(b, ch),
    LAMBDA n : JsThen(TakeN(n.v, n.b, ch),
      LAMBDA s : IF Utf8Points(s.v)[1] THEN Done(Utf8Points(s.v)[2], s.b, ch) ELSE Err(s.b, ch)))

-----------------------------------------------------------------------------
(* value.js: decoding *)

JsStatus(b, ch) ==
  JsThen(TakeN(1, b, ch),
         LAMBDA r : IF r.v[1] > 1 THEN Err(r.b, ch) ELSE Done(r.v[1], r.b, ch))

(* The length of a `char` by its first byte; `textDecoder` rejects what it is not. *)
JsCharLen(lead) == IF lead < 128 THEN 1 ELSE IF lead < 224 THEN 2 ELSE IF lead < 240 THEN 3 ELSE 4

JsReadChar(b, ch) ==
  JsThen(TakeN(1, b, ch),
    LAMBDA l : JsThen(TakeN(JsCharLen(l.v[1]), b, ch),
      LAMBDA r : IF Utf8Points(r.v)[1] THEN Done(CodePoint(r.v), r.b, ch) ELSE Err(r.b, ch)))

JsReadFlags(n, b, ch) ==
  JsThen(TakeN(Ceil(n, 8), b, ch),
    LAMBDA r : IF r.v[Len(r.v)] \div Pow2(((n - 1) % 8) + 1) # 0 THEN Err(r.b, ch)
               ELSE Done(UnpackBits(n, r.v), r.b, ch))

JsDecodeScalar(t, b, ch) ==
  CASE t.k = "bool"   -> JsStatus(b, ch)
    [] t.k = "u8"     -> JsThen(TakeN(1, b, ch), LAMBDA r : Done(r.v[1], r.b, ch))
    [] t.k = "s8"     -> JsThen(TakeN(1, b, ch),
                           LAMBDA r : Done(IF r.v[1] >= 128 THEN r.v[1] - 256 ELSE r.v[1], r.b, ch))
    [] t.k = "uint"   -> JsReadVarInt(t.w, FALSE, b, ch)
    [] t.k = "sint"   -> JsReadVarInt(t.w, TRUE, b, ch)
    [] t.k = "float"  -> TakeN(4, b, ch)
    [] t.k = "char"   -> JsReadChar(b, ch)
    [] t.k = "string" -> JsReadName(b, ch)
    [] t.k = "enum"   -> JsThen(JsReadVarU32(b, ch),
                           LAMBDA r : IF r.v < t.n THEN r ELSE Err(r.b, ch))
    [] t.k = "flags"  -> JsReadFlags(t.n, b, ch)
    [] t.k \in {"own", "borrow"} -> JsThen(JsReadVarU32(b, ch), LAMBDA n : TakeN(n.v, n.b, ch))

RECURSIVE JsDecodeSteps(_, _, _, _, _)

(* Elements vs.., n in all, the next at index base + Len(vs) below p. *)
RECURSIVE JsReadElems(_, _, _, _, _, _, _, _)
JsReadElems(e, n, base, vs, rp, p, b, ch) ==
  IF Len(vs) = n THEN Done(vs, b, ch)
  ELSE JsThen(JsDecodeSteps(e, rp, Append(p, base + Len(vs)), b, ch),
              LAMBDA r : JsReadElems(e, n, base, Append(vs, r.v), rp, p, r.b, r.ch))

JsReadChunk(e, n, base, rp, p, b, ch) ==
  IF e = TU8 THEN TakeN(n, b, ch) ELSE JsReadElems(e, n, base, <<>>, rp, p, b, ch)

RECURSIVE JsReadFields(_, _, _, _, _, _)
JsReadFields(es, vs, rp, p, b, ch) ==
  IF Len(vs) = Len(es) THEN Done(vs, b, ch)
  ELSE JsThen(JsDecodeSteps(es[Len(vs) + 1], rp, Append(p, Len(vs)), b, ch),
              LAMBDA r : JsReadFields(es, Append(vs, r.v), rp, p, r.b, r.ch))

(* A payload, absent (`null`) for TUnit, on the path of its value. *)
JsReadPayload(t, rp, p, b, ch) ==
  IF t = TUnit THEN Done(NoValue, b, ch) ELSE JsDecodeSteps(t, rp, p, b, ch)

JsReadCase(es, c, rp, p, b, ch) ==
  IF c >= Len(es) THEN Err(b, ch)
  ELSE JsThen(JsReadPayload(es[c + 1], rp, p, b, ch),
              LAMBDA r : Done([c |-> c, v |-> r.v], r.b, r.ch))

-----------------------------------------------------------------------------
(* session.js: receiving pending values *)

(* `ar ?? mux.incoming(path)`: a value on its reader's own path continues on it. *)
JsIncoming(rp, p, b, ch) == IF p = rp THEN b ELSE ChanGet(ch, p)

(* mux.finish: data left over on the path of a received value fails the session. *)
JsFinish(v, rp, p, b, q, ch) ==
  IF q # <<>> THEN Err(b, ch)
  ELSE IF p = rp THEN Done(v, <<>>, ch) ELSE Done(v, b, ChanSet(ch, p, <<>>))

JsReadFuture(e, rp, p, b, ch) ==
  LET q == JsIncoming(rp, p, b, ch)
      r == IF e = TUnit THEN Done(NoValue, q, ch) ELSE JsDecodeSteps(e, p, p, q, ch)
  IN  JsThen(r, LAMBDA x : JsFinish(FutureOf(x.v), rp, p, b, x.b, x.ch))

RECURSIVE JsReadChunks(_, _, _, _, _, _)
JsReadChunks(e, base, cs, p, b, ch) ==
  JsThen(JsReadVarU32(b, ch),
    LAMBDA n : IF n.v = 0 THEN Done(cs, n.b, ch)
               ELSE JsThen(JsReadChunk(e, n.v, base, p, p, n.b, ch),
                           LAMBDA r : JsReadChunks(e, base + n.v, Append(cs, r.v), p, r.b, r.ch)))

JsReadStream(e, rp, p, b, ch) ==
  JsThen(JsReadChunks(e, 0, <<>>, p, JsIncoming(rp, p, b, ch), ch),
         LAMBDA r : JsFinish(StreamOf(r.v), rp, p, b, r.b, r.ch))

JsReadInline(e, rp, p, b, ch) ==
  JsThen(JsReadVarU32(b, ch),
    LAMBDA n : JsThen(JsReadChunk(e, n.v, 0, rp, p, n.b, ch),
      LAMBDA r : Done(StreamOf(IF n.v > 0 THEN <<r.v>> ELSE <<>>), r.b, r.ch)))

JsDecodeSteps(t, rp, p, b, ch) ==
  CASE t.k = "list"   -> JsThen(JsReadVarU32(b, ch),
                           LAMBDA n : JsReadChunk(t.e, n.v, 0, rp, p, n.b, ch))
    [] t.k \in {"tuple", "record"} -> JsReadFields(t.es, <<>>, rp, p, b, ch)
    [] t.k = "option" -> JsThen(JsStatus(b, ch),
                           LAMBDA s : IF s.v = 0 THEN Done(<<>>, s.b, ch)
                                      ELSE JsThen(JsDecodeSteps(t.e, rp, p, s.b, ch),
                                                  LAMBDA r : Done(<<r.v>>, r.b, r.ch)))
    [] t.k = "result" -> JsThen(JsStatus(b, ch), LAMBDA s : JsReadCase(t.es, s.v, rp, p, s.b, ch))
    [] t.k = "variant" -> JsThen(JsReadVarU32(b, ch),
                            LAMBDA s : JsReadCase(t.es, s.v, rp, p, s.b, ch))
    [] t.k = "future" -> JsThen(JsStatus(b, ch),
                           LAMBDA s : IF s.v = 0 THEN JsReadFuture(t.e, rp, p, s.b, ch)
                                      ELSE JsThen(JsReadPayload(t.e, rp, p, s.b, ch),
                                                  LAMBDA r : Done(FutureOf(r.v), r.b, r.ch)))
    [] t.k = "stream" -> JsThen(JsStatus(b, ch),
                           LAMBDA s : IF s.v = 0 THEN JsReadStream(t.e, rp, p, s.b, ch)
                                      ELSE JsReadInline(t.e, rp, p, s.b, ch))
    [] t.k = "unit"   -> Done(NoValue, b, ch)
    [] OTHER -> JsDecodeScalar(t, b, ch)

-----------------------------------------------------------------------------
(* value.js: encoding, session.js: sending pending values *)

(* The bytes `head` followed by the parts es, with all their sinks. *)
JsParts(head, es) ==
  IF \E i \in 1..Len(es) : ~es[i].ok THEN EncErr
  ELSE Enc(head \o Cat([i \in 1..Len(es) |-> es[i].b]), Cat([i \in 1..Len(es) |-> es[i].d]))

JsFlags(v) == PackBits(v)

RECURSIVE JsEncodeValue(_, _, _)

JsEncodeElems(e, vs, base, p) ==
  [i \in 1..Len(vs) |-> JsEncodeValue(e, vs[i], Append(p, base + i - 1))]

JsWriteFuture(e, v, p) ==
  LET x == IF e = TUnit THEN Enc(<<>>, <<>>) ELSE JsEncodeValue(e, v.v, p)
  IN  IF x.ok THEN Enc(<<0>>, <<<<p, x.b>>>> \o x.d) ELSE EncErr

(* An empty chunk would end the stream: it is not written. *)
JsWriteChunk(e, c, base, p) ==
  IF c = <<>> THEN Enc(<<>>, <<>>)
  ELSE IF e = TU8 THEN Enc(JsVarU(Len(c)) \o c, <<>>)
  ELSE JsParts(JsVarU(Len(c)), JsEncodeElems(e, c, base, p))

RECURSIVE JsWriteChunks(_, _, _, _)
JsWriteChunks(e, cs, base, p) ==
  IF cs = <<>> THEN Enc(JsVarU(0), <<>>)
  ELSE JsParts(<<>>, <<JsWriteChunk(e, Head(cs), base, p),
                       JsWriteChunks(e, Tail(cs), base + Len(Head(cs)), p)>>)

JsWriteStream(e, v, p) ==
  LET x == JsWriteChunks(e, v.cs, 0, p)
  IN  IF x.ok THEN Enc(<<0>>, <<<<p, x.b>>>> \o x.d) ELSE EncErr

JsEncodeScalar(t, v) ==
  CASE t.k = "bool"   -> Enc(<<v>>, <<>>)
    [] t.k \in {"u8", "s8"} -> Enc(<<v % 256>>, <<>>)
    [] t.k = "uint"   -> Enc(JsVarU(v), <<>>)
    [] t.k = "sint"   -> Enc(JsVarS(v), <<>>)
    [] t.k = "float"  -> Enc(IF IsNaN(v) THEN CanonicalNaN ELSE v, <<>>)
    [] t.k = "char"   -> IF IsScalar(v) THEN Enc(Utf8(v), <<>>) ELSE EncErr
    [] t.k = "string" -> Enc(JsName(v), <<>>)

JsEncodeList(e, v, p) ==
  IF e = TU8 THEN Enc(JsVarU(Len(v)) \o v, <<>>)
  ELSE JsParts(JsVarU(Len(v)), JsEncodeElems(e, v, 0, p))

JsEncodeFields(es, v, p) ==
  JsParts(<<>>, [i \in 1..Len(es) |-> JsEncodeValue(es[i], v[i], Append(p, i - 1))])

JsEncodeValue(t, v, p) ==
  CASE t.k \in {"own", "borrow"} -> JsEncodeList(TU8, v, p)
    [] t.k = "list"   -> JsEncodeList(t.e, v, p)
    [] t.k \in {"tuple", "record"} -> JsEncodeFields(t.es, v, p)
    [] t.k = "option" -> IF v = <<>> THEN Enc(<<0>>, <<>>)
                         ELSE JsParts(<<1>>, <<JsEncodeValue(t.e, v[1], p)>>)
    [] t.k = "result" -> JsParts(<<v.c>>, <<JsEncodeValue(t.es[v.c + 1], v.v, p)>>)
    [] t.k = "variant" -> JsParts(JsVarU(v.c), <<JsEncodeValue(t.es[v.c + 1], v.v, p)>>)
    [] t.k = "enum"   -> Enc(JsVarU(v), <<>>)
    [] t.k = "flags"  -> Enc(JsFlags(v), <<>>)
    [] t.k = "unit"   -> Enc(<<>>, <<>>)
    [] t.k = "future" -> JsWriteFuture(t.e, v, p)
    [] t.k = "stream" -> JsWriteStream(t.e, v, p)
    [] OTHER -> JsEncodeScalar(t, v)

-----------------------------------------------------------------------------
(* The paths a session accepts data on before they are declared: mux.restrict. *)

RECURSIVE AsyncDepth(_)

(* The deepest of the types es, each one index below its parent. *)
AsyncIndexed(es) ==
  Max({-1} \cup {AsyncDepth(es[i]) + 1 : i \in {j \in 1..Len(es) : AsyncDepth(es[j]) >= 0}})

AsyncNested(es) == Max({-1} \cup {AsyncDepth(es[i]) : i \in 1..Len(es)})

AsyncDepth(t) ==
  CASE t.k = "future" -> Max({0, AsyncDepth(t.e)})
    [] t.k = "stream" -> Max({0, AsyncIndexed(<<t.e>>)})
    [] t.k = "list"   -> AsyncIndexed(<<t.e>>)
    [] t.k = "option" -> AsyncDepth(t.e)
    [] t.k \in {"result", "variant"} -> AsyncNested(t.es)
    [] t.k \in {"tuple", "record"} -> AsyncIndexed(t.es)
    [] OTHER -> -1

HasAsync(t) == AsyncDepth(t) >= 0

(* The depth restrict declares for root values of the types ts. *)
JsDepth(ts) == Max({0} \cup {AsyncDepth(ts[i]) + 1 : i \in 1..Len(ts)})

(* restrict: data on q below root values of the types ts is let in. *)
JsAdmits(ts, q) ==
  /\ q # <<>>
  /\ q[1] + 1 \in {i \in 1..Len(ts) : HasAsync(ts[i])}
  /\ Len(q) <= JsDepth(ts)
=============================================================================
