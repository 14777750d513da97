------------------------------ MODULE RustCodec ------------------------------
(***************************************************************************)
(* The value codec of Rust programs: crates/transport/src/value.rs and the *)
(* encoders and decoders the Rust binding generator prints for records,    *)
(* variants, enums and flags (crates/wit-bindgen-rust/src/interface.rs).   *)
(*                                                                         *)
(* A Rust decoder is called again whenever more input has arrived and goes *)
(* on where it stopped, so its state is explicit:                          *)
(*   n    the length, status or discriminant already read, -1 before       *)
(*   ret  the elements, fields or bytes decoded so far                     *)
(*   def  their deferred functions                                         *)
(*   sub  <<the state of the decoder of the part being decoded>>, or <<>>  *)
(* A deferred function is data: none, the receiver of a pending future or  *)
(* stream, or functions to run on the indices below.                       *)
(***************************************************************************)
EXTENDS Values

Idle == [n |-> -1, ret |-> <<>>, def |-> <<>>, sub |-> <<>>]

NoDeferred  == [k |-> "none", fs |-> <<>>]
Receiver(k) == [k |-> k, fs |-> <<>>]
(* take_deferred of a list, a tuple or a record: none if all its parts have none. *)
IndexDeferred(fs) ==
  IF \A i \in 1..Len(fs) : fs[i] = NoDeferred THEN NoDeferred ELSE [k |-> "index", fs |-> fs]

(* What a call of decode returns: a value, or the state to go on from. *)
Item(v, b, d)    == [st |-> "ok", v |-> v, b |-> b, d |-> d, s |-> Idle]
Partial(s, b)    == [st |-> "more", v |-> NoValue, b |-> b, d |-> NoDeferred, s |-> s]
Rejected(b)      == [st |-> "err", v |-> NoValue, b |-> b, d |-> NoDeferred, s |-> Idle]

Sub(s) == IF s.sub = <<>> THEN Idle ELSE s.sub[1]

-----------------------------------------------------------------------------
(* Library decoders (wasm-tokio), external to the repository *)

RECURSIVE LebAt(_, _, _, _, _)
(* The number of w bits in b from its i-th byte on: nothing is consumed before its end. *)
LebAt(w, signed, i, x, b) ==
  IF 7 * (i - 1) >= w THEN Rejected(b)
  ELSE IF i > Len(b) THEN Partial(Idle, b)
  ELSE LET low == b[i] % 128
           y   == x + (low * Pow2(7 * (i - 1)))
           z   == IF signed /\ low >= 64 THEN y - Pow2(7 * i) ELSE y
           lo  == IF signed THEN -Pow2(w - 1) ELSE 0
           hi  == IF signed THEN Pow2(w - 1) ELSE Pow2(w)
       IN  IF b[i] >= 128 THEN LebAt(w, signed, i + 1, y, b)
           ELSE IF z < lo \/ z >= hi THEN Rejected(b)
           ELSE Item(z, SubSeq(b, i + 1, Len(b)), NoDeferred)

Leb128Decoder(w, signed, b) == LebAt(w, signed, 1, 0, b)
Leb128DecoderU32(b) == Leb128Decoder(U32Bits, FALSE, b)

(* A fixed number of bytes, mapped by F if they pass the test P. *)
FixedCodec(n, b, P(_), F(_)) ==
  IF Len(b) < n THEN Partial(Idle, b)
  ELSE IF P(SubSeq(b, 1, n)) THEN Item(F(SubSeq(b, 1, n)), SubSeq(b, n + 1, Len(b)), NoDeferred)
  ELSE Rejected(b)

Utf8Codec(b) ==
  IF b = <<>> THEN Partial(Idle, b)
  ELSE IF LeadLen(b[1]) = 0 THEN Rejected(b)
  ELSE FixedCodec(LeadLen(b[1]), b, ValidChar, CodePoint)

(* The bytes a length l counts; the length is kept when they are not there yet. *)
CoreVecBytes(l) ==
  IF l.st # "ok" THEN l
  ELSE IF Len(l.b) < l.v THEN Partial([Idle EXCEPT !.n = l.v], l.b)
  ELSE Item(SubSeq(l.b, 1, l.v), SubSeq(l.b, l.v + 1, Len(l.b)), NoDeferred)

CoreVecDecoderBytes(s, b) ==
  CoreVecBytes(IF s.n >= 0 THEN Item(s.n, b, NoDeferred) ELSE Leb128DecoderU32(b))

CoreName(r) ==
  IF r.st # "ok" THEN r
  ELSE IF Utf8Points(r.v)[1] THEN Item(Utf8Points(r.v)[2], r.b, NoDeferred) ELSE Rejected(r.b)

CoreNameDecoder(s, b) == CoreName(CoreVecDecoderBytes(s, b))

-----------------------------------------------------------------------------
(* value.rs and the generated decoders *)

RECURSIVE RustDecode(_, _, _)

(* The state s of a decoder of several parts after its next part, r, is decoded. *)
Push(s, r) == [s EXCEPT !.ret = Append(@, r.v), !.def = Append(@, r.d), !.sub = <<>>]
Stay(s, r) == Partial([s EXCEPT !.sub = <<r.s>>], r.b)

(* The n elements of a list; on an error all that was decoded is forgotten. *)
RECURSIVE ListDecoderElems(_, _, _)
ListDecoderNext(e, s, r) ==
  CASE r.st = "more" -> Stay(s, r)
    [] r.st = "err" -> r
    [] OTHER -> ListDecoderElems(e, [Push(s, r) EXCEPT !.n = @ - 1], r.b)

ListDecoderElems(e, s, b) ==
  IF s.n = 0 THEN Item(s.ret, b, IndexDeferred(s.def))
  ELSE ListDecoderNext(e, s, RustDecode(e, Sub(s), b))

ListDecoderLen(e, l) == IF l.st # "ok" THEN l ELSE ListDecoderElems(e, [Idle EXCEPT !.n = l.v], l.b)

ListDecoder(e, s, b) ==
  IF s.n >= 0 THEN ListDecoderElems(e, s, b) ELSE ListDecoderLen(e, Leb128DecoderU32(b))

RustListDecoder(e, s, b) == IF e = TU8 THEN CoreVecDecoderBytes(s, b) ELSE ListDecoder(e, s, b)

(* Fields in order, each at its index: tuples and generated record decoders. *)
RECURSIVE RecordDecoder(_, _, _)
RecordDecoderNext(es, s, r) ==
  CASE r.st = "more" -> Stay(s, r)
    [] r.st = "err" -> r
    [] OTHER -> RecordDecoder(es, Push(s, r), r.b)

RecordDecoder(es, s, b) ==
  IF Len(s.ret) = Len(es) THEN Item(s.ret, b, IndexDeferred(s.def))
  ELSE RecordDecoderNext(es, s, RustDecode(es[Len(s.ret) + 1], Sub(s), b))

TupleDecoder(es, s, b) == RecordDecoder(es, s, b)

(* `list<e, n>`: n elements without a length; on an error all of them are forgotten. *)
RECURSIVE ArrayDecoder(_, _, _, _)
ArrayDecoderNext(e, n, s, r) ==
  CASE r.st = "more" -> Stay(s, r)
    [] r.st = "err" -> r
    [] OTHER -> ArrayDecoder(e, n, Push(s, r), r.b)

ArrayDecoder(e, n, s, b) ==
  IF Len(s.ret) = n THEN Item(s.ret, b, IndexDeferred(s.def))
  ELSE ArrayDecoderNext(e, n, s, RustDecode(e, Sub(s), b))

(* ResourceOwnDecoder, ResourceBorrowDecoder: a handle is opaque bytes. *)
ResourceDecoder(s, b) == CoreVecDecoderBytes(s, b)

(* The payload e behind a tag; the tag is kept while the payload is incomplete. *)
PayloadDecoder(e, tag, F(_), s, b) ==
  LET r == RustDecode(e, Sub(s), b)
  IN  CASE r.st = "more" -> Partial([Idle EXCEPT !.n = tag, !.sub = <<r.s>>], r.b)
        [] r.st = "err" -> r
        [] OTHER -> Item(F(r.v), r.b, r.d)

StatusDecoder(s, b) ==
  IF s.n >= 0 THEN Item(s.n, b, NoDeferred)
  ELSE FixedCodec(1, b, LAMBDA x : x[1] \in {0, 1}, LAMBDA x : x[1])

OptionDecoder(e, s, b) ==
  LET t == StatusDecoder(s, b)
  IN  IF t.st # "ok" THEN t
      ELSE IF t.v = 0 THEN Item(<<>>, t.b, NoDeferred)
      ELSE PayloadDecoder(e, 1, LAMBDA v : <<v>>, s, t.b)

ResultDecoder(es, s, b) ==
  LET t == StatusDecoder(s, b)
  IN  IF t.st # "ok" THEN t
      ELSE PayloadDecoder(es[t.v + 1], t.v, LAMBDA v : [c |-> t.v, v |-> v], s, t.b)

VariantDecoder(es, s, b) ==
  LET t == IF s.n >= 0 THEN Item(s.n, b, NoDeferred) ELSE Leb128DecoderU32(b)
  IN  IF t.st # "ok" THEN t
      ELSE IF t.v >= Len(es) THEN Rejected(t.b)
      ELSE PayloadDecoder(es[t.v + 1], t.v, LAMBDA v : [c |-> t.v, v |-> v], s, t.b)

EnumDecoder(n, b) ==
  LET t == Leb128DecoderU32(b) IN IF t.st = "ok" /\ t.v >= n THEN Rejected(t.b) ELSE t

(* from_bits: a bit that is no flag is rejected. *)
FlagsDecoder(n, b) ==
  FixedCodec(Ceil(n, 8), b,
    LAMBDA x : \A i \in (n + 1)..(8 * Len(x)) : BitOf(x, i) = 0, LAMBDA x : UnpackBits(n, x))

(* A pending future or stream is returned with a receiver that fills it. *)
Pending(k) == [rdy |-> FALSE, v |-> k, cs |-> <<>>]

FutureDecoder(e, s, b) ==
  LET t == StatusDecoder(s, b)
  IN  IF t.st # "ok" THEN t
      ELSE IF t.v = 0 THEN Item(Pending("future"), t.b, Receiver("future"))
      ELSE PayloadDecoder(e, 1, FutureOf, s, t.b)

(* Also StreamDecoderBytes and StreamDecoderRead, whose chunks are byte lists. *)
StreamDecoder(e, s, b) ==
  LET t == StatusDecoder(s, b)
  IN  IF t.st # "ok" THEN t
      ELSE IF t.v = 0 THEN Item(Pending("stream"), t.b, Receiver("stream"))
      ELSE PayloadDecoder(TList(e), 1, LAMBDA c : StreamOf(IF c = <<>> THEN <<>> ELSE <<c>>), s, t.b)

Byte(x) == x[1]
AnyBytes(x) == TRUE

RustDecode(t, s, b) ==
  CASE t.k = "bool"    -> StatusDecoder(Idle, b)
    [] t.k = "u8"      -> FixedCodec(1, b, AnyBytes, Byte)
    [] t.k = "s8"      -> FixedCodec(1, b, AnyBytes, LAMBDA x : IF x[1] > 127 THEN x[1] - 256 ELSE x[1])
    [] t.k = "uint"    -> Leb128Decoder(t.w, FALSE, b)
    [] t.k = "sint"    -> Leb128Decoder(t.w, TRUE, b)
    [] t.k = "float"   -> FixedCodec(4, b, AnyBytes, LAMBDA x : x)
    [] t.k = "char"    -> Utf8Codec(b)
    [] t.k = "string"  -> CoreNameDecoder(s, b)
    [] t.k = "unit"    -> Item(NoValue, b, NoDeferred)
    [] t.k \in {"own", "borrow"} -> ResourceDecoder(s, b)
    [] t.k = "list"    -> RustListDecoder(t.e, s, b)
    [] t.k = "array"   -> ArrayDecoder(t.e, t.n, s, b)
    [] t.k = "option"  -> OptionDecoder(t.e, s, b)
    [] t.k = "result"  -> ResultDecoder(t.es, s, b)
    [] t.k = "tuple"   -> TupleDecoder(t.es, s, b)
    [] t.k = "record"  -> RecordDecoder(t.es, s, b)
    [] t.k = "variant" -> VariantDecoder(t.es, s, b)
    [] t.k = "enum"    -> EnumDecoder(t.n, b)
    [] t.k = "flags"   -> FlagsDecoder(t.n, b)
    [] t.k = "future"  -> FutureDecoder(t.e, s, b)
    [] t.k = "stream"  -> StreamDecoder(t.e, s, b)

-----------------------------------------------------------------------------
(* Running the deferred function d of the value v: pending parts are read from *)
(* the reader of path p, which has b left, and from the paths below it (ch).   *)
(* Returned: the completed value, what is left of b and of ch.                 *)

Same(e, n) == [i \in 1..n |-> e]

RECURSIVE RustReceive(_, _, _, _, _, _)

(* handle_deferred: the function fs[i] of part i, if any, runs on the reader *)
(* indexed by i, which keeps what it leaves unread.                          *)
RECURSIVE ReceiveParts(_, _, _, _, _, _, _)
ReceiveParts(ts, vs, fs, i, p, b, ch) ==
  IF i > Len(vs) THEN Done(vs, b, ch)
  ELSE IF fs[i] = NoDeferred THEN ReceiveParts(ts, vs, fs, i + 1, p, b, ch)
  ELSE LET q == Append(p, i - 1)
           r == RustReceive(ts[i], vs[i], fs[i], q, ChanGet(ch, q), ch)
       IN  IF r.st # "ok" THEN r
           ELSE ReceiveParts(ts, [vs EXCEPT ![i] = r.v], fs, i + 1, p, b, ChanSet(r.ch, q, r.b))

(* decode one item r from what is left of the reader; the end of input is an error. *)
Resolve(x) == IF x.st = "ok" THEN Done(FutureOf(x.v), x.b, x.ch) ELSE x

ReceiveItem(e, r, p, ch) ==
  IF r.st # "ok" THEN [Err(r.b, ch) EXCEPT !.st = r.st]
  ELSE IF r.d = NoDeferred /\ r.b # <<>> THEN Err(r.b, ch)
  ELSE Resolve(RustReceive(e, r.v, r.d, p, r.b, ch))

ReceiveFuture(e, p, b, ch) == ReceiveItem(e, RustDecode(e, Idle, b), p, ch)

(* handle_deferred_stream: chunks from element total on, ended by an empty one, *)
(* after which no data may follow; the tasks of a chunk start once it is read.  *)
RECURSIVE ReceiveStream(_, _, _, _, _, _)

(* The elements after the first total of x are sent to the reader of the stream. *)
SendChunk(e, total, cs, p, x) ==
  IF x.st # "ok" THEN x
  ELSE ReceiveStream(e, Len(x.v), Append(cs, SubSeq(x.v, total + 1, Len(x.v))), p, x.b, x.ch)

ReceiveChunk(e, total, cs, p, r, ch) ==
  LET none == [i \in 1..total |-> NoDeferred]
      pad  == [i \in 1..total |-> NoValue]
  IN  CASE r.st # "ok" -> [Err(r.b, ch) EXCEPT !.st = r.st]
        [] r.st = "ok" /\ r.v = <<>> ->
             IF r.b = <<>> THEN Done(StreamOf(cs), <<>>, ch) ELSE Err(r.b, ch)
        [] OTHER -> SendChunk(e, total, cs, p,
             IF r.d = NoDeferred THEN Done(pad \o r.v, r.b, ch)
             ELSE ReceiveParts(Same(e, total + Len(r.v)), pad \o r.v, none \o r.d.fs,
                               total + 1, p, r.b, ch))

ReceiveStream(e, total, cs, p, b, ch) ==
  ReceiveChunk(e, total, cs, p, RustListDecoder(e, Idle, b), ch)

(* The deferred function of StreamDecoderBytes and StreamDecoderRead. *)
RECURSIVE ReceiveStreamBytes(_, _, _)
ReceiveStreamBytes(cs, b, ch) ==
  LET r == CoreVecDecoderBytes(Idle, b)
  IN  IF r.st # "ok" THEN [Err(b, ch) EXCEPT !.st = r.st]
      ELSE IF r.v = <<>> THEN IF r.b = <<>> THEN Done(StreamOf(cs), <<>>, ch) ELSE Err(r.b, ch)
      ELSE ReceiveStreamBytes(Append(cs, r.v), r.b, ch)

(* The deferred functions of the fields of a record or tuple, run side by side. *)
ReceiveFields(es, v, fs, p, b, ch) == ReceiveParts(es, v, fs, 1, p, b, ch)

RustReceive(t, v, d, p, b, ch) ==
  LET Inner(e, x, F(_)) == LET r == RustReceive(e, x, d, p, b, ch)
                           IN  IF r.st = "ok" THEN Done(F(r.v), r.b, r.ch) ELSE r
  IN  CASE d = NoDeferred -> Done(v, b, ch)
        [] t.k \in {"list", "array"} -> ReceiveParts(Same(t.e, Len(v)), v, d.fs, 1, p, b, ch)
        [] t.k \in {"tuple", "record"} -> ReceiveFields(t.es, v, d.fs, p, b, ch)
        [] t.k = "option" -> Inner(t.e, v[1], LAMBDA x : <<x>>)
        [] t.k \in {"result", "variant"} -> Inner(t.es[v.c + 1], v.v, LAMBDA x : [c |-> v.c, v |-> x])
        [] t.k = "future" /\ v.rdy -> Inner(t.e, v.v, FutureOf)
        [] t.k = "future" -> ReceiveFuture(t.e, p, b, ch)
        [] t.k = "stream" /\ v.rdy -> Inner(TList(t.e), v.cs[1], LAMBDA x : StreamOf(<<x>>))
        [] t.k = "stream" /\ t.e = TU8 -> ReceiveStreamBytes(<<>>, b, ch)
        [] t.k = "stream" -> ReceiveStream(t.e, 0, <<>>, p, b, ch)

-----------------------------------------------------------------------------
(* Encoding: bytes and the deferred writes, on the path p of the value *)

(* The parts es after the bytes head, the deferred writes of each on its own path. *)
EncodeParts(head, es) ==
  IF \E i \in 1..Len(es) : ~es[i].ok THEN EncErr
  ELSE Enc(head \o Cat([i \in 1..Len(es) |-> es[i].b]), Cat([i \in 1..Len(es) |-> es[i].d]))

RECURSIVE RustEncode(_, _, _)

(* encode_iter_*: item i defers its writes to index i (handle_deferred). *)
EncodeIter(e, base, vs, p) ==
  [i \in 1..Len(vs) |-> RustEncode(e, vs[i], Append(p, base + i - 1))]

ListEncoder(e, v, p) == EncodeParts(Uleb(Len(v)), EncodeIter(e, 0, v, p))
ArrayEncoder(e, v, p) == EncodeParts(<<>>, EncodeIter(e, 0, v, p))
CoreVecEncoderBytes(v) == Enc(Uleb(Len(v)) \o v, <<>>)
ResourceEncoder(v) == CoreVecEncoderBytes(v)
RustListEncoder(e, v, p) == IF e = TU8 THEN CoreVecEncoderBytes(v) ELSE ListEncoder(e, v, p)

Utf8BytesEncoder(v) == LET u == Utf8String(v) IN Enc(Uleb(Len(u)) \o u, <<>>)

RecordEncoder(es, v, p) ==
  EncodeParts(<<>>, [i \in 1..Len(es) |-> RustEncode(es[i], v[i], Append(p, i - 1))])
TupleEncoder(es, v, p) ==
  EncodeParts(<<>>, [i \in 1..Len(es) |-> RustEncode(es[i], v[i], Append(p, i - 1))])

OptionEncoder(e, v, p) ==
  IF v = <<>> THEN Enc(<<0>>, <<>>) ELSE EncodeParts(<<1>>, <<RustEncode(e, v[1], p)>>)
ResultEncoder(es, v, p) == EncodeParts(<<v.c>>, <<RustEncode(es[v.c + 1], v.v, p)>>)
VariantEncoder(es, v, p) == EncodeParts(Uleb(v.c), <<RustEncode(es[v.c + 1], v.v, p)>>)
EnumEncoder(v) == Enc(Uleb(v), <<>>)

FlagsEncoder(v) == Enc(PackBits(v), <<>>)

(* write_future: the value on the path of the future, then what it defers on the same path. *)
WriteFuture(e, v, p) ==
  LET x == RustEncode(e, v, p) IN IF x.ok THEN <<<<p, x.b>>>> \o x.d ELSE <<>>

FutureEncoder(e, v, p) ==
  IF v.rdy THEN EncodeParts(<<1>>, <<RustEncode(e, v.v, p)>>) ELSE Enc(<<0>>, WriteFuture(e, v.v, p))

(* Faulty variant: the indices of every chunk start at the same element *)
RECURSIVE WriteStreamSameIndex(_, _, _, _)
WriteStreamSameIndex(e, i, cs, p) ==
  IF cs = <<>> THEN Enc(<<0>>, <<>>)
  ELSE LET c == Head(cs)
           chunk == IF c = <<>> THEN Enc(<<>>, <<>>)
                    ELSE EncodeParts(Uleb(Len(c)), EncodeIter(e, i, c, p))
       IN  EncodeParts(<<>>, <<chunk, WriteStreamSameIndex(e, i, Tail(cs), p)>>)

(* write_stream: chunks from element i on, empty ones skipped, ended by an empty chunk. *)
RECURSIVE WriteStream(_, _, _, _)
WriteStream(e, i, cs, p) ==
  IF cs = <<>> THEN Enc(<<0>>, <<>>)
  ELSE LET c == Head(cs)
           chunk == IF c = <<>> THEN Enc(<<>>, <<>>)
                    ELSE EncodeParts(Uleb(Len(c)), EncodeIter(e, i, c, p))
       IN  EncodeParts(<<>>, <<chunk, WriteStream(e, i + Len(c), Tail(cs), p)>>)

(* write_stream_bytes *)
WriteStreamBytes(cs) ==
  LET full == SelectSeq(cs, LAMBDA c : c # <<>>)
  IN  Enc(Cat([i \in 1..Len(full) |-> Uleb(Len(full[i])) \o full[i]]) \o <<0>>, <<>>)

(* A stream that is all there is sent as a list; one that is not is announced *)
(* and its chunks, the ready ones first, are written on its path.             *)
StreamEncoder(e, v, p) ==
  IF v.rdy THEN EncodeParts(<<1>>, <<ListEncoder(e, Cat(v.cs), p)>>)
  ELSE LET x == WriteStream(e, 0, v.cs, p) IN Enc(<<0>>, <<<<p, x.b>>>> \o x.d)

StreamEncoderBytes(v, p) ==
  IF v.rdy THEN Enc(<<1>> \o Uleb(Len(Cat(v.cs))) \o Cat(v.cs), <<>>)
  ELSE Enc(<<0>>, <<<<p, WriteStreamBytes(v.cs).b>>>>)

(* write_stream_read: the ready bytes, if there are any, are a chunk of their own. *)
WriteStreamRead(ready, rest) == WriteStreamBytes(<<ready, rest>>)

(* StreamEncoderRead: at most maxReady bytes are read at once (0: no limit).  All of a *)
(* ready reader, or its first chunk, can be; its end is seen only before the limit.    *)
StreamEncoderRead(v, maxReady, p) ==
  LET all   == Cat(v.cs)
      avail == IF v.rdy THEN Len(all) ELSE IF v.cs = <<>> THEN 0 ELSE Len(v.cs[1])
      n     == IF maxReady = 0 THEN avail ELSE Min({avail, maxReady})
      ready == SubSeq(all, 1, n)
      rest  == SubSeq(all, n + 1, Len(all))
  IN  IF v.rdy /\ (maxReady = 0 \/ n < maxReady) THEN Enc(<<1>> \o Uleb(n) \o ready, <<>>)
      ELSE Enc(<<0>>, <<<<p, WriteStreamRead(ready, rest).b>>>>)

(* The values that are copied defer nothing, one by one or in a list. *)
CopyKinds == {"bool", "u8", "s8", "uint", "sint", "float", "char"}
CopyEncoder(t, v) ==
  Enc(CASE t.k \in {"bool", "u8"} -> <<v>>
        [] t.k = "s8"    -> <<v % 256>>
        [] t.k = "uint"  -> Uleb(v)
        [] t.k = "sint"  -> Sleb(v)
        [] t.k = "float" -> v
        [] t.k = "char"  -> Utf8(v), <<>>)
UnitEncoder == Enc(<<>>, <<>>)

RustEncode(t, v, p) ==
  CASE t.k \in CopyKinds -> CopyEncoder(t, v)
    [] t.k = "string"  -> Utf8BytesEncoder(v)
    [] t.k = "unit"    -> UnitEncoder
    [] t.k \in {"own", "borrow"} -> ResourceEncoder(v)
    [] t.k = "list"    -> RustListEncoder(t.e, v, p)
    [] t.k = "array"   -> ArrayEncoder(t.e, v, p)
    [] t.k = "option"  -> OptionEncoder(t.e, v, p)
    [] t.k = "result"  -> ResultEncoder(t.es, v, p)
    [] t.k = "tuple"   -> TupleEncoder(t.es, v, p)
    [] t.k = "record"  -> RecordEncoder(t.es, v, p)
    [] t.k = "variant" -> VariantEncoder(t.es, v, p)
    [] t.k = "enum"    -> EnumEncoder(v)
    [] t.k = "flags"   -> FlagsEncoder(v)
    [] t.k = "future"  -> FutureEncoder(t.e, v, p)
    [] t.k = "stream" /\ IsInput(t) -> StreamEncoderRead(v, 0, p)
    [] t.k = "stream" /\ t.e = TU8 -> StreamEncoderBytes(v, p)
    [] t.k = "stream"  -> StreamEncoder(t.e, v, p)
=============================================================================
