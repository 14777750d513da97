------------------------------- MODULE GoCodec -------------------------------
(***************************************************************************)
(* The value codec of Go programs: the code printed by the Go binding      *)
(* generator (crates/wit-bindgen-go/src/interface.rs) and the runtime it   *)
(* calls (go/primitive.go, list.go, future.go, stream.go, wrpc.go).        *)
(*                                                                         *)
(* A reader is the path rp it is indexed by with its buffer b; p is the    *)
(* path of the value being read, so that `path` in the code is what p has  *)
(* beyond rp.  Every Go error is "err", the end of the input "more".       *)
(***************************************************************************)
EXTENDS Values

(* Continue with r's value if there is one. *)
GoThen(r, F(_)) == IF r.st = "ok" THEN F(r) ELSE r

GoByte(b, ch) == TakeN(1, b, ch)

(* A status byte: 0 or 1, anything else is an error. *)
GoStatus(b, ch) ==
  GoThen(GoByte(b, ch),
         LAMBDA r : IF r.v[1] \in {0, 1} THEN Done(r.v[1], r.b, ch) ELSE Err(r.b, ch))

-----------------------------------------------------------------------------
(* Reading: print_read_* *)

GoReadBool(b, ch) == GoStatus(b, ch)

GoReadU8(b, ch) == GoThen(GoByte(b, ch), LAMBDA r : Done(r.v[1], r.b, ch))

(* The i-th byte of an unsigned varint of w bits, x being read so far. *)
RECURSIVE GoUvarint(_, _, _, _, _)
GoUvarint(w, i, x, b, ch) ==
  LET s == 7 * i
      last == Ceil(w, 7) - 1
  IN  IF i > last THEN Err(b, ch)
      ELSE GoThen(GoByte(b, ch),
             LAMBDA r : LET c == r.v[1] IN
               IF i = last /\ c > Pow2(w - s) - 1 THEN Err(r.b, ch)
               ELSE IF c < 128 THEN Done(x + (c * Pow2(s)), r.b, ch)
               ELSE GoUvarint(w, i + 1, x + ((c % 128) * Pow2(s)), r.b, ch))

GoReadUint(w, b, ch) == GoUvarint(w, 0, 0, b, ch)

GoReadS8(b, ch) ==
  GoThen(GoByte(b, ch), LAMBDA r : Done(IF r.v[1] > 127 THEN r.v[1] - 256 ELSE r.v[1], r.b, ch))

(* The low w bits of x as a signed number. *)
GoSigned(w, x) == LET y == x % Pow2(w) IN IF y >= Pow2(w - 1) THEN y - Pow2(w) ELSE y

(* The i-th byte of a signed varint of w bits. *)
RECURSIVE GoVarint(_, _, _, _, _)
GoVarint(w, i, x, b, ch) ==
  LET s == 7 * i
      last == Ceil(w, 7) - 1
      ceiling == Pow2(w - 1 - (7 * last))
  IN  IF i > last THEN Err(b, ch)
      ELSE GoThen(GoByte(b, ch),
             LAMBDA r :
               LET low  == r.v[1] % 128
                   y    == x + (low * Pow2(s))
                   sign == IF low >= 64 /\ s + 7 < w THEN Pow2(w) - Pow2(s + 7) ELSE 0
               IN  IF i = last /\ (low \div ceiling) \notin {0, 127 \div ceiling} THEN Err(r.b, ch)
                   ELSE IF r.v[1] < 128 THEN Done(GoSigned(w, y + sign), r.b, ch)
                   ELSE GoVarint(w, i + 1, y, r.b, ch))

GoReadSint(w, b, ch) == GoVarint(w, 0, 0, b, ch)

GoReadFloat(b, ch) == TakeN(4, b, ch)

GoReadChar(b, ch) ==
  GoThen(GoByte(b, ch),
    LAMBDA r : LET n == LeadLen(r.v[1]) IN
      IF n = 0 THEN Err(r.b, ch)
      ELSE GoThen(TakeN(n, b, ch),
             LAMBDA q : IF ValidChar(q.v) THEN Done(CodePoint(q.v), q.b, ch) ELSE Err(q.b, ch)))

GoReadString(b, ch) ==
  GoThen(GoReadUint(U32Bits, b, ch),
    LAMBDA r : GoThen(TakeN(r.v, r.b, ch),
      LAMBDA q : IF Utf8Points(q.v)[1] THEN Done(Utf8Points(q.v)[2], q.b, ch) ELSE Err(q.b, ch)))

GoReadByteList(b, ch) == GoThen(GoReadUint(U32Bits, b, ch), LAMBDA r : TakeN(r.v, r.b, ch))

(* Handles of resources are opaque bytes. *)
GoReadOwn(b, ch) == GoThen(GoReadUint(U32Bits, b, ch), LAMBDA r : TakeN(r.v, r.b, ch))
GoReadBorrow(b, ch) == GoThen(GoReadUint(U32Bits, b, ch), LAMBDA r : TakeN(r.v, r.b, ch))

RECURSIVE GoRead(_, _, _, _, _)

(* Elements i..n-1 of a list, each at its index, after the elements vs. *)
RECURSIVE GoReadElems(_, _, _, _, _, _, _, _)
GoReadElems(e, i, n, vs, rp, p, b, ch) ==
  IF i = n THEN Done(vs, b, ch)
  ELSE GoThen(GoRead(e, rp, Append(p, i), b, ch),
              LAMBDA r : GoReadElems(e, i + 1, n, Append(vs, r.v), rp, p, r.b, r.ch))

GoReadList(e, rp, p, b, ch) ==
  IF e = TU8 THEN GoReadByteList(b, ch)
  ELSE GoThen(GoReadUint(U32Bits, b, ch),
              LAMBDA r : GoReadElems(e, 0, r.v, <<>>, rp, p, r.b, ch))

GoReadOption(e, rp, p, b, ch) ==
  GoThen(GoStatus(b, ch),
    LAMBDA s : IF s.v = 0 THEN Done(<<>>, s.b, ch)
               ELSE GoThen(GoRead(e, rp, p, s.b, ch), LAMBDA r : Done(<<r.v>>, r.b, r.ch)))

(* The payload of case c, read on the path of the result or variant. *)
GoReadCase(es, c, rp, p, b, ch) ==
  GoThen(GoRead(es[c + 1], rp, p, b, ch), LAMBDA r : Done([c |-> c, v |-> r.v], r.b, r.ch))

GoReadResult(es, rp, p, b, ch) ==
  GoThen(GoStatus(b, ch), LAMBDA s : GoReadCase(es, s.v, rp, p, s.b, ch))

(* Fields i.. of a record, each on the path extended by its index. *)
RECURSIVE GoReadFields(_, _, _, _, _, _, _)
GoReadFields(es, i, vs, rp, p, b, ch) ==
  IF i > Len(es) THEN Done(vs, b, ch)
  ELSE GoThen(GoRead(es[i], rp, Append(p, i - 1), b, ch),
              LAMBDA r : GoReadFields(es, i + 1, Append(vs, r.v), rp, p, r.b, r.ch))

GoReadRecord(es, rp, p, b, ch) == GoReadFields(es, 1, <<>>, rp, p, b, ch)
GoReadTuple(es, rp, p, b, ch) == GoReadFields(es, 1, <<>>, rp, p, b, ch)

(* Faulty variant: bits beyond the last flag are ignored *)
GoReadFlagsAnyBits(n, b, ch) ==
  GoThen(TakeN(Ceil(n, 8), b, ch), LAMBDA r : Done(UnpackBits(n, r.v), r.b, ch))

(* Flags: whole bytes, a bit beyond the last flag is rejected. *)
GoReadFlags(n, b, ch) ==
  GoThen(TakeN(Ceil(n, 8), b, ch),
    LAMBDA r : IF r.v[Ceil(n, 8)] \div Pow2(((n - 1) % 8) + 1) > 0 THEN Err(r.b, ch)
               ELSE Done(UnpackBits(n, r.v), r.b, ch))

(* The width of a discriminant of n cases. *)
GoTag(n) == IF n <= 256 THEN 8 ELSE 16

GoReadDiscriminant(n, b, ch) == GoReadUint(GoTag(n), b, ch)

GoReadEnum(n, b, ch) ==
  GoThen(GoReadDiscriminant(n, b, ch), LAMBDA r : IF r.v < n THEN r ELSE Err(r.b, ch))

GoReadVariant(es, rp, p, b, ch) ==
  GoThen(GoReadDiscriminant(Len(es), b, ch),
    LAMBDA r : IF r.v < Len(es) THEN GoReadCase(es, r.v, rp, p, r.b, ch) ELSE Err(r.b, ch))

-----------------------------------------------------------------------------
(* Futures and streams: go/future.go, go/stream.go *)

(* The reader of a pending value: indexed, unless it goes on on its own path. *)
GoPendingBuffer(rp, p, b, ch) == IF p = rp THEN b ELSE ChanGet(ch, p)

(* What is left once the nested reader of p is closed with q unread. *)
GoAfterPending(v, rp, p, b, q, ch) ==
  IF q # <<>> THEN Err(b, ch)
  ELSE IF p = rp THEN Done(v, q, ch) ELSE Done(v, b, ChanSet(ch, p, <<>>))

GoReadFuture(e, rp, p, b, ch) ==
  GoThen(GoStatus(b, ch),
    LAMBDA s :
      IF s.v = 1
      THEN GoThen(GoRead(e, rp, p, s.b, ch), LAMBDA r : Done(FutureOf(r.v), r.b, r.ch))
      ELSE GoThen(GoRead(e, p, p, GoPendingBuffer(rp, p, s.b, ch), ch),
                  LAMBDA r : GoAfterPending(FutureOf(r.v), rp, p, s.b, r.b, r.ch)))

(* A future without payload resolves when its path closes. *)
GoReadFutureUnit(rp, p, b, ch) ==
  GoThen(GoStatus(b, ch),
    LAMBDA s :
      IF s.v = 1 THEN Done(FutureOf(NoValue), s.b, ch)
      ELSE GoAfterPending(FutureOf(NoValue), rp, p, s.b, GoPendingBuffer(rp, p, s.b, ch), ch))

(* Chunks of a pending stream from element total on: up to the empty one. *)
RECURSIVE GoReadChunks(_, _, _, _, _, _)
GoReadChunks(e, total, cs, p, b, ch) ==
  GoThen(GoReadUint(U32Bits, b, ch),
    LAMBDA n : IF n.v = 0 THEN Done(cs, n.b, ch)
               ELSE GoThen(GoReadElems(e, total, total + n.v, <<>>, p, p, n.b, ch),
                           LAMBDA r : GoReadChunks(e, total + n.v, Append(cs, r.v), p, r.b, r.ch)))

GoReadStream(e, rp, p, b, ch) ==
  GoThen(GoStatus(b, ch),
    LAMBDA s :
      IF s.v = 1
      THEN GoThen(GoThen(GoReadUint(U32Bits, s.b, ch),
                         LAMBDA n : GoReadElems(e, 0, n.v, <<>>, rp, p, n.b, ch)),
                  LAMBDA r : Done(StreamOf(<<r.v>>), r.b, r.ch))
      ELSE GoThen(GoReadChunks(e, 0, <<>>, p, GoPendingBuffer(rp, p, s.b, ch), ch),
                  LAMBDA r : GoAfterPending(StreamOf(r.v), rp, p, s.b, r.b, r.ch)))

RECURSIVE GoReadByteChunks(_, _, _)
GoReadByteChunks(cs, b, ch) ==
  GoThen(GoReadByteList(b, ch),
    LAMBDA r : IF r.v = <<>> THEN Done(cs, r.b, ch)
               ELSE GoReadByteChunks(Append(cs, r.v), r.b, ch))

GoReadByteStream(rp, p, b, ch) ==
  GoThen(GoStatus(b, ch),
    LAMBDA s :
      IF s.v = 1
      THEN GoThen(GoReadByteList(s.b, ch), LAMBDA r : Done(StreamOf(<<r.v>>), r.b, ch))
      ELSE GoThen(GoReadByteChunks(<<>>, GoPendingBuffer(rp, p, s.b, ch), ch),
                  LAMBDA r : GoAfterPending(StreamOf(r.v), rp, p, s.b, r.b, r.ch)))

(* print_read_ty and print_read_tyid: the reader of each type. *)
GoRead(t, rp, p, b, ch) ==
  CASE t.k = "bool"    -> GoReadBool(b, ch)
    [] t.k = "u8"      -> GoReadU8(b, ch)
    [] t.k = "s8"      -> GoReadS8(b, ch)
    [] t.k = "uint"    -> GoReadUint(t.w, b, ch)
    [] t.k = "sint"    -> GoReadSint(t.w, b, ch)
    [] t.k = "float"   -> GoReadFloat(b, ch)
    [] t.k = "char"    -> GoReadChar(b, ch)
    [] t.k = "string"  -> GoReadString(b, ch)
    [] t.k = "unit"    -> Done(NoValue, b, ch)
    [] t.k = "own"     -> GoReadOwn(b, ch)
    [] t.k = "borrow"  -> GoReadBorrow(b, ch)
    [] t.k = "list"    -> GoReadList(t.e, rp, p, b, ch)
    [] t.k = "option"  -> GoReadOption(t.e, rp, p, b, ch)
    [] t.k = "result"  -> GoReadResult(t.es, rp, p, b, ch)
    [] t.k = "record"  -> GoReadRecord(t.es, rp, p, b, ch)
    [] t.k = "tuple"   -> GoReadTuple(t.es, rp, p, b, ch)
    [] t.k = "variant" -> GoReadVariant(t.es, rp, p, b, ch)
    [] t.k = "enum"    -> GoReadEnum(t.n, b, ch)
    [] t.k = "flags"   -> GoReadFlags(t.n, b, ch)
    [] t.k = "future" /\ t.e = TUnit -> GoReadFutureUnit(rp, p, b, ch)
    [] t.k = "future"  -> GoReadFuture(t.e, rp, p, b, ch)
    [] t.k = "stream" /\ t.e = TU8 -> GoReadByteStream(rp, p, b, ch)
    [] t.k = "stream"  -> GoReadStream(t.e, rp, p, b, ch)

-----------------------------------------------------------------------------
(* Writing: print_write_* and the Write functions of the runtime *)

(* Join the writes es of the parts of a value, prefixed by the bytes b. *)
GoJoin(b, es) ==
  IF \E i \in 1..Len(es) : ~es[i].ok THEN EncErr
  ELSE Enc(b \o Cat([i \in 1..Len(es) |-> es[i].b]), Cat([i \in 1..Len(es) |-> es[i].d]))

GoWriteBool(v) == Enc(<<v>>, <<>>)
GoWriteU8(v)   == Enc(<<v>>, <<>>)
GoWriteUint(v) == Enc(Uleb(v), <<>>)
GoWriteS8(v)   == Enc(<<v % 256>>, <<>>)

(* for { b := v & 0x7f; v >>= 7; ... } *)
RECURSIVE GoWriteSint(_)
GoWriteSint(v) ==
  LET low == v % 128
      rest == v \div 128
  IN  IF (rest = 0 /\ low < 64) \/ (rest = -1 /\ low >= 64) THEN Enc(<<low>>, <<>>)
      ELSE Enc(<<128 + low>> \o GoWriteSint(rest).b, <<>>)

GoWriteFloat(v) == Enc(IF IsNaN(v) THEN CanonicalNaN ELSE v, <<>>)

GoWriteChar(v) == IF IsScalar(v) THEN Enc(Utf8(v), <<>>) ELSE EncErr

GoWriteString(v) ==
  IF \A i \in 1..Len(v) : IsScalar(v[i])
  THEN Enc(Uleb(Len(Utf8String(v))) \o Utf8String(v), <<>>) ELSE EncErr

GoWriteByteList(v) == Enc(Uleb(Len(v)) \o v, <<>>)

RECURSIVE GoWrite(_, _, _)

(* Elements of lists and streams from index base on, at their index below p. *)
GoWriteElems(e, base, vs, p) ==
  [i \in 1..Len(vs) |-> GoWrite(e, vs[i], Append(p, base + i - 1))]

GoWriteList(e, v, p) == GoJoin(Uleb(Len(v)), GoWriteElems(e, 0, v, p))

GoWriteOption(e, v, p) ==
  IF v = <<>> THEN Enc(<<0>>, <<>>) ELSE GoJoin(<<1>>, <<GoWrite(e, v[1], p)>>)

GoWriteResult(es, v, p) == GoJoin(<<v.c>>, <<GoWrite(es[v.c + 1], v.v, p)>>)

GoWriteTuple(es, v, p) == GoJoin(<<>>, [i \in 1..Len(es) |-> GoWrite(es[i], v[i], Append(p, i - 1))])

GoWriteRecord(es, v, p) == GoJoin(<<>>, [i \in 1..Len(es) |-> GoWrite(es[i], v[i], Append(p, i - 1))])

GoWriteDiscriminant(c) == Uleb(c)

GoWriteVariant(es, v, p) == GoJoin(GoWriteDiscriminant(v.c), <<GoWrite(es[v.c + 1], v.v, p)>>)

GoWriteEnum(v) == Enc(GoWriteDiscriminant(v), <<>>)

GoWriteFlags(v) == Enc(PackBits(v), <<>>)

(* A future is sent pending; nested writes go on on its own path. *)
GoWriteFuture(e, v, p) ==
  LET x == GoWrite(e, v.v, p)
  IN  IF x.ok THEN Enc(<<0>>, <<<<p, x.b>>>> \o x.d) ELSE EncErr

(* A future without payload: ready if its value is there, else its path closes. *)
GoWriteFutureUnit(v, p) == IF v.rdy THEN Enc(<<1>>, <<>>) ELSE Enc(<<0>>, <<<<p, <<>>>>>>)

(* Chunks cs from element total on, ending with an empty one; an empty chunk is skipped. *)
RECURSIVE GoWriteChunks(_, _, _, _)
GoWriteChunks(e, total, cs, p) ==
  IF cs = <<>> THEN Enc(<<0>>, <<>>)
  ELSE LET c == Head(cs)
           rest == GoWriteChunks(e, total + Len(c), Tail(cs), p)
       IN  IF c = <<>> THEN rest
           ELSE GoJoin(<<>>, <<GoJoin(Uleb(Len(c)), GoWriteElems(e, total, c, p)), rest>>)

GoWriteStream(e, v, p) ==
  LET x == GoWriteChunks(e, 0, v.cs, p)
  IN  IF x.ok THEN Enc(<<0>>, <<<<p, x.b>>>> \o x.d) ELSE EncErr

GoWriteByteStream(v, p) ==
  LET cs == SelectSeq(v.cs, LAMBDA c : c # <<>>)
  IN  Enc(<<0>>, <<<<p, Cat([i \in 1..Len(cs) |-> GoWriteByteList(cs[i]).b]) \o <<0>>>>>>)

(* print_write_ty and print_write_tyid: the writer of each type. *)
GoWrite(t, v, p) ==
  CASE t.k = "bool"    -> GoWriteBool(v)
    [] t.k = "u8"      -> GoWriteU8(v)
    [] t.k = "s8"      -> GoWriteS8(v)
    [] t.k = "uint"    -> GoWriteUint(v)
    [] t.k = "sint"    -> GoWriteSint(v)
    [] t.k = "float"   -> GoWriteFloat(v)
    [] t.k = "char"    -> GoWriteChar(v)
    [] t.k = "string"  -> GoWriteString(v)
    [] t.k = "unit"    -> Enc(<<>>, <<>>)
    [] t.k \in {"own", "borrow"} -> GoWriteByteList(v)
    [] t.k = "list"    -> GoWriteList(t.e, v, p)
    [] t.k = "option"  -> GoWriteOption(t.e, v, p)
    [] t.k = "result"  -> GoWriteResult(t.es, v, p)
    [] t.k = "record"  -> GoWriteRecord(t.es, v, p)
    [] t.k = "tuple"   -> GoWriteTuple(t.es, v, p)
    [] t.k = "variant" -> GoWriteVariant(t.es, v, p)
    [] t.k = "enum"    -> GoWriteEnum(v)
    [] t.k = "flags"   -> GoWriteFlags(v)
    [] t.k = "future" /\ t.e = TUnit -> GoWriteFutureUnit(v, p)
    [] t.k = "future"  -> GoWriteFuture(t.e, v, p)
    [] t.k = "stream" /\ t.e = TU8 -> GoWriteByteStream(v, p)
    [] t.k = "stream"  -> GoWriteStream(t.e, v, p)
=============================================================================
