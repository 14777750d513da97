------------------------------ MODULE HostCodec ------------------------------
(***************************************************************************)
(* The two codecs that work on values described at run time: the one of    *)
(* the Wasmtime host (crates/wasmtime/src/codec.rs) and the one of WAVE    *)
(* values (crates/wave).  Both write the format of RustCodec; the host     *)
(* sends futures and streams of primitives and strings only, WAVE values   *)
(* hold none.  A value is read from the root reader: p is its path.        *)
(***************************************************************************)
EXTENDS RustCodec

(* READ_CHUNK_SIZE, the bytes of an input-stream encoded at once: a bound of the model. *)
ReadChunkSize == 2

CONSTANTS
    IdLen,   \* 16: the bytes of the id of a guest's resource
    Shared   \* the ids in shared_resources, the resources of guests the host sent

Scalars == {"bool", "u8", "s8", "uint", "sint", "float", "char", "string"}

(* with_payload!: what a future or stream of the host may carry. *)
IsPayload(t) == t.k \in Scalars

-----------------------------------------------------------------------------
(* Reading: wasm-tokio reads scalars, the rest is read_value *)

HostThen(r, F(_)) == IF r.st = "ok" THEN F(r) ELSE r

(* The item of a library decoder, external to the repository. *)
HostItem(r, ch) == [st |-> r.st, v |-> r.v, b |-> r.b, ch |-> ch]
HostScalar(t, b, ch) == HostItem(RustDecode(t, Idle, b), ch)
HostStatus(b, ch) == HostItem(StatusDecoder(Idle, b), ch)
HostU32(b, ch) == HostItem(Leb128DecoderU32(b), ch)

(* read_bytes *)
HostBytes(b, ch) == HostThen(HostU32(b, ch), LAMBDA n : TakeN(n.v, n.b, ch))

(* read_flags: a bit that is no flag is ignored. *)
HostFlags(n, b, ch) ==
  HostThen(TakeN(Ceil(n, 8), b, ch), LAMBDA r : Done(UnpackBits(n, r.v), r.b, ch))

(* A pending value read from its own path leaves the reader of its parent alone; *)
(* what makes it fail (data after it, an error, no value) leaves it pending.     *)
HostPending(r, v, p, b, ch) ==
  IF r.st = "ok" /\ r.b = <<>> THEN Done(v, b, ChanSet(ch, p, <<>>))
  ELSE IF r.st = "more" THEN More(b, ch) ELSE Err(b, ch)

(* The status s of a future of e has been read. *)
HostFutureReady(r, ch) == IF r.st = "ok" THEN Done(FutureOf(r.v), r.b, ch) ELSE r
HostFuturePending(r, p, b, ch) == HostPending(r, FutureOf(r.v), p, b, ch)
HostFuture(e, s, p, ch) ==
  CASE s.st # "ok" -> s
    [] s.st = "ok" /\ s.v = 1 -> HostFutureReady(HostScalar(e, s.b, ch), ch)
    [] OTHER -> HostFuturePending(HostScalar(e, ChanGet(ch, p), ch), p, s.b, ch)

HostReadFuture(e, p, b, ch) == HostFuture(e, HostStatus(b, ch), p, ch)

(* Producer: chunks up to an empty one, after which nothing may follow. *)
RECURSIVE HostChunks(_, _, _)
HostChunk(e, cs, r) ==
  IF r.st # "ok" THEN Err(r.b, <<>>)
  ELSE IF r.v = <<>> THEN Done(cs, r.b, <<>>) ELSE HostChunks(e, Append(cs, r.v), r.b)
HostChunks(e, cs, b) == HostChunk(e, cs, RustListDecoder(e, Idle, b))

(* read_stream *)
HostStreamReady(r, ch) == IF r.st = "ok" THEN Done(StreamOf(<<r.v>>), r.b, ch) ELSE HostItem(r, ch)
HostStreamPending(r, p, b, ch) == HostPending(r, StreamOf(r.v), p, b, ch)
HostStream(e, s, p, ch) ==
  CASE s.st # "ok" -> s
    [] s.st = "ok" /\ s.v = 1 -> HostStreamReady(RustListDecoder(e, Idle, s.b), ch)
    [] OTHER -> HostStreamPending(HostChunks(e, <<>>, ChanGet(ch, p)), p, s.b, ch)

HostReadStream(e, p, b, ch) == HostStream(e, HostStatus(b, ch), p, ch)

(* A byte stream behind an input-stream resource: the bytes that are there, or a reader *)
(* of the chunks; any other resource is the bytes of its handle.                        *)
HostInput(s, p, ch) ==
  CASE s.st # "ok" -> s
    [] s.st = "ok" /\ s.v = 1 -> HostStreamReady(HostBytes(s.b, ch), ch)
    [] OTHER -> HostStreamPending(HostChunks(TU8, <<>>, ChanGet(ch, p)), p, s.b, ch)
HostReadInput(p, b, ch) == HostInput(HostStatus(b, ch), p, ch)
HostReadHandle(b, ch) == HostBytes(b, ch)

(* The resource of a guest: its id, which must be one the host gave out. *)
HostReadGuest(b, ch) ==
  HostThen(HostItem(Leb128Decoder(8, FALSE, b), ch), LAMBDA n :
    IF n.v # IdLen THEN Err(n.b, ch)
    ELSE HostThen(TakeN(IdLen, n.b, ch), LAMBDA r : IF r.v \in Shared THEN r ELSE Err(r.b, ch)))

RECURSIVE HostRead(_, _, _, _)

(* The parts ts[Len(vs)+1].. of a value, each at its index below p. *)
RECURSIVE HostReadParts(_, _, _, _, _)
HostReadParts(ts, vs, p, b, ch) ==
  IF Len(vs) = Len(ts) THEN Done(vs, b, ch)
  ELSE HostThen(HostRead(ts[Len(vs) + 1], Append(p, Len(vs)), b, ch),
                LAMBDA r : HostReadParts(ts, Append(vs, r.v), p, r.b, r.ch))

HostReadList(e, p, b, ch) ==
  HostThen(HostU32(b, ch), LAMBDA n : HostReadParts(Same(e, n.v), <<>>, p, n.b, ch))

HostReadRecord(es, p, b, ch) == HostReadParts(es, <<>>, p, b, ch)
HostReadTuple(es, p, b, ch) == HostReadParts(es, <<>>, p, b, ch)

HostReadCase(es, c, p, b, ch) ==
  IF c >= Len(es) THEN Err(b, ch)
  ELSE HostThen(HostRead(es[c + 1], p, b, ch), LAMBDA r : Done([c |-> c, v |-> r.v], r.b, r.ch))

HostReadVariant(es, p, b, ch) ==
  HostThen(HostU32(b, ch), LAMBDA c : HostReadCase(es, c.v, p, c.b, ch))

HostReadResult(es, p, b, ch) ==
  HostThen(HostStatus(b, ch), LAMBDA s : HostReadCase(es, s.v, p, s.b, ch))

HostReadOption(e, p, b, ch) ==
  HostThen(HostStatus(b, ch),
    LAMBDA s : IF s.v = 0 THEN Done(<<>>, s.b, ch)
               ELSE HostThen(HostRead(e, p, s.b, ch), LAMBDA r : Done(<<r.v>>, r.b, r.ch)))

HostReadEnum(n, b, ch) == HostThen(HostU32(b, ch), LAMBDA r : IF r.v < n THEN r ELSE Err(r.b, ch))

(* read_value *)
HostRead(t, p, b, ch) ==
  CASE t.k \in Scalars -> HostScalar(t, b, ch)
    [] t.k = "unit"    -> Done(NoValue, b, ch)
    [] t.k = "list"    -> HostReadList(t.e, p, b, ch)
    [] t.k = "record"  -> HostReadRecord(t.es, p, b, ch)
    [] t.k = "tuple"   -> HostReadTuple(t.es, p, b, ch)
    [] t.k = "variant" -> HostReadVariant(t.es, p, b, ch)
    [] t.k = "enum"    -> HostReadEnum(t.n, b, ch)
    [] t.k = "option"  -> HostReadOption(t.e, p, b, ch)
    [] t.k = "result"  -> HostReadResult(t.es, p, b, ch)
    [] t.k = "flags"   -> HostFlags(t.n, b, ch)
    [] IsGuest(t)      -> HostReadGuest(b, ch)
    [] t.k \in {"own", "borrow"} /\ ~IsGuest(t) -> HostReadHandle(b, ch)
    [] t.k = "future" /\ (IsPayload(t.e) \/ t.e = TUnit) -> HostReadFuture(t.e, p, b, ch)
    [] t.k = "stream" /\ IsInput(t) -> HostReadInput(p, b, ch)
    [] t.k = "stream" /\ ~IsInput(t) /\ IsPayload(t.e) -> HostReadStream(t.e, p, b, ch)
    [] OTHER -> Err(b, ch)

-----------------------------------------------------------------------------
(* Encoding: ValEncoder *)

RECURSIVE HostEncode(_, _, _)

(* The parts of a value after the bytes head: the writes part i defers go to index i. *)
HostParts(head, ts, v, p) ==
  EncodeParts(head, [i \in 1..Len(v) |-> HostEncode(ts[i], v[i], Append(p, i - 1))])

(* A payload behind the bytes head, on the path of its value. *)
HostPayload(head, t, v, p) == EncodeParts(head, <<HostEncode(t, v, p)>>)

HostEncodeList(e, v, p) == HostParts(Uleb(Len(v)), Same(e, Len(v)), v, p)
HostEncodeRecord(es, v, p) == HostParts(<<>>, es, v, p)
HostEncodeTuple(es, v, p) == HostParts(<<>>, es, v, p)
HostEncodeVariant(es, v, p) == HostPayload(Uleb(v.c), es[v.c + 1], v.v, p)
HostEncodeEnum(v) == Enc(Uleb(v), <<>>)
HostEncodeOption(e, v, p) == IF v = <<>> THEN Enc(<<0>>, <<>>) ELSE HostPayload(<<1>>, e, v[1], p)
HostEncodeResult(es, v, p) == HostPayload(<<v.c>>, es[v.c + 1], v.v, p)
HostEncodeFlags(v) == Enc(PackBits(v), <<>>)
HostEncodeHandle(v) == CoreVecEncoderBytes(v)
(* A guest's resource gets a new id, here v, which is in Shared from then on. *)
HostEncodeGuest(v) == CoreVecEncoderBytes(v)

HostEncodeFuture(e, v, p) ==
  IF IsPayload(e) \/ e = TUnit THEN Enc(<<0>>, WriteFuture(e, v.v, p)) ELSE EncErr
HostEncodeStream(e, v, p) ==
  IF IsPayload(e) THEN Enc(<<0>>, <<<<p, WriteStream(e, 0, v.cs, p).b>>>>) ELSE EncErr
HostEncodeInput(v, p) == StreamEncoderRead(v, ReadChunkSize, p)

HostEncodeScalar(t, v) == RustEncode(t, v, <<>>)

HostEncode(t, v, p) ==
  CASE t.k \in Scalars -> HostEncodeScalar(t, v)
    [] t.k = "unit"    -> Enc(<<>>, <<>>)
    [] t.k = "list"    -> HostEncodeList(t.e, v, p)
    [] t.k = "record"  -> HostEncodeRecord(t.es, v, p)
    [] t.k = "tuple"   -> HostEncodeTuple(t.es, v, p)
    [] t.k = "variant" -> HostEncodeVariant(t.es, v, p)
    [] t.k = "enum"    -> HostEncodeEnum(v)
    [] t.k = "option"  -> HostEncodeOption(t.e, v, p)
    [] t.k = "result"  -> HostEncodeResult(t.es, v, p)
    [] t.k = "flags"   -> HostEncodeFlags(v)
    [] IsGuest(t)      -> HostEncodeGuest(v)
    [] t.k \in {"own", "borrow"} /\ ~IsGuest(t) -> HostEncodeHandle(v)
    [] t.k = "future"  -> HostEncodeFuture(t.e, v, p)
    [] t.k = "stream" /\ IsInput(t) -> HostEncodeInput(v, p)
    [] t.k = "stream"  -> HostEncodeStream(t.e, v, p)

-----------------------------------------------------------------------------
(* WAVE values *)

RECURSIVE WaveEncode(_, _)

WaveParts(head, ts, v) == EncodeParts(head, [i \in 1..Len(v) |-> WaveEncode(ts[i], v[i])])

WaveEncodeScalar(t, v) == RustEncode(t, v, <<>>)
WaveEncodeList(e, v) == WaveParts(Uleb(Len(v)), Same(e, Len(v)), v)
WaveEncodeFields(es, v) == WaveParts(<<>>, es, v)
WaveEncodeVariant(es, v) == WaveParts(Uleb(v.c), <<es[v.c + 1]>>, <<v.v>>)
WaveEncodeEnum(v) == Enc(Uleb(v), <<>>)
WaveEncodeOption(e, v) == WaveParts(<<Len(v)>>, Same(e, Len(v)), v)
WaveEncodeResult(es, v) == WaveParts(<<v.c>>, <<es[v.c + 1]>>, <<v.v>>)
WaveEncodeFlags(v) == Enc(PackBits(v), <<>>)

(* ValueEncoder: resources, futures and streams are rejected. *)
WaveEncode(t, v) ==
  CASE t.k \in Scalars -> WaveEncodeScalar(t, v)
    [] t.k = "unit"    -> Enc(<<>>, <<>>)
    [] t.k = "list"    -> WaveEncodeList(t.e, v)
    [] t.k \in {"record", "tuple"} -> WaveEncodeFields(t.es, v)
    [] t.k = "variant" -> WaveEncodeVariant(t.es, v)
    [] t.k = "enum"    -> WaveEncodeEnum(v)
    [] t.k = "option"  -> WaveEncodeOption(t.e, v)
    [] t.k = "result"  -> WaveEncodeResult(t.es, v)
    [] t.k = "flags"   -> WaveEncodeFlags(v)
    [] OTHER -> EncErr

RECURSIVE WaveRead(_, _)

RECURSIVE WaveReadParts(_, _, _)
WaveReadParts(ts, vs, b) ==
  IF Len(vs) = Len(ts) THEN Done(vs, b, <<>>)
  ELSE HostThen(WaveRead(ts[Len(vs) + 1], b), LAMBDA r : WaveReadParts(ts, Append(vs, r.v), r.b))

WaveReadCase(es, c, b) ==
  IF c >= Len(es) THEN Err(b, <<>>)
  ELSE HostThen(WaveRead(es[c + 1], b), LAMBDA r : Done([c |-> c, v |-> r.v], r.b, <<>>))

(* read_value of crates/wave *)
WaveRead(t, b) ==
  CASE t.k \in Scalars -> HostScalar(t, b, <<>>)
    [] t.k = "unit"    -> Done(NoValue, b, <<>>)
    [] t.k = "list"    -> HostThen(HostU32(b, <<>>), LAMBDA n : WaveReadParts(Same(t.e, n.v), <<>>, n.b))
    [] t.k \in {"record", "tuple"} -> WaveReadParts(t.es, <<>>, b)
    [] t.k = "variant" -> HostThen(HostU32(b, <<>>), LAMBDA c : WaveReadCase(t.es, c.v, c.b))
    [] t.k = "enum"    -> HostThen(HostU32(b, <<>>), LAMBDA r : IF r.v < t.n THEN r ELSE Err(r.b, <<>>))
    [] t.k = "option"  -> HostThen(HostStatus(b, <<>>),
                            LAMBDA s : WaveReadParts(IF s.v = 0 THEN <<>> ELSE <<t.e>>, <<>>, s.b))
    [] t.k = "result"  -> HostThen(HostStatus(b, <<>>), LAMBDA s : WaveReadCase(t.es, s.v, s.b))
    [] t.k = "flags"   -> HostFlags(t.n, b, <<>>)
    [] OTHER -> Err(b, <<>>)

(* decode_value: a buffer holds one value. *)
WaveDecode(t, b) ==
  HostThen(WaveRead(t, b), LAMBDA r : IF r.b = <<>> THEN r ELSE Err(r.b, <<>>))
=============================================================================
