------------------------------- MODULE Interop -------------------------------
(***************************************************************************)
(* One side encodes the parameters of a call with any of the five codecs;  *)
(* their bytes arrive at a Rust decoder in pieces.  Once it has all of     *)
(* them, every other codec decodes the same bytes.                         *)
(***************************************************************************)
EXTENDS FrameCodec, HostCodec, Pack, Paths

CONSTANTS
    Cases,     \* a sequence of <<types, values>>: the parameters of calls
    RawInputs  \* a set of <<type, bytes>>: bytes that no codec need have written

Codecs == {"rust", "go", "js", "host", "wave", "pack"}

Encoders == Codecs \cup {"pack_ready"}

IsWire(t) == t.k \in {"frame", "header"}

(* The types a codec can transmit at all. *)
RECURSIVE Supports(_, _)
Supports(c, t) ==
  CASE t.k \in {"list", "option"} -> Supports(c, t.e)
    [] t.k = "array" -> c \in {"rust", "pack", "pack_ready"} /\ Supports(c, t.e)
    [] t.k \in {"tuple", "record", "result", "variant"} ->
         \A i \in 1..Len(t.es) : Supports(c, t.es[i])
    [] t.k \in {"future", "stream"} ->
         /\ c # "wave"
         /\ c = "host" => IsPayload(t.e) \/ (t.k = "future" /\ t.e = TUnit)
         /\ Supports(c, t.e)
    [] t.k \in {"own", "borrow"} -> c # "wave"
    [] IsWire(t) -> c \in {"rust", "go", "js"}
    [] OTHER -> TRUE

(* Whatever reads a type; both Rust and Go read frames in two places. *)
Readers(t) ==
  {c \in Codecs : Supports(c, t)} \cup (IF IsFrame(t) THEN {"ingress", "go_ingress"} ELSE {})

Encode(c, t, v) ==
  CASE IsWire(t)  -> Enc(EncodeWire(c, t, v), <<>>)
    [] c = "pack" -> PackValue(t, v)
    [] c = "pack_ready" -> PackReady(t, v)
    [] c = "rust" -> RustEncode(t, v, <<>>)
    [] c = "go"   -> GoWrite(t, v, <<>>)
    [] c = "js"   -> JsEncodeValue(t, v, <<>>)
    [] c = "host" -> HostEncode(t, v, <<>>)
    [] c = "wave" -> WaveEncode(t, v)

StartState(t) == IF IsFrame(t) THEN FrameIdle ELSE Idle

(* A call of the Rust decoder of a type. *)
RustDecoder(t, s, b) == IF IsWire(t) THEN RustWire(t, s, b) ELSE RustDecode(t, s, b)

(* The Rust decoder returned r; its deferred functions read the nested paths. *)
Received(t, r, ch) ==
  IF r.st # "ok" THEN HostItem(r, ch)
  ELSE [RustReceive(t, r.v, r.d, <<>>, <<>>, ch) EXCEPT !.b = r.b]

(* Decode all of a value of type t, from bytes and nested paths. *)
Decode(c, t, b, ch) ==
  CASE IsWire(t)  -> IF c = "rust" THEN HostItem(RustWire(t, StartState(t), b), ch)
                     ELSE DecodeWire(c, t, b, ch)
    [] c = "pack" -> Unpack(t, b, ch)
    [] c = "rust" -> Received(t, RustDecode(t, Idle, b), ch)
    [] c = "go"   -> GoRead(t, <<>>, <<>>, b, ch)
    [] c = "js"   -> JsDecodeSteps(t, <<>>, <<>>, b, ch)
    [] c = "host" -> HostRead(t, <<>>, b, ch)
    [] c = "wave" -> WaveDecode(t, b)

VARIABLES
    ty,      \* the types of the parameters, as a tuple
    val,     \* <<their values>>, <<>> if the bytes are arbitrary
    codec,   \* the codec that encoded them
    bytes,   \* their encoding
    chans,   \* what was written to nested paths
    rest,    \* bytes that have not arrived
    src,     \* bytes that have and that the decoder left in its buffer
    dec,     \* the state of the Rust decoder
    res      \* what its last call returned

vars == <<ty, val, codec, bytes, chans, rest, src, dec, res>>

Start(b) ==
  /\ bytes = b /\ rest = b /\ src = <<>> /\ dec = StartState(ty)
  /\ res = Partial(dec, <<>>)

(* Parameters are a tuple; a header or a frame stands for itself. *)
Whole(ts) == IF IsWire(ts[1]) THEN ts[1] ELSE TTup(ts)

(* Only pack_ready may refuse a value; a codec that failed to encode would send nothing. *)
SentInit ==
  \E k \in 1..Len(Cases), c \in Encoders :
    LET t == Whole(Cases[k][1])
        v == IF IsWire(t) THEN Cases[k][2][1] ELSE Cases[k][2]
    IN  /\ Supports(c, t)
        /\ ty = t /\ val = <<v>> /\ codec = c
        /\ \E e \in {Encode(c, t, v)} :
             /\ e.ok \/ c # "pack_ready"
             /\ chans = Chan(e.d) /\ Start(e.b)

RawInit ==
  \E raw \in RawInputs :
    ty = Whole(<<raw[1]>>) /\ val = <<>> /\ codec = "rust" /\ chans = Chan(<<>>) /\ Start(raw[2])

Init == SentInit \/ RawInit

(* n more bytes arrive and the decoder is called (FramedRead). *)
Arrive(n) ==
  /\ res.st = "more"
  /\ n <= Len(rest)
  /\ rest' = SubSeq(rest, n + 1, Len(rest))
  /\ res' = RustDecoder(ty, dec, src \o SubSeq(rest, 1, n))
  /\ src' = res'.b /\ dec' = res'.s
  /\ UNCHANGED <<ty, val, codec, bytes, chans>>

Next == \E n \in 1..Len(rest) : Arrive(n)

Spec == Init /\ [][Next]_vars

-----------------------------------------------------------------------------
Sent == val # <<>>
AllArrived == rest = <<>>

(* However the bytes are cut, the Rust decoders finish exactly with the last of *)
(* them, with the value that one call on all of them returns.                   *)
Resumable ==
  /\ Sent => res.st # "err" /\ (res.st = "ok" <=> AllArrived) /\ (AllArrived => src = <<>>)
  /\ \A r \in {RustDecoder(ty, StartState(ty), bytes)} :
         /\ AllArrived /\ res.st = "more" => r.st = "more"
         /\ res.st = "ok" => r.st = "ok" /\ r.v = res.v /\ r.d = res.d /\ r.b = src \o rest

(* Every codec encodes every value of its types, and every reader of the types   *)
(* decodes it to the same value, leaving nothing of it or of the paths below     *)
(* unread; a packed buffer is unpacked from nothing but itself.  The order in    *)
(* which deferred writes on different paths arrive is not told apart.            *)
RoundTrip ==
  Sent /\ AllArrived =>
    /\ Encode(codec, ty, val[1]).ok
    /\ \A c \in Readers(ty) :
      \A r \in {Decode(c, ty, bytes, chans)} :
          IF c = "pack" /\ DOMAIN chans # {} THEN r.st = "err"
          ELSE
          /\ r.st = "ok" /\ r.b = <<>>
          /\ Plain(ty, r.v) = Plain(ty, val[1])
          /\ \A q \in DOMAIN r.ch : r.ch[q] = <<>>

(* A leading number of more bytes than a u8 may take. *)
Padded == Len(bytes) > 2 /\ bytes[1] > 127 /\ bytes[2] > 127

(* Bits that stand for no flag. *)
StrayBits(t) == t.k = "flags" /\ \E i \in t.n + 1..8 * Ceil(t.n, 8) : BitOf(bytes, i) = 1

(* A future or stream that is not in the bytes. *)
IsPending(t) == t.k \in {"future", "stream"} /\ bytes[1] = 0

(* What the reader c alone refuses, of bytes that hold v and are followed by left. *)
Refuses(c, v, left) ==
  IF IsFrame(ty) THEN
    IF c \in {"rust", "go"} THEN Len(v.path) > MaxDepth \/ Len(v.data) > MaxSize
    ELSE Len(v.path) > ty.depth
  ELSE IF IsWire(ty) THEN FALSE
  ELSE \/ c = "go" /\ ty.es[1].k \in {"variant", "enum"} /\ Padded
       \/ c \notin {"host", "wave"} /\ StrayBits(ty.es[1])
       \/ c = "host" /\ IsGuest(ty.es[1]) /\ (v[1] \notin Shared \/ Padded)
       \/ c \in {"wave", "pack"} /\ left # <<>>
       \/ c = "pack" /\ IsPending(ty.es[1])

(* What the reader c makes of the bytes, the Rust one having got them in pieces. *)
ReadBy(c) ==
  IF c # "rust" THEN Decode(c, ty, bytes, chans)
  ELSE [IF IsWire(ty) THEN HostItem(res, chans) ELSE Received(ty, res, chans) EXCEPT !.b = src \o rest]

(* Bytes that no codec wrote are read by all as the same value, or by none: what one *)
(* reader accepts another rejects only for a restriction of its own, and always      *)
(* then.  The codecs of single frames limit path and data; ingress of all three      *)
(* languages limits the path to the declared depth, and data not at all.  Go rejects *)
(* a discriminant padded beyond the width its number of cases needs; the host and    *)
(* WAVE ignore bits that are no flags, which the others reject; the host takes the id *)
(* of a guest's resource only if it gave it out, its length being a u8; a WAVE or    *)
(* packed buffer holds one value that is all there.                                  *)
DecodersAgree ==
  ~Sent /\ (AllArrived \/ res.st # "more") =>
    \A rs \in {[c \in Readers(ty) |-> ReadBy(c)]} :
      \A c, d \in Readers(ty) : rs[c].st = "ok" =>
          IF Refuses(d, rs[c].v, rs[c].b) THEN rs[d].st # "ok"
          ELSE rs[d].st = "ok" /\ Plain(ty, rs[d].v) = Plain(ty, rs[c].v) /\ rs[d].b = rs[c].b

(* Data of a pending value is sent on a path its receiver subscribed to or admits, *)
(* and receivers in all languages expect paths of the same depth.                  *)
PathsDeclared ==
  Sent /\ ~IsWire(ty) =>
          /\ NotMixed(ParamsAsyncPaths(ty.es))
          /\ \A q \in DOMAIN chans : 
               /\ Declares(ParamsAsyncPaths(ty.es), q)
               /\ Supports("js", ty) => JsAdmits(ty.es, q)
          /\ Supports("js", ty) => JsDepth(ty.es) = PathsDepth(ParamsAsyncPaths(ty.es))
=============================================================================
