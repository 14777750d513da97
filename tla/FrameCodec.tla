------------------------------ MODULE FrameCodec ------------------------------
(***************************************************************************)
(* What carries encoded values: the header of an invocation, frames, and   *)
(* packed buffers.  crates/transport/src/frame/codec.rs, pack.rs and       *)
(* frame/conn/client.rs; go/frame.go, frame_invoker.go, frame_server.go;   *)
(* js/src/mux.js and session.js.                                           *)
(*                                                                         *)
(* A frame is [path, data]; an invocation is <<instance, name, params>>,   *)
(* the names as code points and params the bytes of the parameters.        *)
(***************************************************************************)
EXTENDS RustCodec, GoCodec, JsCodec

CONSTANTS
    MaxDepth,    \* of the path of a frame: Decoder::max_depth, frameLimits
    MaxSize,     \* of the data of a frame: Decoder::max_size, frameLimits
    MaxNameLen   \* of the bytes of an instance or function name

(* A frame of an invocation whose pending values have paths of at most `depth` indices: *)
(* what the peers know of a path, which the codecs of single frames do not.             *)
TFrame(depth) == [k |-> "frame", depth |-> depth]
(* An invocation whose parameters are sent with its header, or are empty. *)
THeader(params) == [k |-> "header", params |-> params]

Frame(p, d) == [path |-> p, data |-> d]
PROTOCOL == 1

-----------------------------------------------------------------------------
(* Rust *)

(* path is <<>> for None and <<elements>>; cap elements of it are still to come; *)
(* len bytes of data are, once its length has been read.                         *)
FrameIdle == [path |-> <<>>, cap |-> 0, len |-> 0]

(* Faulty variant: the path is taken from the decoder and not put back while data is missing *)
DecodeDataPathLost(s, b) ==
  IF Len(b) < s.len THEN Partial([s EXCEPT !.path = <<>>], b)
  ELSE [Item(Frame(s.path[1], SubSeq(b, 1, s.len)), SubSeq(b, s.len + 1, Len(b)), NoDeferred)
          EXCEPT !.s = FrameIdle]

(* The data, once all of it is there. *)
DecodeData(s, b) ==
  IF Len(b) < s.len THEN Partial(s, b)
  ELSE [Item(Frame(s.path[1], SubSeq(b, 1, s.len)), SubSeq(b, s.len + 1, Len(b)), NoDeferred)
          EXCEPT !.s = FrameIdle]

(* The length of the data; it is not asked for again while data is missing. *)
DecodeDataLen(s, b) ==
  IF s.len > 0 THEN DecodeData(s, b)
  ELSE LET n == Leb128DecoderU32(b)
       IN  CASE n.st = "more" -> Partial(s, b)
             [] n.st = "err" \/ n.v > MaxSize -> Rejected(n.b)
             [] OTHER -> DecodeData([s EXCEPT !.len = n.v], n.b)

RECURSIVE DecodePath(_, _)
DecodePath(s, b) ==
  IF s.cap = 0 THEN DecodeDataLen(s, b)
  ELSE LET i == Leb128DecoderU32(b)
       IN  CASE i.st = "more" -> Partial(s, b)
             [] i.st = "err" -> Rejected(i.b)
             [] OTHER -> DecodePath([s EXCEPT !.path = <<Append(@[1], i.v)>>, !.cap = @ - 1], i.b)

FrameDecode(s, b) ==
  IF s.path # <<>> THEN DecodePath(s, b)
  ELSE LET n == Leb128DecoderU32(b)
       IN  CASE n.st = "more" -> Partial(s, b)
             [] n.st = "err" \/ n.v > MaxDepth -> Rejected(n.b)
             [] OTHER -> DecodePath([s EXCEPT !.path = <<<<>>>>, !.cap = n.v], n.b)

FrameEncode(f) ==
  Uleb(Len(f.path)) \o Cat([i \in 1..Len(f.path) |-> Uleb(f.path[i])]) \o Uleb(Len(f.data)) \o f.data

(* encode_invocation and the parameters, which are a frame unless they are empty. *)
EncodeInvocation(x) ==
  LET name(s) == Uleb(Len(Utf8String(s))) \o Utf8String(s)
  IN  <<PROTOCOL>> \o name(x[1]) \o name(x[2])
        \o (IF Len(x[3]) > 0 THEN <<0>> \o Uleb(Len(x[3])) \o x[3] ELSE <<>>)

(* The name of n bytes that follows its length. *)
ReadNameOf(n) ==
  IF n.st # "ok" THEN n
  ELSE IF n.v > MaxNameLen THEN Rejected(n.b)
  ELSE CoreNameDecoder([Idle EXCEPT !.n = n.v], n.b)

ReadName(b) == ReadNameOf(Leb128DecoderU32(b))

WithName(i, f) == IF f.st # "ok" THEN f ELSE Item(<<i.v, f.v>>, f.b, NoDeferred)

(* The function name follows the instance i. *)
ReadFunc(i) == IF i.st # "ok" THEN i ELSE WithName(i, ReadName(i.b))

HeaderRead(b) ==
  IF b = <<>> THEN Partial(Idle, b)
  ELSE IF b[1] # PROTOCOL THEN Rejected(b)
  ELSE ReadFunc(ReadName(Tail(b)))

(* `ingress` reads frames by itself: paths as long as those declared, data of any size. *)
IngressThen(r, F(_)) == IF r.st = "ok" THEN F(r) ELSE r
IngressU32(b, ch) ==
  LET r == Leb128DecoderU32(b) IN [st |-> r.st, v |-> r.v, b |-> r.b, ch |-> ch]

RECURSIVE IngressPath(_, _, _, _, _)
(* n elements, at most depth of which are kept. *)
IngressPath(n, depth, path, b, ch) ==
  IF n = 0 THEN Done(path, b, ch)
  ELSE IngressThen(IngressU32(b, ch), LAMBDA i :
         IngressPath(n - 1, depth, IF Len(path) < depth THEN Append(path, i.v) ELSE path, i.b, ch))

(* One round of it, without routing; the data is passed on in chunks. *)
IngressReadFrame(depth, b, ch) ==
  IngressThen(IngressU32(b, ch), LAMBDA len :
    IngressThen(IngressPath(len.v, depth, <<>>, len.b, ch), LAMBDA p :
      IngressThen(IngressU32(p.b, ch), LAMBDA n :
        IF len.v > depth THEN Err(n.b, ch)
        ELSE IngressThen(TakeN(n.v, n.b, ch), LAMBDA d : Done(Frame(p.v, d.v), d.b, ch)))))

-----------------------------------------------------------------------------
(* Go *)

RECURSIVE GoReadFramePath(_, _, _, _, _)
(* readFramePath: n elements, at most limit of which are kept, then the data length. *)
GoReadFramePath(n, limit, path, b, ch) ==
  GoThen(GoReadUint(U32Bits, b, ch), LAMBDA r :
    IF n = 0 THEN Done(<<path, r.v>>, r.b, ch)
    ELSE GoReadFramePath(n - 1, limit, IF Len(path) < limit THEN Append(path, r.v) ELSE path, r.b, ch))

GoReadFramePathLen(b, ch) == GoReadUint(U32Bits, b, ch)

GoReadFrame(b, ch) ==
  GoThen(GoReadFramePathLen(b, ch), LAMBDA d :
    IF d.v > MaxDepth THEN Err(d.b, ch)
    ELSE GoThen(GoReadFramePath(d.v, MaxDepth, <<>>, d.b, ch), LAMBDA r :
           IF r.v[2] > MaxSize THEN Err(r.b, ch)
           ELSE GoThen(TakeN(r.v[2], r.b, ch), LAMBDA x : Done(Frame(r.v[1], x.v), x.b, ch))))

(* One round of the goroutine of a FrameStreamReader, without routing. *)
GoIngressFrame(depth, b, ch) ==
  GoThen(GoReadFramePathLen(b, ch), LAMBDA d :
    GoThen(GoReadFramePath(d.v, depth, <<>>, d.b, ch), LAMBDA r :
      IF d.v > depth THEN Err(r.b, ch)
      ELSE GoThen(TakeN(r.v[2], r.b, ch), LAMBDA x : Done(Frame(r.v[1], x.v), x.b, ch))))

GoWriteFrame(f) ==
  Uleb(Len(f.path)) \o Cat([i \in 1..Len(f.path) |-> GoWriteUint(f.path[i]).b])
    \o GoWriteByteList(f.data).b

GoReadHeaderName(b, ch) ==
  GoThen(GoReadUint(U32Bits, b, ch), LAMBDA n :
    IF n.v > MaxNameLen THEN Err(n.b, ch)
    ELSE GoThen(TakeN(n.v, n.b, ch), LAMBDA s :
           IF Utf8Points(s.v)[1] THEN Done(Utf8Points(s.v)[2], s.b, ch) ELSE Err(s.b, ch)))

(* The header as FramedServer.accept reads it. *)
GoReadHeader(b, ch) ==
  GoThen(GoByte(b, ch), LAMBDA v :
    IF v.v[1] # PROTOCOL THEN Err(v.b, ch)
    ELSE GoThen(GoReadHeaderName(v.b, ch), LAMBDA i :
           GoThen(GoReadHeaderName(i.b, ch), LAMBDA f : Done(<<i.v, f.v>>, f.b, ch))))

(* The payload of InvokeFramed; names must be valid UTF-8. *)
GoInvokeFramed(x) ==
  <<PROTOCOL>> \o GoWriteString(x[1]).b \o GoWriteString(x[2]).b
    \o (IF Len(x[3]) > 0 THEN <<0>> \o Uleb(Len(x[3])) \o x[3] ELSE <<>>)

-----------------------------------------------------------------------------
(* JavaScript *)

RECURSIVE JsReadPath(_, _, _, _, _)
JsReadPath(n, depth, path, b, ch) ==
  IF n = 0 THEN Done(path, b, ch)
  ELSE JsThen(JsReadVarU32(b, ch), LAMBDA r :
         JsReadPath(n - 1, depth, IF Len(path) < depth THEN Append(path, r.v) ELSE path, r.b, ch))

(* readFrameHeader: <<path, data length, path length>>. *)
JsReadFrameHeader(depth, b, ch) ==
  JsThen(JsReadVarU32(b, ch), LAMBDA len :
    JsThen(JsReadPath(len.v, depth, <<>>, len.b, ch), LAMBDA p :
      JsThen(JsReadVarU32(p.b, ch), LAMBDA n : Done(<<p.v, n.v, len.v>>, n.b, ch))))

(* One round of _ingress, without routing: the data may come in any pieces.  Sessions *)
(* call restrict before start, so that maxDepth is the depth of their types.          *)
JsReadFrame(depth, b, ch) ==
  JsThen(JsReadFrameHeader(depth, b, ch), LAMBDA h :
    IF h.v[3] > depth THEN Err(h.b, ch)
    ELSE JsThen(TakeN(h.v[2], h.b, ch), LAMBDA d : Done(Frame(h.v[1], d.v), d.b, ch)))

JsWriteFrame(f) ==
  JsVarU(Len(f.path)) \o Cat([i \in 1..Len(f.path) |-> JsVarU(f.path[i])]) \o JsVarU(Len(f.data)) \o f.data

(* AsyncReader.name with a maximum. *)
JsReadShortName(b, ch) ==
  JsThen(JsReadVarU32(b, ch), LAMBDA n : IF n.v > MaxNameLen THEN Err(n.b, ch) ELSE JsReadName(b, ch))

JsReadHeader(b, ch) ==
  JsThen(TakeN(1, b, ch), LAMBDA v :
    IF v.v[1] # PROTOCOL THEN Err(v.b, ch)
    ELSE JsThen(JsReadShortName(v.b, ch), LAMBDA i :
           JsThen(JsReadShortName(i.b, ch), LAMBDA f : Done(<<i.v, f.v>>, f.b, ch))))

(* Mux.writeHeader, then the parameters on the root sub-stream (Outgoing.write). *)
JsWriteInvocation(x) ==
  <<PROTOCOL>> \o JsName(x[1]) \o JsName(x[2])
    \o (IF Len(x[3]) > 0 THEN JsWriteFrame(Frame(<<>>, x[3])) ELSE <<>>)

-----------------------------------------------------------------------------
(* The codecs of the three runtimes side by side *)

IsFrame(t) == t.k = "frame"

EncodeWire(c, t, v) ==
  CASE c = "rust" /\ IsFrame(t) -> FrameEncode(v)
    [] c = "go" /\ IsFrame(t)   -> GoWriteFrame(v)
    [] c = "js" /\ IsFrame(t)   -> JsWriteFrame(v)
    [] c = "rust"               -> EncodeInvocation(v)
    [] c = "go"                 -> GoInvokeFramed(v)
    [] c = "js"                 -> JsWriteInvocation(v)

(* An invocation is its header and then the data of the frame that follows, if one does. *)
Invocation(t, h, ReadF(_)) ==
  IF h.st # "ok" THEN h
  ELSE IF ~t.params THEN [h EXCEPT !.v = Append(@, <<>>)]
  ELSE LET f == ReadF(h.b)
       IN  IF f.st = "ok" THEN [f EXCEPT !.v = Append(h.v, @.data)] ELSE f

(* One call of the Rust reader; a header is read from its start again.  Its parameters *)
(* come on the root path: nothing in them is pending.                                 *)
RustWire(t, s, b) ==
  IF IsFrame(t) THEN FrameDecode(s, b)
  ELSE LET ingress(f) == [st |-> f.st, v |-> f.v, b |-> f.b, d |-> NoDeferred, s |-> Idle]
           r == Invocation(t, HeaderRead(b), LAMBDA x : ingress(IngressReadFrame(0, x, <<>>)))
       IN  IF r.st = "more" THEN Partial(Idle, b) ELSE r

DecodeWire(c, t, b, ch) ==
  CASE c = "go" /\ IsFrame(t) -> GoReadFrame(b, ch)
    [] c = "js" /\ IsFrame(t) -> JsReadFrame(t.depth, b, ch)
    [] c = "ingress"          -> IngressReadFrame(t.depth, b, ch)
    [] c = "go_ingress"       -> GoIngressFrame(t.depth, b, ch)
    [] c = "go" /\ ~IsFrame(t) -> Invocation(t, GoReadHeader(b, ch), LAMBDA x : GoIngressFrame(0, x, ch))
    [] c = "js" /\ ~IsFrame(t) -> Invocation(t, JsReadHeader(b, ch), LAMBDA x : JsReadFrame(0, x, ch))
=============================================================================
