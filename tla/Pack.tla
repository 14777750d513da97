-------------------------------- MODULE Pack --------------------------------
(***************************************************************************)
(* crates/transport/src/pack.rs: a value with all that is pending in it,   *)
(* awaited, in one flat buffer.                                            *)
(*                                                                         *)
(* Encoding leaves a placeholder byte 0 for every pending value and passes *)
(* its offset to the sink, here a Packer that collects the encoded values  *)
(* as [off, b], in any order; fill puts them in place.                     *)
(***************************************************************************)
EXTENDS RustCodec

Packed(b, holes) == [b |-> b, holes |-> holes]

(* Offsets of the holes are those in the buffer the parts are encoded to. *)
Shift(x, n) == {[h EXCEPT !.off = @ + n] : h \in x.holes}

PackParts(head, xs) ==
  LET At(i) == Len(head) + Len(Cat([j \in 1..i - 1 |-> xs[j].b]))
  IN  Packed(head \o Cat([i \in 1..Len(xs) |-> xs[i].b]),
             UNION {Shift(xs[i], At(i)) : i \in 1..Len(xs)})

(* Holes in order of offset, each in place of its placeholder; -1 if there is none. *)
Fill(x) ==
  LET hs == SetToSortSeq(x.holes, LAMBDA g, h : g.off < h.off)
      step(acc, h) ==
        IF acc.prev < 0 \/ h.off < acc.prev \/ x.b[h.off + 1] # 0 THEN [acc EXCEPT !.prev = -1]
        ELSE [b |-> acc.b \o SubSeq(x.b, acc.prev + 1, h.off) \o h.b, prev |-> h.off + 1]
      out == FoldLeft(step, [b |-> <<>>, prev |-> 0], hs)
  IN  IF out.prev < 0 THEN EncErr ELSE Enc(out.b \o SubSeq(x.b, out.prev + 1, Len(x.b)), <<>>)

Hole(b) == Packed(<<0>>, {[off |-> 0, b |-> b]})

RECURSIVE PackEncode(_, _)
(* Packer::write_future: the awaited value, itself filled. *)
PackFuture(e, v) == Hole(<<1>> \o Fill(PackEncode(e, v)).b)

(* Packer::write_stream: all elements as one ready list. *)
PackStream(e, cs) == PackFuture(TList(e), Cat(cs))

(* write_stream_bytes and write_stream_read: push_bytes behind the ready header. *)
PackStreamBytes(cs) == Hole(<<1>> \o Uleb(Len(Cat(cs))) \o Cat(cs))

PackEncode(t, v) ==
  CASE t.k = "list" /\ t.e # TU8 ->
         PackParts(Uleb(Len(v)), [i \in 1..Len(v) |-> PackEncode(t.e, v[i])])
    [] t.k = "array" -> PackParts(<<>>, [i \in 1..Len(v) |-> PackEncode(t.e, v[i])])
    [] t.k \in {"tuple", "record"} ->
         PackParts(<<>>, [i \in 1..Len(v) |-> PackEncode(t.es[i], v[i])])
    [] t.k = "option" -> PackParts(<<Len(v)>>, [i \in 1..Len(v) |-> PackEncode(t.e, v[i])])
    [] t.k \in {"result", "variant"} -> PackParts(Uleb(v.c), <<PackEncode(t.es[v.c + 1], v.v)>>)
    [] t.k = "future" ->
         IF v.rdy THEN PackParts(<<1>>, <<PackEncode(t.e, v.v)>>) ELSE PackFuture(t.e, v.v)
    [] t.k = "stream" ->
         IF v.rdy THEN PackParts(<<1>>, <<PackEncode(TList(t.e), Cat(v.cs))>>)
         ELSE IF t.e = TU8 THEN PackStreamBytes(v.cs) ELSE PackStream(t.e, v.cs)
    [] OTHER -> Packed(RustEncode(t, v, <<>>).b, {})

PackValue(t, v) == Fill(PackEncode(t, v))

(* pack_ready refuses a value that defers anything; what it packs is its encoding. *)
PackReady(t, v) == LET r == RustEncode(t, v, <<>>) IN IF r.ok /\ r.d = <<>> THEN r ELSE EncErr

(* All of the buffer, with nothing pending in it. *)
Unpack(t, b, ch) ==
  LET r == RustDecode(t, Idle, b)
  IN  IF r.st = "ok" /\ r.d = NoDeferred /\ r.b = <<>> THEN Done(r.v, <<>>, ch) ELSE Err(r.b, ch)
=============================================================================
