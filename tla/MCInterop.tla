------------------------------ MODULE MCInterop ------------------------------
(* Calls with parameters of every kind of type, and small raw inputs. *)
EXTENDS Interop

Late(v) == [rdy |-> FALSE, v |-> v]
Now(v) == [rdy |-> TRUE, v |-> v]
Chunks(cs) == [rdy |-> FALSE, cs |-> cs]
All(cs) == [rdy |-> TRUE, cs |-> cs]
Ok(v) == [c |-> 0, v |-> v]
Er(v) == [c |-> 1, v |-> v]

One(t, vs) == [i \in 1..Len(vs) |-> <<<<t>>, <<vs[i]>>>>]

Flags9(i) == [j \in 1..9 |-> IF j \in {1, i} THEN 1 ELSE 0]

Plains ==
  Cat(<<One(TBool, <<0, 1>>), One(TU8, <<0, 255>>), One(TS8, <<-128, -1, 127>>),
         One(TU16, <<0, 127, 128, 16384, 65535>>),
         One(TS16, <<-32768, -129, -65, -64, -1, 0, 63, 64, 32767>>),
         One(TF32, <<<<0, 0, 128, 63>>, <<1, 0, 192, 127>>>>),
         One(TChar, <<65, 233, 8364, 55295, 57344, 128512, 1114111>>),
         One(TString, <<<<>>, <<65, 233, 8364>>, <<128512>>>>),
         One(TOwn, <<<<1, 2>>>>), One(TBorrow, <<<<>>>>), One(TGuest, <<<<1, 2>>>>),
         One(TList(TU8), <<<<>>, <<7, 8>>>>), One(TList(TString), <<<<>>, <<<<65>>, <<233>>>>>>),
         One(TOpt(TOpt(TU8)), <<<<>>, <<<<>>>>, <<<<3>>>>>>),
         One(TRes(TUnit, TString), <<Ok(NoValue), Er(<<65>>)>>),
         One(TVar(<<TU16, TUnit, TList(TS8)>>), <<Ok(300), Er(NoValue), [c |-> 2, v |-> <<-1>>]>>),
         One(TEnum(3), <<0, 2>>), One(TEnum(200), <<199>>), One(TFlags(3), <<<<1, 0, 1>>>>), One(TFlags(8), <<[i \in 1..8 |-> 1]>>),
         One(TArr(TU16, 2), <<<<1, 300>>>>), One(TFlags(9), <<Flags9(9), Flags9(1)>>),
         One(TRec(<<TU8, TRec(<<TU16, TString>>)>>), <<<<1, <<300, <<65>>>>>>>>)>>)

Asyncs ==
  Cat(<<One(TFut(TU8), <<Late(5), Now(5)>>), One(TFut(TUnit), <<Late(NoValue), Now(NoValue)>>),
         One(TFut(TString), <<Late(<<233>>)>>), One(TFut(TFut(TU16)), <<Late(Late(300)), Now(Late(1)), Late(Now(1))>>),
         One(TStream(TU8), <<All(<<>>), All(<<<<1, 2>>>>), Chunks(<<<<1>>, <<>>, <<2, 3>>>>)>>),
         One(TInput, <<All(<<<<1>>>>), All(<<<<1, 2>>>>), Chunks(<<>>), Chunks(<<<<1, 2, 3>>, <<4>>>>)>>),
         One(TStream(TU16), <<All(<<<<1, 300>>>>), Chunks(<<<<1>>, <<300, 2>>>>)>>),
         One(TArr(TFut(TU8), 2), <<<<Now(1), Late(2)>>>>), One(TList(TFut(TU8)), <<<<Late(1), Now(2), Late(3)>>>>),
         One(TStream(TFut(TU8)), <<Chunks(<<<<Late(1)>>, <<Now(2), Late(3)>>>>), All(<<<<Late(1), Late(2)>>>>)>>),
         One(TStream(TStream(TU8)), <<Chunks(<<<<Chunks(<<<<1>>>>)>>, <<All(<<<<2>>>>), Chunks(<<>>)>>>>)>>),
         One(TFut(TStream(TU8)), <<Late(Chunks(<<<<1>>, <<2>>>>)), Late(All(<<>>))>>),
         One(TFut(TTup(<<TU8, TFut(TU8)>>)), <<Late(<<1, Late(2)>>)>>),
         One(TOpt(TStream(TU8)), <<<<>>, <<Chunks(<<<<1>>>>)>>>>),
         One(TRes(TFut(TU8), TList(TStream(TU8))), <<Ok(Late(1)), Er(<<Chunks(<<<<9>>>>), All(<<>>)>>)>>),
         One(TVar(<<TTup(<<TU8, TFut(TU8)>>), TList(TFut(TU8)), TUnit>>),
             <<Ok(<<1, Late(2)>>), Er(<<Late(1)>>), [c |-> 2, v |-> NoValue]>>),
         One(TRec(<<TStream(TTup(<<TU8, TFut(TBool)>>)), TU8>>),
             <<<<Chunks(<<<<<<1, Late(1)>>>>, <<<<2, Late(0)>>>>>>), 7>>>>)>>)

Calls == <<<<<<TU8, TFut(TString), TStream(TU8)>>, <<1, Late(<<65>>), Chunks(<<<<1, 2>>>>)>>>>>>

Frames ==
  One(TFrame(2), <<Frame(<<>>, <<>>), Frame(<<>>, <<7>>), Frame(<<0>>, <<1, 2>>),
                Frame(<<1, 200>>, <<1, 2, 3, 4>>), Frame(<<300>>, <<>>)>>)
  \o One(THeader(TRUE), <<<<<<65>>, <<233>>, <<9>>>>, <<<<>>, <<66>>, <<1, 2, 3, 4>>>>>>)
  \o One(THeader(FALSE), <<<<<<65>>, <<233>>, <<>>>>, <<<<>>, <<>>, <<>>>>>>)

MCCases == Plains \o Asyncs \o Calls \o Frames

(* All short inputs. *)
ShortTypes == {TBool, TS8, TU16, TS16, TChar, TString, TList(TU8), TList(TU16), TOpt(TBool),
               TRes(TUnit, TU8), TVar(<<TUnit, TU8>>), TEnum(2), TFlags(3), TFlags(9), TOwn, TGuest,
               TFut(TU8), TFut(TUnit), TStream(TU8), TStream(TU16), TFrame(1), THeader(FALSE)}
Short == UNION {[1..n -> {0, 1, 2, 63, 127, 128, 195, 169, 240, 255}] : n \in 1..3}

(* The number n < 128 in one byte, padded, and in a byte more than a u32 has; the largest *)
(* u32, and one more.                                                                    *)
Forms(n) == {<<n>>, <<128 + n, 0>>, <<128 + n, 128, 0>>, <<128 + n, 128, 128, 0>>}
Limits == {<<255, 255, 15>>, <<128, 128, 16>>}

Numbered ==
  {<<t, n \o d>> : t \in {TString, TList(TU8), TList(TU16), TOwn, TGuest, TEnum(2), TEnum(3),
                            TVar(<<TUnit, TU8, TString>>)},
                    n \in Limits \cup UNION {Forms(i) : i \in 0..3},
                    d \in {<<>>, <<1>>, <<1, 2>>, <<3, 1>>, <<65, 195, 169>>}}

(* Frames with a path and data up to and beyond every limit. *)
RawFrames ==
  {<<TFrame(depth), n \o p \o len \o Same(7, k)>> :
     depth \in {0, 1, 3}, n \in Limits \cup UNION {Forms(i) : i \in {0, 1, 3}} \cup {<<2>>},
     p \in {Same(1, i) : i \in 0..4} \cup {<<129, 128, 0>>, <<1, 128, 128, 16, 1>>},
     len \in Limits \cup Forms(5) \cup {<<0>>, <<130, 128, 0>>, <<4>>}, k \in {0, 2, 5, 6}}

RawHeaders ==
  {<<THeader(FALSE), <<1>> \o n \o s \o m \o z>> :
     n, m \in Limits \cup Forms(2) \cup {<<0>>, <<129, 0>>, <<3>>}, s, z \in {<<>>, <<65>>, <<195, 169>>, <<65, 66, 67>>}}

MCRawInputs == (ShortTypes \X Short) \cup Numbered \cup RawFrames \cup RawHeaders
MCShared == {<<1, 2>>}
=============================================================================
